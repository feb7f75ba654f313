---------------------------- MODULE BatcherProofs ----------------------------
(***************************************************************************)
(* What holds of the batcher for all sizes and limits, and for any number  *)
(* of calls of batchStart at a time: the bounds of the queue, that no block *)
(* is left out, which frame can be the last, and the stream of bytes.      *)
(***************************************************************************)
EXTENDS Batcher, CodecProofs

\* A record with the fields of a channel.
Shaped(ch) == DOMAIN ch = {"id", "encoded", "buffer", "closed", "number", "frames"}

-----------------------------------------------------------------------------
(* Cutting a channel into frames. *)

\* A channel whose bytes and frames are in order.
TypedChannel(ch) == /\ Shaped(ch)
                    /\ ch.id \in Nat \ {0}
                    /\ ch.buffer \in Seq(Block)
                    /\ ch.closed \in BOOLEAN
                    /\ ch.number \in Nat
                    /\ ch.frames \in Seq(Frames)

\* Whole frames, and what is over.
LEMMA WholeFrames ==
    \A l \in Nat, m \in Nat \ {0} :
        l \div m \in Nat /\ (l \div m) * m <= l /\ l < (l \div m) * m + m
OBVIOUS

\* One frame more is MaxData bytes more.
LEMMA FrameAfterFrame ==
    \A n, m \in Nat : n * m \in Nat /\ (n + 1) * m = n * m + m
OBVIOUS

\* The smaller of two numbers.
LEMMA MinOfTwo == \A a, b \in Nat : Min({a, b}) = IF a <= b THEN a ELSE b
<1> SUFFICES ASSUME NEW a \in Nat, NEW b \in Nat
             PROVE  Min({a, b}) = IF a <= b THEN a ELSE b
    OBVIOUS
<1> DEFINE least(x) == x \in {a, b} /\ \A y \in {a, b} : x =< y
           m == IF a <= b THEN a ELSE b
<1>1. least(m) /\ \A x : least(x) => x = m
    OBVIOUS
<1>2. Min({a, b}) = CHOOSE x : least(x)
    BY DEF Min
<1> HIDE DEF least, m
<1>3. Min({a, b}) = m
    BY <1>1, <1>2
<1> QED BY <1>3 DEF m

\* A frame holds MaxData of the bytes, or all that are left.
LEMMA FrameAtIs ==
    ASSUME NEW ch, TypedChannel(ch), NEW i \in Nat \ {0},
           (i - 1) * MaxData <= Len(ch.buffer)
    PROVE  /\ FrameAt(ch, i) \in Frames
           /\ FrameAt(ch, i).chan = ch.id
           /\ FrameAt(ch, i).num = ch.number + i - 1
           /\ FrameAt(ch, i).data =
                 SubSeq(ch.buffer, (i - 1) * MaxData + 1,
                        IF (i - 1) * MaxData + MaxData <= Len(ch.buffer)
                        THEN (i - 1) * MaxData + MaxData ELSE Len(ch.buffer))
           /\ FrameAt(ch, i).isLast = (Len(ch.buffer) - (i - 1) * MaxData <= MaxData)
<1> DEFINE from == (i - 1) * MaxData
           to == IF from + MaxData <= Len(ch.buffer) THEN from + MaxData ELSE Len(ch.buffer)
           data == SubSeq(ch.buffer, from + 1, to)
<1>1. MaxData \in Nat \ {0} /\ Len(ch.buffer) \in Nat
    BY BatcherAssumption DEF BatcherAssumption, MaxData, TypedChannel
<1>2. from \in Nat
    <2>1. i - 1 \in Nat
        OBVIOUS
    <2> QED BY <1>1, <2>1, FrameAfterFrame
<1> HIDE DEF from
<1>3. Min({from + MaxData, Len(ch.buffer)}) = to
    <2>1. from + MaxData \in Nat
        BY <1>1, <1>2
    <2> QED BY <1>1, <2>1, MinOfTwo
<1>4. FrameAt(ch, i) = Frame(ch.id, ch.number + i - 1, data, Len(ch.buffer) - from <= MaxData)
    BY <1>3 DEF FrameAt, from
<1>5. data \in Seq(Block)
    <2>1. from + 1 \in Int /\ to \in Int /\ to <= Len(ch.buffer)
        BY <1>1, <1>2
    <2>2. \A j \in from + 1 .. to : ch.buffer[j] \in Block
        BY <1>1, <1>2, <2>1 DEF TypedChannel
    <2> HIDE DEF to
    <2> QED BY <2>1, <2>2, SubSeqProperties
<1>6. ch.number + i - 1 \in Nat /\ ch.id \in Nat \ {0}
    BY DEF TypedChannel
<1> HIDE DEF data
<1>7. /\ FrameAt(ch, i) \in Frames
      /\ FrameAt(ch, i).chan = ch.id
      /\ FrameAt(ch, i).num = ch.number + i - 1
      /\ FrameAt(ch, i).data = data
      /\ FrameAt(ch, i).isLast = (Len(ch.buffer) - from <= MaxData)
    BY <1>4, <1>5, <1>6 DEF Frame, Frames
<1> QED BY <1>7 DEF data, from

\* The first n frames hold the first n * MaxData bytes.
LEMMA FirstFrames ==
    ASSUME NEW ch, TypedChannel(ch)
    PROVE  \A n \in Nat : n * MaxData <= Len(ch.buffer) =>
              /\ [i \in 1 .. n |-> FrameAt(ch, i)] \in Seq(Frames)
              /\ DataOf([i \in 1 .. n |-> FrameAt(ch, i)]) = SubSeq(ch.buffer, 1, n * MaxData)
<1> DEFINE cut(n) == [i \in 1 .. n |-> FrameAt(ch, i)]
           P(n) == n * MaxData <= Len(ch.buffer) =>
                      /\ cut(n) \in Seq(Frames)
                      /\ DataOf(cut(n)) = SubSeq(ch.buffer, 1, n * MaxData)
           C == {n \in Nat : P(n)}
<1>0. MaxData \in Nat \ {0} /\ Len(ch.buffer) \in Nat /\ ch.buffer \in Seq(Block)
    BY BatcherAssumption DEF BatcherAssumption, MaxData, TypedChannel
<1>1. P(0)
    <2>1. cut(0) = <<>> /\ 0 * MaxData = 0
        BY <1>0
    <2>2. SubSeq(ch.buffer, 1, 0) = <<>>
        BY SubSeqEmpty
    <2>3. <<>> \in Seq(Frames)
        OBVIOUS
    <2> HIDE DEF cut
    <2> QED BY <2>1, <2>2, <2>3, DataOfNone
<1>2. ASSUME NEW n \in Nat, P(n) PROVE P(n + 1)
    <2> SUFFICES ASSUME (n + 1) * MaxData <= Len(ch.buffer)
                 PROVE  /\ cut(n + 1) \in Seq(Frames)
                        /\ DataOf(cut(n + 1)) = SubSeq(ch.buffer, 1, (n + 1) * MaxData)
        OBVIOUS
    <2> DEFINE from == n * MaxData
               new == FrameAt(ch, n + 1)
    <2>1. /\ from \in Nat /\ (n + 1) * MaxData = from + MaxData
          /\ from + MaxData <= Len(ch.buffer)
          /\ (n + 1 - 1) * MaxData = from
        <3>1. n + 1 - 1 = n
            OBVIOUS
        <3> QED BY <1>0, <3>1, FrameAfterFrame
    <2>2. new \in Frames /\ new.data = SubSeq(ch.buffer, from + 1, from + MaxData)
        <3>1. n + 1 \in Nat \ {0} /\ (n + 1 - 1) * MaxData <= Len(ch.buffer)
            BY <1>0, <2>1
        <3> QED BY <2>1, <3>1, FrameAtIs
    <2>3. cut(n) \in Seq(Frames) /\ DataOf(cut(n)) = SubSeq(ch.buffer, 1, from)
        BY <1>0, <1>2, <2>1
    <2>4. Len(cut(n)) = n /\ \A i \in 1 .. n : cut(n)[i] = FrameAt(ch, i)
        BY <2>3
    <2>5. cut(n + 1) = Append(cut(n), new)
        <3> DEFINE u == cut(n)
                   v == cut(n + 1)
        <3>1. v[n + 1] = new /\ \A i \in 1 .. n : v[i] = FrameAt(ch, i)
            OBVIOUS
        <3>2. v \in Seq(Frames) /\ Len(v) = n + 1
            <4>1. ASSUME NEW i \in 1 .. n + 1 PROVE FrameAt(ch, i) \in Frames
                <5>1. CASE i = n + 1
                    BY <2>2, <5>1
                <5>2. CASE i # n + 1
                    <6>1. i \in 1 .. n
                        BY <5>2
                    <6> QED BY <2>3, <2>4, <6>1
                <5> QED BY <5>1, <5>2
            <4> QED BY <4>1
        <3> HIDE DEF v
        <3>3. v = Append(u, new)
            <4>1. u \in Seq(Frames) /\ Len(u) = n /\ \A i \in 1 .. n : u[i] = FrameAt(ch, i)
                BY <2>3, <2>4
            <4> HIDE DEF u, new
            <4>2. new \in Frames
                BY <2>2
            <4>3. Len(v) = Len(u) + 1 /\ v[Len(u) + 1] = new
                BY <3>1, <3>2, <4>1
            <4>4. \A i \in 1 .. Len(u) : v[i] = u[i]
                BY <3>1, <4>1
            <4> QED BY <3>2, <4>1, <4>2, <4>3, <4>4, IsAppend
        <3> QED BY <3>3 DEF v
    <2> HIDE DEF cut, new
    <2>6. DataOf(cut(n + 1)) = SubSeq(ch.buffer, 1, from) \o SubSeq(ch.buffer, from + 1, from + MaxData)
        BY <2>2, <2>3, <2>5, DataOfAppend
    <2>7. SubSeq(ch.buffer, 1, from) \o SubSeq(ch.buffer, from + 1, from + MaxData)
              = SubSeq(ch.buffer, 1, from + MaxData)
        <3>1. /\ 1 \in 1 .. Len(ch.buffer) + 1 /\ from \in 1 - 1 .. Len(ch.buffer)
              /\ from + MaxData \in from .. Len(ch.buffer)
            BY <1>0, <2>1
        <3> QED BY <1>0, <3>1, ConcatAdjacentSubSeq
    <2>8. cut(n + 1) \in Seq(Frames)
        BY <2>2, <2>3, <2>5
    <2>9. DataOf(cut(n + 1)) = SubSeq(ch.buffer, 1, from + MaxData)
        BY <2>6, <2>7
    <2> QED BY <2>1, <2>8, <2>9
<1> HIDE DEF P
<1>3. 0 \in C
    BY <1>1
<1>4. ASSUME NEW n \in Nat, n \in C PROVE n + 1 \in C
    BY <1>2, <1>4
<1>5. Nat \subseteq C
    <2> HIDE DEF C
    <2> QED BY <1>3, <1>4, NatInduct
<1>6. \A n \in Nat : P(n)
    BY <1>5
<1> QED BY <1>6 DEF P

\* The frames that outputFrames makes.
FramesCount(ch) == Len(ch.buffer) \div MaxData + (IF ch.closed THEN 1 ELSE 0)
NewFrames(ch) == [i \in 1 .. FramesCount(ch) |-> FrameAt(ch, i)]

\* They and what the channel keeps are the bytes it had; a closed channel keeps
\* none.
LEMMA OutputFramesCut ==
    ASSUME NEW ch, TypedChannel(ch)
    PROVE  /\ NewFrames(ch) \in Seq(Frames)
           /\ FramesCount(ch) \in Nat
           /\ TypedChannel(OutputFrames(ch))
           /\ OutputFrames(ch).id = ch.id
           /\ OutputFrames(ch).closed = ch.closed
           /\ OutputFrames(ch).number = ch.number + FramesCount(ch)
           /\ OutputFrames(ch).frames = ch.frames \o NewFrames(ch)
           /\ DataOf(NewFrames(ch)) \o OutputFrames(ch).buffer = ch.buffer
           /\ ch.closed => OutputFrames(ch).buffer = <<>>
<1> DEFINE buf == ch.buffer
           whole == Len(buf) \div MaxData
           count == FramesCount(ch)
           new == NewFrames(ch)
           rest == SubSeq(buf, count * MaxData + 1, Len(buf))
           out == OutputFrames(ch)
<1>0. MaxData \in Nat \ {0} /\ Len(buf) \in Nat /\ buf \in Seq(Block)
    BY BatcherAssumption DEF BatcherAssumption, MaxData, TypedChannel
<1>1. whole \in Nat /\ whole * MaxData <= Len(buf) /\ Len(buf) < whole * MaxData + MaxData
      /\ whole * MaxData \in Nat
    BY <1>0, WholeFrames, FrameAfterFrame
<1>2. count = IF ch.closed THEN whole + 1 ELSE whole
    BY <1>1 DEF FramesCount
<1>3. /\ out.id = ch.id /\ out.closed = ch.closed /\ out.number = ch.number + count
      /\ out.frames = ch.frames \o new /\ out.buffer = rest /\ Shaped(out)
    <2>1. out = [ch EXCEPT !.frames = ch.frames \o new, !.number = ch.number + count,
                           !.buffer = rest]
        BY DEF OutputFrames, NewFrames, FramesCount
    <2> HIDE DEF out, new, count, rest
    <2> QED BY <2>1 DEF TypedChannel, Shaped
<1>4. SubSeq(buf, 1, whole * MaxData) \o SubSeq(buf, whole * MaxData + 1, Len(buf)) = buf
    <2> HIDE DEF whole, buf
    <2>1. /\ 1 \in 1 .. Len(buf) + 1 /\ whole * MaxData \in 1 - 1 .. Len(buf)
          /\ Len(buf) \in whole * MaxData .. Len(buf)
        BY <1>0, <1>1
    <2> QED BY <1>0, <2>1, ConcatAdjacentSubSeq, SubSeqFull
<1>5. /\ [i \in 1 .. whole |-> FrameAt(ch, i)] \in Seq(Frames)
      /\ DataOf([i \in 1 .. whole |-> FrameAt(ch, i)]) = SubSeq(buf, 1, whole * MaxData)
    <2> HIDE DEF whole
    <2> QED BY <1>1, FirstFrames
<1> HIDE DEF whole
<1>6. CASE ~ ch.closed
    <2>1. count = whole /\ new = [i \in 1 .. whole |-> FrameAt(ch, i)]
        BY <1>2, <1>6 DEF NewFrames
    <2>2. rest \in Seq(Block)
        <3>1. \A j \in count * MaxData + 1 .. Len(buf) : buf[j] \in Block
            BY <1>0, <1>1, <2>1
        <3> QED BY <1>0, <1>1, <2>1, <3>1, SubSeqProperties
    <2>3. new \in Seq(Frames) /\ DataOf(new) \o rest = buf /\ count \in Nat
        BY <1>1, <1>4, <1>5, <2>1
    <2> HIDE DEF out, new, count, rest, buf
    <2>4. TypedChannel(out)
        BY <1>3, <2>2, <2>3 DEF TypedChannel
    <2> QED BY <1>3, <1>6, <2>3, <2>4 DEF out, new, count, buf
<1>7. CASE ch.closed
    <2> DEFINE last == FrameAt(ch, whole + 1)
               first == [i \in 1 .. whole |-> FrameAt(ch, i)]
    <2>1. count = whole + 1 /\ count \in Nat
        BY <1>1, <1>2, <1>7
    <2>2. last \in Frames /\ last.data = SubSeq(buf, whole * MaxData + 1, Len(buf))
        <3>1. whole + 1 \in Nat \ {0} /\ whole + 1 - 1 = whole
            BY <1>1
        <3>2. /\ last \in Frames
              /\ last.data = SubSeq(buf, whole * MaxData + 1,
                                    IF whole * MaxData + MaxData <= Len(buf)
                                    THEN whole * MaxData + MaxData ELSE Len(buf))
            BY <1>1, <3>1, FrameAtIs
        <3>3. ~ (whole * MaxData + MaxData <= Len(buf))
            BY <1>0, <1>1
        <3> QED BY <3>2, <3>3
    <2>3. new = Append(first, last)
        <3>1. first \in Seq(Frames) /\ Len(first) = whole
            BY <1>1, <1>5
        <3>2. new = [i \in 1 .. whole + 1 |-> FrameAt(ch, i)]
            BY <2>1 DEF NewFrames
        <3>3. new \in Seq(Frames) /\ Len(new) = whole + 1
            <4>1. ASSUME NEW i \in 1 .. whole + 1 PROVE FrameAt(ch, i) \in Frames
                <5>1. CASE i = whole + 1
                    BY <2>2, <5>1
                <5>2. CASE i # whole + 1
                    <6>1. i \in 1 .. whole
                        BY <1>1, <5>2
                    <6>2. first[i] = FrameAt(ch, i)
                        BY <6>1
                    <6> HIDE DEF first
                    <6>3. first[i] \in Frames
                        BY <3>1, <6>1
                    <6> QED BY <6>2, <6>3
                <5> QED BY <5>1, <5>2
            <4> HIDE DEF new
            <4> QED BY <1>1, <3>2, <4>1
        <3>4. new[whole + 1] = last /\ \A i \in 1 .. whole : new[i] = first[i]
            <4> HIDE DEF new
            <4> QED BY <1>1, <3>2
        <3> HIDE DEF new, first, last
        <3>5. last \in Frames
            BY <2>2
        <3>6. Len(new) = Len(first) + 1 /\ new[Len(first) + 1] = last
              /\ \A i \in 1 .. Len(first) : new[i] = first[i]
            BY <3>1, <3>3, <3>4
        <3> QED BY <3>1, <3>3, <3>5, <3>6, IsAppend
    <2>4. rest = <<>>
        <3>1. count * MaxData = whole * MaxData + MaxData
            BY <1>0, <1>1, <2>1, FrameAfterFrame
        <3>2. Len(buf) < count * MaxData + 1 /\ count * MaxData + 1 \in Int
            BY <1>0, <1>1, <3>1
        <3> QED BY <1>0, <3>2, SubSeqEmpty
    <2> HIDE DEF out, new, count, rest, buf, first, last
    <2>5. new \in Seq(Frames)
        BY <1>5, <2>2, <2>3 DEF first
    <2>6. DataOf(new) = buf
        <3>1. DataOf(new) = DataOf(first) \o last.data
            BY <1>5, <2>2, <2>3, DataOfAppend DEF first
        <3> QED BY <1>4, <1>5, <2>2, <3>1 DEF first
    <2>7. TypedChannel(out)
        <3>1. <<>> \in Seq(Block)
            OBVIOUS
        <3> QED BY <1>3, <2>1, <2>4, <2>5, <3>1 DEF TypedChannel
    <2>8. DataOf(new) \o rest = buf
        BY <1>0, <2>4, <2>6, ConcatEmptySeq
    <2> QED BY <1>3, <2>1, <2>4, <2>5, <2>7, <2>8 DEF out, new, count, buf
<1> QED BY <1>6, <1>7 DEF TypedChannel
\* More frames, more bytes.
LEMMA TimesUp == \A n, k, m \in Nat : n <= k => n * m <= k * m
OBVIOUS

\* The frames cut from a channel are numbered on from those before, and all are
\* full but the one that closes it.
LEMMA NewFramesAre ==
    ASSUME NEW ch, TypedChannel(ch)
    PROVE  /\ FramesCount(ch) \in Nat
           /\ DOMAIN NewFrames(ch) = 1 .. FramesCount(ch)
           /\ \A i \in 1 .. FramesCount(ch) :
                 /\ NewFrames(ch)[i].chan = ch.id
                 /\ NewFrames(ch)[i].num = ch.number + i - 1
                 /\ i < FramesCount(ch) \/ ~ ch.closed => Len(NewFrames(ch)[i].data) = MaxData
<1> DEFINE buf == ch.buffer
           whole == Len(buf) \div MaxData
           count == FramesCount(ch)
<1>0. MaxData \in Nat \ {0} /\ Len(buf) \in Nat /\ buf \in Seq(Block)
    BY BatcherAssumption DEF BatcherAssumption, MaxData, TypedChannel
<1>1. whole \in Nat /\ whole * MaxData <= Len(buf) /\ whole * MaxData \in Nat
    BY <1>0, WholeFrames, FrameAfterFrame
<1> HIDE DEF whole
<1>2. count \in Nat /\ count = IF ch.closed THEN whole + 1 ELSE whole
    BY <1>1 DEF FramesCount, whole
<1>3. DOMAIN NewFrames(ch) = 1 .. count /\ \A i \in 1 .. count : NewFrames(ch)[i] = FrameAt(ch, i)
    BY DEF NewFrames
<1> HIDE DEF count
<1>4. ASSUME NEW i \in 1 .. count
      PROVE  /\ FrameAt(ch, i).chan = ch.id
             /\ FrameAt(ch, i).num = ch.number + i - 1
             /\ i < count \/ ~ ch.closed => Len(FrameAt(ch, i).data) = MaxData
    <2> DEFINE from == (i - 1) * MaxData
    <2>1. i \in Nat \ {0} /\ i - 1 \in Nat /\ i - 1 <= whole
        BY <1>1, <1>2
    <2>2. from \in Nat /\ i * MaxData = from + MaxData /\ from <= whole * MaxData
        <3>1. i = (i - 1) + 1
            BY <2>1
        <3> DEFINE k == i - 1
        <3>2. k \in Nat /\ k <= whole /\ i = k + 1
            BY <2>1
        <3> HIDE DEF k
        <3>3. k * MaxData \in Nat /\ (k + 1) * MaxData = k * MaxData + MaxData
            BY <1>0, <3>2, FrameAfterFrame
        <3>4. k * MaxData <= whole * MaxData
            BY <1>0, <1>1, <3>2, TimesUp
        <3> QED BY <3>2, <3>3, <3>4 DEF k
    <2> HIDE DEF from
    <2>3. from <= Len(buf)
        BY <1>0, <1>1, <2>2
    <2>4. /\ FrameAt(ch, i).chan = ch.id
          /\ FrameAt(ch, i).num = ch.number + i - 1
          /\ FrameAt(ch, i).data =
                SubSeq(buf, from + 1,
                       IF from + MaxData <= Len(buf) THEN from + MaxData ELSE Len(buf))
        BY <2>1, <2>3, FrameAtIs DEF from
    <2>5. ASSUME i < count \/ ~ ch.closed PROVE Len(FrameAt(ch, i).data) = MaxData
        <3>1. i <= whole
            BY <1>1, <1>2, <2>1, <2>5
        <3>2. i * MaxData <= whole * MaxData
            BY <1>0, <1>1, <2>1, <3>1, TimesUp
        <3>3. from + MaxData <= Len(buf)
            BY <1>0, <1>1, <2>2, <3>2
        <3>4. FrameAt(ch, i).data = SubSeq(buf, from + 1, from + MaxData)
            BY <2>4, <3>3
        <3> DEFINE to == from + MaxData
        <3>5. from + 1 \in Int /\ to \in Int /\ from + 1 <= to + 1 /\ to <= Len(buf)
            BY <1>0, <2>2, <3>3
        <3>6. Len(SubSeq(buf, from + 1, to)) = to - (from + 1) + 1
            <4>1. \A j \in from + 1 .. to : buf[j] \in Block
                BY <1>0, <2>2, <3>5
            <4> HIDE DEF to, buf
            <4> QED BY <2>2, <3>5, <4>1, SubSeqProperties
        <3>7. to - (from + 1) + 1 = MaxData
            BY <1>0, <2>2
        <3> QED BY <3>4, <3>6, <3>7
    <2> QED BY <2>4, <2>5
<1> QED BY <1>2, <1>3, <1>4 DEF count

-----------------------------------------------------------------------------
(* The queue, and the blocks a call loads. *)

USE CodecAssumption, BatcherAssumption DEF CodecAssumption, BatcherAssumption, Block

Places == {"idle", "init", "range", "end", "load", "send", "sleep"}

\* A channel that has its id from the ids below n.
ChannelBelow(ch, n) == /\ Shaped(ch)
                       /\ ch.id \in 1 .. n - 1
                       /\ ch.encoded <= MaxEncodingBytesPerChannel

\* The queue is a sequence, of whatever the channels hold.
QueueBelow(q, n) == /\ \E S : q \in Seq(S)
                    /\ \A k \in DOMAIN q : ChannelBelow(q[k], n)

QueueOK == nextId \in Nat \ {0} /\ QueueBelow(channelQueue, nextId)

\* A call that loads is within its range, and all before it has been loaded.
Loading ==
    \A b \in Batchers : batcherAt[b] = "load" =>
        /\ loadNext[b] \in 1 .. loadEnd[b]
        /\ 1 .. loadNext[b] - 1 \subseteq loaded

\* Without overlapping calls only one runs, and the range it loads is the rest
\* of what there is room for.
OneCall ==
    /\ \A b, c \in Batchers : b \in Running /\ c \in Running => b = c
    /\ \A b \in Batchers :
          /\ batcherAt[b] \in {"end", "load"} =>
                Len(blocks) + loadEnd[b] - lastStored <= MaxBlocksPerChannelManager
          /\ batcherAt[b] = "load" => loadNext[b] = lastStored + 1

BatcherIInv == /\ BatcherTypeOK
               /\ QueueOK
               /\ NothingSkipped
               /\ Loading
               /\ overlapped \in BOOLEAN
               /\ overlapped \/ OneCall

-----------------------------------------------------------------------------
(* The largest number that fits. *)

\* A set of numbers below a bound has a largest one.
LEMMA MaxOf ==
    ASSUME NEW n \in Nat, NEW S \in SUBSET (0 .. n), S # {}
    PROVE  Max(S) \in S
<1> DEFINE R == {p \in Nat \X Nat : p[1] < p[2]}
           T == {t \in Nat : n - t \in S}
<1>1. T \subseteq Nat
    OBVIOUS
<1>2. T # {}
    <2>1. PICK x \in S : TRUE
        OBVIOUS
    <2>2. n - x \in Nat /\ n - (n - x) = x
        BY <2>1
    <2> QED BY <2>1, <2>2
<1>3. PICK t \in T : \A y \in T : <<y, t>> \notin R
    <2> HIDE DEF R, T
    <2> QED BY <1>1, <1>2, NatWellFounded, WFMin DEF R
<1>4. ASSUME NEW y \in S PROVE n - t >= y
    <2>1. y \in 0 .. n /\ t \in Nat
        OBVIOUS
    <2>2. n - y \in Nat /\ n - (n - y) = y
        BY <2>1
    <2>3. n - y \in T
        BY <2>2
    <2>4. <<n - y, t>> \notin R
        BY <1>3, <2>3
    <2>5. ~ (n - y < t)
        BY <2>1, <2>2, <2>4
    <2> QED BY <2>1, <2>2, <2>5
<1>5. n - t \in S
    OBVIOUS
<1> QED BY <1>4, <1>5 DEF Max

-----------------------------------------------------------------------------
(* Channels and their queue. *)

\* processBlocks adds between none and all of the blocks, and keeps the channel
\* within MaxEncodingBytesPerChannel.
LEMMA ProcessBlocksOK ==
    ASSUME NEW ch, NEW n \in Nat, ChannelBelow(ch, n), NEW bs \in Seq(Block)
    PROVE  /\ ProcessBlocks(ch, bs).added \in 0 .. Len(bs)
           /\ ChannelBelow(ProcessBlocks(ch, bs).channel, n)
<1> DEFINE fits(i) == EncodedWith(ch, bs, i) <= MaxEncodingBytesPerChannel
           fitting == {i \in 0 .. Len(bs) : fits(i)}
           added   == IF ch.closed THEN 0 ELSE Max(fitting)
<1>1. Len(bs) \in Nat
    OBVIOUS
<1>2. fits(0)
    BY DEF EncodedWith, ChannelBelow
<1>3. added \in 0 .. Len(bs) /\ fits(added)
    <2> HIDE DEF fits
    <2>1. fitting \in SUBSET (0 .. Len(bs)) /\ fitting # {}
        BY <1>1, <1>2
    <2>2. Max(fitting) \in fitting
        <3> HIDE DEF fitting
        <3> QED BY <1>1, <2>1, MaxOf
    <2> QED BY <1>1, <1>2, <2>2
<1>4. /\ ProcessBlocks(ch, bs).added = added
      /\ ProcessBlocks(ch, bs).channel =
            [ch EXCEPT !.encoded = EncodedWith(ch, bs, added),
                       !.buffer  = ch.buffer \o Packed(SubSeq(bs, 1, added)),
                       !.closed  = ch.closed \/ added < Len(bs)]
    BY DEF ProcessBlocks
<1> HIDE DEF added
<1> QED BY <1>3, <1>4 DEF ChannelBelow, Shaped

\* What is left of the blocks when the first m are gone.
LEMMA RestOfBlocks ==
    ASSUME NEW bs \in Seq(Block), NEW m \in 0 .. Len(bs)
    PROVE  /\ SubSeq(bs, m + 1, Len(bs)) \in Seq(Block)
           /\ Len(SubSeq(bs, m + 1, Len(bs))) = Len(bs) - m
<1>1. Len(bs) \in Nat /\ \A i \in 1 .. Len(bs) : bs[i] \in Block
    BY SMTT(30)
<1>2. \A i \in m + 1 .. Len(bs) : bs[i] \in Block
    BY <1>1
<1> QED BY <1>1, <1>2, SubSeqProperties

\* Cutting a channel into frames leaves its id and what it has encoded.
LEMMA OutputFramesOK ==
    ASSUME NEW ch, NEW n \in Nat, ChannelBelow(ch, n)
    PROVE  ChannelBelow(OutputFrames(ch), n)
BY DEF OutputFrames, ChannelBelow, Shaped

\* A queue with one channel replaced is a queue.
LEMMA ReplaceOK ==
    ASSUME NEW q, NEW n \in Nat, QueueBelow(q, n), NEW k \in DOMAIN q,
           NEW ch, ChannelBelow(ch, n)
    PROVE  /\ QueueBelow([q EXCEPT ![k] = ch], n)
           /\ Len([q EXCEPT ![k] = ch]) = Len(q)
           /\ DOMAIN [q EXCEPT ![k] = ch] = DOMAIN q
<1>1. PICK S : q \in Seq(S)
    BY DEF QueueBelow
<1>2. q \in Seq(S \cup {ch}) /\ ch \in S \cup {ch}
    BY <1>1
<1>3. [q EXCEPT ![k] = ch] \in Seq(S \cup {ch})
    BY <1>2
<1>4. \A j \in DOMAIN q : [q EXCEPT ![k] = ch][j] = IF j = k THEN ch ELSE q[j]
    BY <1>2
<1> QED BY <1>1, <1>2, <1>3, <1>4, SMTT(30) DEF QueueBelow

\* ensureChannelWithSpace: there is a last channel, and its id is used now.
LEMMA WithSpaceOK ==
    ASSUME QueueOK
    PROVE  /\ nextId + Len(WithSpace) - Len(channelQueue) \in {nextId, nextId + 1}
           /\ QueueBelow(WithSpace, nextId + Len(WithSpace) - Len(channelQueue))
           /\ Len(WithSpace) \in DOMAIN WithSpace
<1>1. PICK S : channelQueue \in Seq(S)
    BY DEF QueueOK, QueueBelow
<1>2. nextId \in Nat \ {0}
    BY DEF QueueOK
<1>3. Len(channelQueue) \in Nat /\ DOMAIN channelQueue = 1 .. Len(channelQueue)
    BY <1>1
<1>4. CASE channelQueue = <<>> \/ Last(channelQueue).closed
    <2> DEFINE new == NewChannel(nextId)
    <2>1. WithSpace = Append(channelQueue, new)
        BY <1>4 DEF WithSpace
    <2>2. ChannelBelow(new, nextId + 1)
        BY <1>2 DEF NewChannel, ChannelBelow, Shaped
    <2> HIDE DEF new
    <2>3. channelQueue \in Seq(S \cup {new}) /\ new \in S \cup {new}
        BY <1>1
    <2>4. /\ WithSpace \in Seq(S \cup {new})
          /\ Len(WithSpace) = Len(channelQueue) + 1
          /\ WithSpace[Len(channelQueue) + 1] = new
          /\ \A k \in 1 .. Len(channelQueue) : WithSpace[k] = channelQueue[k]
        BY <2>1, <2>3
    <2>5. DOMAIN WithSpace = 1 .. Len(channelQueue) + 1
        BY <2>4, <1>3
    <2>6. \A k \in DOMAIN WithSpace : ChannelBelow(WithSpace[k], nextId + 1)
        <3> TAKE k \in DOMAIN WithSpace
        <3>1. CASE k \in 1 .. Len(channelQueue)
            BY <3>1, <2>4, <1>3, <1>2 DEF QueueOK, QueueBelow, ChannelBelow
        <3>2. CASE k = Len(channelQueue) + 1
            BY <3>2, <2>2, <2>4
        <3> QED BY <3>1, <3>2, <2>5, <1>3
    <2>7. nextId + Len(WithSpace) - Len(channelQueue) = nextId + 1
        BY <2>4, <1>2, <1>3
    <2> QED BY <2>4, <2>5, <2>6, <2>7, <1>3 DEF QueueBelow
<1>5. CASE ~ (channelQueue = <<>> \/ Last(channelQueue).closed)
    <2>1. WithSpace = channelQueue
        BY <1>5 DEF WithSpace
    <2>2. Len(channelQueue) # 0
        BY <1>5, <1>1
    <2> QED BY <2>1, <2>2, <1>2, <1>3 DEF QueueOK
<1> QED BY <1>4, <1>5

\* nextTxData takes nothing but a frame.
LEMMA TakeFrameOK ==
    ASSUME NEW b \in Batchers, NEW q, NEW n \in Nat, QueueBelow(q, n),
           NEW k \in DOMAIN q, TakeFrame(b, q, k)
    PROVE  QueueBelow(channelQueue', n)
<1> DEFINE ch == [q[k] EXCEPT !.frames = Tail(q[k].frames)]
<1>1. ChannelBelow(ch, n)
    BY DEF QueueBelow, ChannelBelow, Shaped
<1>2. channelQueue' = [q EXCEPT ![k] = ch]
    BY DEF TakeFrame
<1> QED BY <1>1, <1>2, ReplaceOK

\* publishTxToL1 keeps the queue in order, adds no block, and waits for a send
\* or is at the head of the loop again.
LEMMA PublishOK ==
    ASSUME BatcherTypeOK, QueueOK, NEW b \in Batchers, NEW bs \in Seq(Block),
           Publish(b, bs)
    PROVE  /\ QueueOK'
           /\ blocks' \in Seq(Block)
           /\ Len(blocks') \in Nat /\ Len(blocks') <= Len(bs)
           /\ \E place \in {"send", "range", "idle"} :
                 batcherAt' = [batcherAt EXCEPT ![b] = place]
<1>1. CASE /\ \E k \in Waiting : TakeFrame(b, channelQueue, k)
           /\ blocks' = bs
           /\ nextId' = nextId
           /\ Await(b, "send")
    <2>1. PICK k \in DOMAIN channelQueue : TakeFrame(b, channelQueue, k)
        BY <1>1 DEF Waiting
    <2>2. QueueOK'
        BY <1>1, <2>1, TakeFrameOK DEF QueueOK
    <2> QED BY <1>1, <2>2 DEF Await
<1>2. CASE /\ \E q \in {WithSpace} : \E r \in {ProcessBlocks(Last(q), bs)} :
                 \E full \in {ReplaceAt(q, Len(q), OutputFrames(r.channel))} :
                    /\ blocks' = SubSeq(bs, r.added + 1, Len(bs))
                    /\ nextId' = nextId + Len(q) - Len(channelQueue)
                    /\ IF HasTxData(Last(full))
                       THEN TakeFrame(b, full, Len(full)) /\ Await(b, "send")
                       ELSE /\ channelQueue' = full
                            /\ sending' = sending
                            /\ LoopHead(b)
    <2> DEFINE q == WithSpace
               r == ProcessBlocks(Last(q), bs)
               full == [q EXCEPT ![Len(q)] = OutputFrames(r.channel)]
    <2>1. /\ blocks' = SubSeq(bs, r.added + 1, Len(bs))
          /\ nextId' = nextId + Len(q) - Len(channelQueue)
          /\ \/ TakeFrame(b, full, Len(full)) /\ Await(b, "send")
             \/ channelQueue' = full /\ LoopHead(b)
        BY <1>2 DEF ReplaceAt
    <2>2. /\ nextId' \in Nat \ {0}
          /\ QueueBelow(q, nextId')
          /\ Len(q) \in DOMAIN q
        BY <2>1, WithSpaceOK, SMTT(30) DEF QueueOK
    <2> HIDE DEF q
    <2>3. ChannelBelow(Last(q), nextId')
        BY <2>2 DEF QueueBelow, Last
    <2>4. r.added \in 0 .. Len(bs) /\ ChannelBelow(r.channel, nextId')
        BY <2>2, <2>3, ProcessBlocksOK
    <2> HIDE DEF r
    <2>5. ChannelBelow(OutputFrames(r.channel), nextId')
        BY <2>2, <2>4, OutputFramesOK
    <2>6. /\ QueueBelow(full, nextId')
          /\ Len(full) = Len(q)
          /\ DOMAIN full = DOMAIN q
        BY <2>2, <2>5, ReplaceOK
    <2> HIDE DEF full
    <2>7. QueueBelow(channelQueue', nextId')
        BY <2>1, <2>2, <2>6, TakeFrameOK
    <2>8. /\ blocks' \in Seq(Block)
          /\ Len(blocks') \in Nat /\ Len(blocks') <= Len(bs)
        <3>1. Len(bs) \in Nat
            OBVIOUS
        <3>2. /\ SubSeq(bs, r.added + 1, Len(bs)) \in Seq(Block)
              /\ Len(SubSeq(bs, r.added + 1, Len(bs))) = Len(bs) - r.added
            BY <2>4, RestOfBlocks
        <3> DEFINE rest == SubSeq(bs, r.added + 1, Len(bs))
        <3>3. blocks' = rest
            BY <2>1
        <3>4. rest \in Seq(Block) /\ Len(rest) = Len(bs) - r.added
            BY <3>2
        <3> HIDE DEF rest
        <3>5. Len(rest) \in Nat /\ Len(rest) <= Len(bs)
            BY <2>4, <3>1, <3>4
        <3> QED BY <3>3, <3>4, <3>5
    <2>9. \E place \in {"send", "range", "idle"} :
              batcherAt' = [batcherAt EXCEPT ![b] = place]
        BY <2>1 DEF Await, LoopHead
    <2> QED BY <2>2, <2>7, <2>8, <2>9 DEF QueueOK
<1> QED BY <1>1, <1>2 DEF Publish

-----------------------------------------------------------------------------
(* The invariant. *)

\* A new service, with nothing running, satisfies the invariant.
LEMMA BatcherInitIInv == BatcherInit => BatcherIInv
<1> SUFFICES ASSUME BatcherInit PROVE BatcherIInv
    OBVIOUS
<1>1. BatcherTypeOK
    <2>1. blocks \in Seq(Block) /\ Len(blocks) = 0 /\ DOMAIN channelQueue = {}
        BY DEF BatcherInit
    <2>2. tip \in Block /\ lastStored \in 0 .. tip
        BY DEF BatcherInit
    <2>3. /\ batching \in BOOLEAN
          /\ batcherAt \in [Batchers -> Places]
          /\ loadNext \in [Batchers -> 0 .. tip] /\ loadEnd \in [Batchers -> 0 .. tip]
        <3>1. 0 \in 0 .. tip
            BY <2>2
        <3> QED BY <3>1 DEF BatcherInit, Places
    <2> QED BY <2>1, <2>2, <2>3 DEF BatcherTypeOK, Places
<1>2. QueueOK
    <2>1. channelQueue \in Seq({})
        BY DEF BatcherInit
    <2> QED BY <2>1 DEF BatcherInit, QueueOK, QueueBelow
<1>3. NothingSkipped /\ Loading /\ overlapped \in BOOLEAN
    <2>1. 1 .. lastStored = {}
        BY DEF BatcherInit
    <2>2. \A b \in Batchers : batcherAt[b] # "load"
        BY DEF BatcherInit
    <2> QED BY <2>1, <2>2 DEF BatcherInit, NothingSkipped, Loading
<1>4. OneCall
    BY DEF BatcherInit, OneCall, Running
<1> QED BY <1>1, <1>2, <1>3, <1>4 DEF BatcherIInv

\* LoadUpTo, common to RangeReply and EndReply.
LEMMA LoadUpToOK ==
    ASSUME BatcherIInv, NEW b \in Batchers, NEW end \in 0 .. tip,
           batcherAt[b] \in {"range", "end"}, LoadUpTo(b, end),
           overlapped \/ Len(blocks) + end - lastStored <= MaxBlocksPerChannelManager
    PROVE  BatcherIInv'
<1>1. /\ tip' = tip /\ batching' = batching /\ lastStored' = lastStored
      /\ loaded' = loaded /\ overlapped' = overlapped
    BY DEF LoadUpTo
<1> USE <1>1
<1>2. CASE /\ \/ Await(b, "sleep") /\ UNCHANGED channelVars
              \/ Publish(b, blocks)
           /\ loadNext' = loadNext
           /\ loadEnd' = [loadEnd EXCEPT ![b] = 0]
    <2>1. /\ QueueOK'
          /\ blocks' \in Seq(Block)
          /\ Len(blocks') \in Nat /\ Len(blocks') <= Len(blocks)
          /\ \E place \in {"sleep", "send", "range", "idle"} :
                batcherAt' = [batcherAt EXCEPT ![b] = place]
        <3>1. CASE Await(b, "sleep") /\ UNCHANGED channelVars
            BY <3>1 DEF Await, channelVars, QueueOK, BatcherIInv, BatcherTypeOK
        <3>2. CASE Publish(b, blocks)
            BY <3>2, PublishOK DEF BatcherIInv, BatcherTypeOK
        <3> QED BY <1>2, <3>1, <3>2
    <2>2. PICK place \in {"sleep", "send", "range", "idle"} :
              batcherAt' = [batcherAt EXCEPT ![b] = place]
        BY <2>1
    <2>3. BatcherTypeOK'
        <3>1. /\ batcherAt' \in [Batchers -> Places]
              /\ loadNext' \in [Batchers -> 0 .. tip]
              /\ loadEnd' \in [Batchers -> 0 .. tip]
            BY <1>2, <2>2 DEF BatcherIInv, BatcherTypeOK, Places
        <3>2. overlapped \/ Len(blocks') <= MaxBlocksPerChannelManager
            BY <2>1 DEF BatcherIInv, BatcherTypeOK
        <3>3. \A k \in DOMAIN channelQueue' :
                 /\ channelQueue'[k].id \in 1 .. nextId' - 1
                 /\ channelQueue'[k].encoded <= MaxEncodingBytesPerChannel
            BY <2>1 DEF QueueOK, QueueBelow, ChannelBelow
        <3> QED BY <2>1, <3>1, <3>2, <3>3 DEF BatcherIInv, BatcherTypeOK, Places
    <2>4. Loading' /\ NothingSkipped'
        BY <1>2, <2>2 DEF BatcherIInv, BatcherTypeOK, Loading, NothingSkipped
    <2>5. overlapped \/ OneCall'
        BY <1>2, <2>1, <2>2, ZenonT(40) DEF BatcherIInv, BatcherTypeOK, OneCall, Running
    <2> QED BY <2>1, <2>3, <2>4, <2>5 DEF BatcherIInv
<1>3. CASE /\ end > lastStored
           /\ Await(b, "load")
           /\ loadNext' = [loadNext EXCEPT ![b] = lastStored + 1]
           /\ loadEnd' = [loadEnd EXCEPT ![b] = end]
           /\ UNCHANGED <<channelVars, sending>>
    <2> USE <1>3 DEF channelVars, Await
    <2>1. QueueOK'
        BY DEF BatcherIInv, QueueOK
    <2>2. BatcherTypeOK'
        BY SMTT(30) DEF BatcherIInv, BatcherTypeOK
    <2>3. Loading' /\ NothingSkipped'
        BY SMTT(30) DEF BatcherIInv, BatcherTypeOK, Loading, NothingSkipped
    <2>4. overlapped' \/ OneCall'
        BY DEF BatcherIInv, BatcherTypeOK, OneCall, Running
    <2>5. overlapped' \in BOOLEAN
        BY DEF BatcherIInv
    <2> QED BY <2>1, <2>2, <2>3, <2>4, <2>5 DEF BatcherIInv
<1> QED BY <1>2, <1>3 DEF LoadUpTo

\* Every step of the service and of L3 keeps the invariant.
LEMMA BatcherIInvStep == BatcherIInv /\ [BatcherNext]_batcherVars => BatcherIInv'
<1> SUFFICES ASSUME BatcherIInv, [BatcherNext]_batcherVars PROVE BatcherIInv'
    OBVIOUS
<1> USE DEF BatcherIInv
<1>0. Len(blocks) \in Nat
    BY DEF BatcherTypeOK
<1>1. CASE NewL3Block
    <2> USE <1>1 DEF NewL3Block, ranges, channelVars, batcherHist
    <2>1. BatcherTypeOK'
        BY DEF BatcherTypeOK
    <2> QED BY <2>1 DEF QueueOK, NothingSkipped, Loading, OneCall, Running
<1>2. CASE BatchStop
    <2> USE <1>2 DEF BatchStop, ranges, channelVars, batcherHist
    <2>1. BatcherTypeOK'
        BY DEF BatcherTypeOK
    <2> QED BY <2>1 DEF QueueOK, NothingSkipped, Loading, OneCall, Running
<1>3. ASSUME NEW b \in Batchers, BatchStart(b) PROVE BatcherIInv'
    <2> USE <1>3 DEF BatchStart, ranges, channelVars, Await
    <2>1. BatcherTypeOK'
        BY DEF BatcherTypeOK
    <2>2. Loading'
        BY DEF Loading, BatcherTypeOK
    <2>3. overlapped' \/ OneCall'
        BY DEF OneCall, Running, BatcherTypeOK
    <2> QED BY <2>1, <2>2, <2>3 DEF QueueOK, NothingSkipped
<1>4. ASSUME NEW b \in Batchers, InitBlock(b, 1) PROVE BatcherIInv'
    <2> USE <1>4 DEF InitBlock, ranges, channelVars, Await
    <2>1. BatcherTypeOK'
        BY DEF BatcherTypeOK
    <2>2. Loading'
        BY DEF Loading, BatcherTypeOK
    <2>3. overlapped' \/ OneCall'
        BY DEF OneCall, Running, BatcherTypeOK
    <2> QED BY <2>1, <2>2, <2>3 DEF QueueOK, NothingSkipped
<1>5. ASSUME NEW b \in Batchers, RangeReply(b) PROVE BatcherIInv'
    <2>1. CASE tip - lastStored < Room /\ LoadUpTo(b, tip)
        BY <1>0, <1>5, <2>1, LoadUpToOK, SMTT(30) DEF RangeReply, Room, BatcherTypeOK
    <2>2. CASE /\ tip - lastStored >= Room
               /\ lastStored + Room >= 0
               /\ loadEnd' = [loadEnd EXCEPT ![b] = lastStored + Room]
               /\ Await(b, "end")
               /\ UNCHANGED <<tip, batching, lastStored, loadNext, channelVars, sending,
                              outbox, batcherHist>>
        <3> USE <1>0, <1>5, <2>2 DEF RangeReply, channelVars, batcherHist, Await
        <3>1. lastStored + Room \in 0 .. tip
            BY SMTT(30) DEF BatcherTypeOK, Room
        <3>2. BatcherTypeOK'
            BY <3>1 DEF BatcherTypeOK
        <3>3. Loading'
            BY DEF Loading, BatcherTypeOK
        <3>4. overlapped' \/ OneCall'
            BY SMTT(30) DEF OneCall, Running, BatcherTypeOK, Room
        <3> QED BY <3>2, <3>3, <3>4 DEF QueueOK, NothingSkipped
    <2> QED BY <1>5, <2>1, <2>2 DEF RangeReply
<1>6. ASSUME NEW b \in Batchers, EndReply(b) PROVE BatcherIInv'
    BY <1>6, LoadUpToOK DEF EndReply, BatcherTypeOK, OneCall
<1>7. ASSUME NEW b \in Batchers, LoadBlock(b) PROVE BatcherIInv'
    <2> DEFINE bs == Append(blocks, loadNext[b])
    <2>1. /\ loadNext[b] \in 1 .. loadEnd[b] /\ loadEnd[b] \in 0 .. tip
          /\ tip \in Nat /\ loadNext[b] \in Block
        BY <1>7, SMTT(30) DEF LoadBlock, Loading, BatcherTypeOK
    <2>2. bs \in Seq(Block) /\ Len(bs) = Len(blocks) + 1
        BY <2>1 DEF BatcherTypeOK
    <2>3. /\ tip' = tip /\ batching' = batching /\ overlapped' = overlapped
          /\ lastStored' = loadNext[b]
          /\ loaded' = loaded \cup {loadNext[b]}
        BY <1>7 DEF LoadBlock, Stored
    <2> HIDE DEF bs
    <2>4. NothingSkipped'
        BY <1>7, <2>1, <2>3 DEF LoadBlock, Loading, NothingSkipped
    <2>5. CASE /\ loadNext[b] < loadEnd[b]
               /\ blocks' = bs
               /\ loadNext' = [loadNext EXCEPT ![b] = @ + 1]
               /\ UNCHANGED <<loadEnd, channelQueue, nextId, sending, batcherAt>>
        <3>1. QueueOK'
            BY <2>5 DEF QueueOK
        <3>2. overlapped \/ Len(bs) <= MaxBlocksPerChannelManager
            BY <1>0, <1>7, <2>1, <2>2, <2>5, SMTT(30) DEF OneCall, LoadBlock, BatcherTypeOK
        <3>3. loadNext' \in [Batchers -> 0 .. tip]
            BY <2>1, <2>5, SMTT(30) DEF BatcherTypeOK
        <3>4. BatcherTypeOK'
            BY <2>1, <2>2, <2>3, <2>5, <3>2, <3>3 DEF BatcherTypeOK
        <3>5. ASSUME NEW c \in Batchers, batcherAt'[c] = "load"
              PROVE  /\ loadNext'[c] \in 1 .. loadEnd'[c]
                     /\ 1 .. loadNext'[c] - 1 \subseteq loaded'
            <4>1. CASE c = b
                <5>1. loadNext'[c] = loadNext[b] + 1 /\ loadEnd'[c] = loadEnd[b]
                    BY <2>5, <4>1 DEF BatcherTypeOK
                <5>2. 1 .. loadNext[b] - 1 \subseteq loaded
                    BY <1>7 DEF LoadBlock, Loading
                <5> QED BY <2>1, <2>3, <2>5, <5>1, <5>2, SMTT(30)
            <4>2. CASE c # b
                BY <2>3, <2>5, <3>5, <4>2 DEF Loading, BatcherTypeOK
            <4> QED BY <4>1, <4>2
        <3>6. overlapped' \/ OneCall'
            <4> SUFFICES ASSUME ~ overlapped PROVE OneCall'
                BY <2>3
            <4>1. ASSUME NEW c \in Batchers, c # b
                  PROVE  batcherAt[c] = "idle"
                BY <1>7, <4>1 DEF OneCall, LoadBlock, Running
            <4>2. loadNext'[b] = loadNext[b] + 1 /\ loadEnd'[b] = loadEnd[b]
                BY <2>5 DEF BatcherTypeOK
            <4>3. Len(blocks') + loadEnd'[b] - lastStored' <= MaxBlocksPerChannelManager
                <5>1. /\ loadNext[b] = lastStored + 1
                      /\ Len(blocks) + loadEnd[b] - lastStored <= MaxBlocksPerChannelManager
                    BY <1>7 DEF OneCall, LoadBlock
                <5>2. Len(blocks') = Len(blocks) + 1
                    BY <2>2, <2>5
                <5>3. lastStored \in Nat /\ lastStored' = lastStored + 1
                    BY <2>1, <2>3, <5>1 DEF BatcherTypeOK
                <5> QED BY <1>0, <2>1, <4>2, <5>1, <5>2, <5>3, SMTT(30)
            <4> QED BY <2>3, <2>5, <4>1, <4>2, <4>3 DEF OneCall, Running
        <3> QED BY <2>3, <2>4, <3>1, <3>4, <3>5, <3>6 DEF Loading
    <2>6. CASE /\ Publish(b, bs)
               /\ loadNext' = [loadNext EXCEPT ![b] = 0]
               /\ loadEnd' = [loadEnd EXCEPT ![b] = 0]
        <3>1. /\ QueueOK'
              /\ blocks' \in Seq(Block)
              /\ Len(blocks') \in Nat /\ Len(blocks') <= Len(bs)
              /\ \E place \in {"send", "range", "idle"} :
                    batcherAt' = [batcherAt EXCEPT ![b] = place]
            BY <2>2, <2>6, PublishOK
        <3>2. PICK place \in {"send", "range", "idle"} :
                  batcherAt' = [batcherAt EXCEPT ![b] = place]
            BY <3>1
        <3>3. overlapped \/ Len(bs) <= MaxBlocksPerChannelManager
            BY <1>0, <1>7, <2>1, <2>2, SMTT(30) DEF OneCall, LoadBlock, BatcherTypeOK
        <3>4. Len(bs) \in Nat
            BY <1>0, <2>2
        <3>5. overlapped' \/ Len(blocks') <= MaxBlocksPerChannelManager
            BY <2>3, <3>1, <3>3, <3>4
        <3>6. BatcherTypeOK'
            BY <2>1, <2>3, <2>6, <3>1, <3>2, <3>5, SMTT(30)
                DEF BatcherTypeOK, QueueOK, QueueBelow, ChannelBelow
        <3>7. Loading'
            BY <2>3, <2>6, <3>2 DEF Loading, BatcherTypeOK
        <3>8. overlapped' \/ OneCall'
            <4> SUFFICES ASSUME ~ overlapped PROVE OneCall'
                BY <2>3
            <4>1. ASSUME NEW c \in Batchers, c # b
                  PROVE  batcherAt[c] = "idle" /\ batcherAt'[c] = "idle"
                BY <1>7, <3>2, <4>1 DEF OneCall, LoadBlock, Running, BatcherTypeOK
            <4>2. batcherAt'[b] = place
                BY <3>2 DEF BatcherTypeOK
            <4> QED BY <4>1, <4>2 DEF OneCall, Running
        <3> QED BY <2>3, <2>4, <3>1, <3>6, <3>7, <3>8
    <2> QED BY <1>7, <2>5, <2>6 DEF LoadBlock, bs
<1>8. ASSUME NEW b \in Batchers, FrameSent(b) PROVE BatcherIInv'
    <2> USE <1>8 DEF FrameSent, ranges, channelVars, batcherHist, Await, LoopHead
    <2>1. BatcherTypeOK'
        BY DEF BatcherTypeOK
    <2>2. Loading'
        BY DEF Loading, BatcherTypeOK
    <2>3. overlapped' \/ OneCall'
        BY DEF OneCall, Running, BatcherTypeOK
    <2> QED BY <2>1, <2>2, <2>3 DEF QueueOK, NothingSkipped
<1>9. ASSUME NEW b \in Batchers, BatcherWake(b) PROVE BatcherIInv'
    <2> USE <1>9 DEF BatcherWake, ranges, channelVars, batcherHist, Await, LoopHead
    <2>1. BatcherTypeOK'
        BY DEF BatcherTypeOK
    <2>2. Loading'
        BY DEF Loading, BatcherTypeOK
    <2>3. overlapped' \/ OneCall'
        BY DEF OneCall, Running, BatcherTypeOK
    <2> QED BY <2>1, <2>2, <2>3 DEF QueueOK, NothingSkipped
<1>10. CASE UNCHANGED batcherVars
    <2> USE <1>10 DEF batcherVars, ranges, channelVars, batcherHist
    <2>1. BatcherTypeOK'
        BY DEF BatcherTypeOK
    <2> QED BY <2>1 DEF QueueOK, NothingSkipped, Loading, OneCall, Running
<1> QED BY <1>1, <1>2, <1>3, <1>4, <1>5, <1>6, <1>7, <1>8, <1>9, <1>10
        DEF BatcherNext, BatcherStep

-----------------------------------------------------------------------------
\* The inductive invariant behind the theorems below.
THEOREM BatcherInvariant == BatcherSpec => []BatcherIInv
BY BatcherInitIInv, BatcherIInvStep, PTL DEF BatcherSpec

\* Every range loaded fits what is left of the limit of the manager, whatever
\* waits in it, while one call runs; and no channel holds more than it may.
THEOREM BatcherTypeCorrect == BatcherSpec => []BatcherTypeOK
<1>1. BatcherIInv => BatcherTypeOK
    BY DEF BatcherIInv
<1> QED BY <1>1, BatcherInvariant, PTL

\* However many calls of batchStart run at a time, none of them leads another
\* past a block that nobody has fetched.
THEOREM NoBlockSkipped == BatcherSpec => []NothingSkipped
<1>1. BatcherIInv => NothingSkipped
    BY DEF BatcherIInv
<1> QED BY <1>1, BatcherInvariant, PTL

HIDE DEF CodecAssumption, BatcherAssumption, Block

-----------------------------------------------------------------------------
(* The bytes on their way. *)

\* processBlocks moves bytes from the blocks to the buffer, and no more.
LEMMA ProcessBlocksStream ==
    ASSUME NEW ch, TypedChannel(ch), NEW bs \in Seq(Block),
           ProcessBlocks(ch, bs).added \in 0 .. Len(bs)
    PROVE  LET r == ProcessBlocks(ch, bs)
               out == r.channel
           IN  /\ TypedChannel(out)
               /\ out.id = ch.id /\ out.number = ch.number /\ out.frames = ch.frames
               /\ out.buffer \o Packed(SubSeq(bs, r.added + 1, Len(bs)))
                      = ch.buffer \o Packed(bs)
               /\ \E taken \in Seq(Block) : out.buffer = ch.buffer \o Packed(taken)
<1> DEFINE added == ProcessBlocks(ch, bs).added
           out   == ProcessBlocks(ch, bs).channel
           first == SubSeq(bs, 1, added)
           rest  == SubSeq(bs, added + 1, Len(bs))
<1>1. out = [ch EXCEPT !.encoded = EncodedWith(ch, bs, added),
                       !.buffer  = ch.buffer \o Packed(first),
                       !.closed  = ch.closed \/ added < Len(bs)]
    BY DEF ProcessBlocks
<1> HIDE DEF added, out
<1>2. added \in 0 .. Len(bs) /\ Len(bs) \in Nat
    BY DEF added
<1>3. first \in Seq(Block) /\ rest \in Seq(Block) /\ first \o rest = bs
    <2>1. \A i \in 1 .. Len(bs) : bs[i] \in Block
        OBVIOUS
    <2>2. \A i \in 1 .. added : bs[i] \in Block
        BY <1>2, <2>1
    <2>3. \A i \in added + 1 .. Len(bs) : bs[i] \in Block
        BY <1>2, <2>1
    <2>4. first \in Seq(Block)
        BY <1>2, <2>2, SubSeqProperties
    <2>5. rest \in Seq(Block)
        BY <1>2, <2>3, SubSeqProperties
    <2>6. first \o rest = SubSeq(bs, 1, Len(bs))
        <3>1. 1 \in 1 .. Len(bs) + 1 /\ added \in 1 - 1 .. Len(bs) /\ Len(bs) \in added .. Len(bs)
            BY <1>2
        <3> QED BY <3>1, ConcatAdjacentSubSeq
    <2> QED BY <2>4, <2>5, <2>6, SubSeqFull
<1> HIDE DEF first, rest
<1>4. Packed(first) \in Seq(Block) /\ Packed(rest) \in Seq(Block)
      /\ Packed(bs) = Packed(first) \o Packed(rest)
    BY <1>3, PackedConcat
<1>5. /\ out.id = ch.id /\ out.number = ch.number /\ out.frames = ch.frames
      /\ out.buffer = ch.buffer \o Packed(first)
      /\ Shaped(out) /\ out.closed \in BOOLEAN
    BY <1>1 DEF TypedChannel, Shaped
<1>6. ch.buffer \in Seq(Block)
    BY DEF TypedChannel
<1>7. out.buffer \in Seq(Block)
    BY <1>4, <1>5, <1>6
<1>8. TypedChannel(out)
    BY <1>5, <1>7 DEF TypedChannel
<1>9. out.buffer \o Packed(rest) = ch.buffer \o Packed(bs)
    <2>1. (ch.buffer \o Packed(first)) \o Packed(rest) = ch.buffer \o (Packed(first) \o Packed(rest))
        <3> DEFINE u == ch.buffer
                   v == Packed(first)
                   w == Packed(rest)
        <3>1. u \in Seq(Block) /\ v \in Seq(Block) /\ w \in Seq(Block)
            BY <1>4, <1>6
        <3> HIDE DEF u, v, w, Block
        <3>2. (u \o v) \o w = u \o (v \o w)
            BY ONLY <3>1, ConcatThree, SMTT(60)
        <3> QED BY <3>2 DEF u, v, w
    <2> QED BY <1>4, <1>5, <2>1
<1>10. \E taken \in Seq(Block) : out.buffer = ch.buffer \o Packed(taken)
    BY <1>3, <1>5
<1> QED BY <1>5, <1>8, <1>9, <1>10 DEF added, out, rest

FramesOf(q) == [k \in DOMAIN q |-> q[k].frames]
BuffersOf(q) == [k \in DOMAIN q |-> q[k].buffer]

\* The channels in front of the last are closed, and a closed one is empty.
QueueStream(q) ==
    /\ \E S : q \in Seq(S)
    /\ \A k \in DOMAIN q : /\ TypedChannel(q[k])
                           /\ q[k].closed => q[k].buffer = <<>>
                           /\ k < Len(q) => q[k].closed

\* What the frames and the buffers of a queue are.
LEMMA PartsOf ==
    ASSUME NEW q, QueueStream(q)
    PROVE  /\ Len(q) \in Nat /\ DOMAIN q = 1 .. Len(q)
           /\ FramesOf(q) \in Seq(Seq(Frames)) /\ Len(FramesOf(q)) = Len(q)
           /\ BuffersOf(q) \in Seq(Seq(Block)) /\ Len(BuffersOf(q)) = Len(q)
           /\ \A k \in 1 .. Len(q) : /\ FramesOf(q)[k] = q[k].frames
                                     /\ BuffersOf(q)[k] = q[k].buffer
<1>1. Len(q) \in Nat /\ DOMAIN q = 1 .. Len(q)
    BY DEF QueueStream
<1>2. \A k \in 1 .. Len(q) : q[k].frames \in Seq(Frames) /\ q[k].buffer \in Seq(Block)
    BY <1>1 DEF QueueStream, TypedChannel
<1>3. FramesOf(q) \in Seq(Seq(Frames)) /\ Len(FramesOf(q)) = Len(q)
    BY <1>1, <1>2 DEF FramesOf
<1>4. BuffersOf(q) \in Seq(Seq(Block)) /\ Len(BuffersOf(q)) = Len(q)
    BY <1>1, <1>2 DEF BuffersOf
<1> QED BY <1>1, <1>3, <1>4 DEF FramesOf, BuffersOf

\* The bytes that wait in the channels wait in the last one.
LEMMA BuffersAtEnd ==
    ASSUME NEW q, QueueStream(q), q # <<>>
    PROVE  FlattenSeq(BuffersOf(q)) = q[Len(q)].buffer
<1>1. /\ Len(q) \in Nat /\ DOMAIN q = 1 .. Len(q)
      /\ BuffersOf(q) \in Seq(Seq(Block)) /\ Len(BuffersOf(q)) = Len(q)
      /\ \A k \in 1 .. Len(q) : BuffersOf(q)[k] = q[k].buffer
    BY PartsOf
<1>2. Len(q) # 0
    BY DEF QueueStream
<1>3. ASSUME NEW j \in 1 .. Len(q) - 1 PROVE BuffersOf(q)[j] = <<>>
    <2>1. j \in 1 .. Len(q) /\ j < Len(q)
        BY <1>1
    <2>2. q[j].buffer = <<>>
        BY <1>1, <2>1 DEF QueueStream
    <2> QED BY <1>1, <2>1, <2>2
<1>4. FlattenSeq(BuffersOf(q)) = BuffersOf(q)[Len(BuffersOf(q))]
    BY <1>1, <1>2, <1>3, FlattenLast
<1> QED BY <1>1, <1>2, <1>4

\* A queue of which one channel is replaced by another.
LEMMA ReplaceStream ==
    ASSUME NEW q, QueueStream(q), NEW k \in DOMAIN q, NEW ch, TypedChannel(ch),
           ch.closed => ch.buffer = <<>>, k < Len(q) => ch.closed
    PROVE  LET r == [q EXCEPT ![k] = ch]
           IN  /\ QueueStream(r) /\ Len(r) = Len(q) /\ DOMAIN r = DOMAIN q
               /\ \A j \in DOMAIN q : r[j] = IF j = k THEN ch ELSE q[j]
               /\ FramesOf(r) = ReplaceAt(FramesOf(q), k, ch.frames)
               /\ BuffersOf(r) = ReplaceAt(BuffersOf(q), k, ch.buffer)
<1> DEFINE r == [q EXCEPT ![k] = ch]
<1>1. PICK S : q \in Seq(S)
    BY DEF QueueStream
<1>2. q \in Seq(S \cup {ch}) /\ ch \in S \cup {ch}
    BY <1>1
<1>3. r \in Seq(S \cup {ch}) /\ Len(r) = Len(q) /\ DOMAIN r = DOMAIN q
      /\ \A j \in DOMAIN q : r[j] = IF j = k THEN ch ELSE q[j]
    BY <1>2
<1> HIDE DEF r
<1>4. QueueStream(r)
    <2>1. ASSUME NEW j \in DOMAIN r
          PROVE  /\ TypedChannel(r[j])
                 /\ r[j].closed => r[j].buffer = <<>>
                 /\ j < Len(r) => r[j].closed
        BY <1>3 DEF QueueStream
    <2> QED BY <1>3, <2>1 DEF QueueStream
<1>5. FramesOf(r) = ReplaceAt(FramesOf(q), k, ch.frames)
    BY <1>3 DEF FramesOf, ReplaceAt
<1>6. BuffersOf(r) = ReplaceAt(BuffersOf(q), k, ch.buffer)
    BY <1>3 DEF BuffersOf, ReplaceAt
<1> QED BY <1>3, <1>4, <1>5, <1>6 DEF r

\* Nobody but b sends.
OnlySender(b) == \A c \in Batchers : c # b => sending[c] = NoFrame

\* The frame that one call sends.
LEMMA SentAlone ==
    ASSUME NEW b \in Batchers, OnlySender(b)
    PROVE  SetToSeq(BeingSent) = IF sending[b] = NoFrame THEN <<>> ELSE <<sending[b]>>
<1>1. BeingSent = IF sending[b] = NoFrame THEN {} ELSE {sending[b]}
    BY DEF OnlySender, BeingSent
<1> QED BY <1>1, SetToSeqSmall

\* A frame is not NoFrame.
LEMMA NoFrameIsNone == NoFrame \notin Frames
BY DEF NoFrame, Frame, Frames

\* nextTxData takes the first of all frames that wait.
LEMMA TakeFrameStream ==
    ASSUME NEW b \in Batchers, NEW q, QueueStream(q), NEW k \in DOMAIN q,
           q[k].frames # <<>>, \A j \in DOMAIN q : j < k => q[j].frames = <<>>,
           sending \in [Batchers -> Frames \cup {NoFrame}],
           OnlySender(b), TakeFrame(b, q, k)
    PROVE  /\ QueueStream(channelQueue')
           /\ BuffersOf(channelQueue') = BuffersOf(q)
           /\ sending' \in [Batchers -> Frames \cup {NoFrame}]
           /\ OnlySender(b)' /\ sending'[b] \in Frames
           /\ FlattenSeq(FramesOf(q)) = <<sending'[b]>> \o FlattenSeq(FramesOf(channelQueue'))
<1> DEFINE fs == q[k].frames
           ch == [q[k] EXCEPT !.frames = Tail(fs)]
<1>1. /\ Len(q) \in Nat /\ DOMAIN q = 1 .. Len(q) /\ k \in 1 .. Len(q)
      /\ FramesOf(q) \in Seq(Seq(Frames)) /\ Len(FramesOf(q)) = Len(q)
      /\ BuffersOf(q) \in Seq(Seq(Block)) /\ Len(BuffersOf(q)) = Len(q)
      /\ \A j \in 1 .. Len(q) : /\ FramesOf(q)[j] = q[j].frames
                                /\ BuffersOf(q)[j] = q[j].buffer
    BY PartsOf
<1>2. fs \in Seq(Frames) /\ fs # <<>>
    BY DEF QueueStream, TypedChannel
<1>3. Head(fs) \in Frames /\ Tail(fs) \in Seq(Frames) /\ fs = <<Head(fs)>> \o Tail(fs)
    <2> HIDE DEF fs
    <2> QED BY <1>2
<1>4. /\ TypedChannel(ch) /\ ch.frames = Tail(fs) /\ ch.buffer = q[k].buffer
      /\ ch.closed = q[k].closed
    <2>1. TypedChannel(q[k])
        BY DEF QueueStream
    <2> HIDE DEF fs
    <2> QED BY <1>3, <2>1 DEF TypedChannel, Shaped
<1>5. channelQueue' = [q EXCEPT ![k] = ch]
    BY DEF TakeFrame
<1>6. sending' = [sending EXCEPT ![b] = Head(fs)]
    BY DEF TakeFrame
<1> HIDE DEF ch, fs
<1>7. /\ QueueStream(channelQueue')
      /\ FramesOf(channelQueue') = ReplaceAt(FramesOf(q), k, Tail(fs))
      /\ BuffersOf(channelQueue') = ReplaceAt(BuffersOf(q), k, BuffersOf(q)[k])
    <2>1. (ch.closed => ch.buffer = <<>>) /\ (k < Len(q) => ch.closed)
        BY <1>4 DEF QueueStream
    <2>2. LET r == [q EXCEPT ![k] = ch]
          IN  /\ QueueStream(r)
              /\ FramesOf(r) = ReplaceAt(FramesOf(q), k, ch.frames)
              /\ BuffersOf(r) = ReplaceAt(BuffersOf(q), k, ch.buffer)
        BY <1>4, <2>1, ReplaceStream
    <2> QED BY <1>1, <1>4, <1>5, <2>2
<1>8. BuffersOf(channelQueue') = BuffersOf(q)
    <2> DEFINE s == BuffersOf(q)
    <2>1. s \in Seq(Seq(Block)) /\ k \in 1 .. Len(s)
        BY <1>1
    <2> HIDE DEF s
    <2>2. ReplaceAt(s, k, s[k]) = s
        BY <2>1 DEF ReplaceAt
    <2> QED BY <1>7, <2>2 DEF s
<1>9. /\ sending' \in [Batchers -> Frames \cup {NoFrame}]
      /\ OnlySender(b)' /\ sending'[b] = Head(fs)
    BY <1>3, <1>6 DEF OnlySender
<1>10. FlattenSeq(FramesOf(q)) = <<Head(fs)>> \o FlattenSeq(FramesOf(channelQueue'))
    <2> DEFINE s == FramesOf(q)
               x == <<Head(fs)>>
               y == Tail(fs)
    <2>1. s \in Seq(Seq(Frames)) /\ k \in 1 .. Len(s)
        BY <1>1
    <2>2. ASSUME NEW j \in 1 .. k - 1 PROVE s[j] = <<>>
        <3>1. j \in 1 .. Len(q) /\ j < k
            BY <1>1, SMTT(30)
        <3>2. q[j].frames = <<>>
            BY <1>1, <3>1
        <3> QED BY <1>1, <3>1, <3>2
    <2>3. x \in Seq(Frames) /\ y \in Seq(Frames) /\ s[k] = x \o y
        BY <1>1, <1>3, SMTT(30) DEF fs
    <2> HIDE DEF s, x, y
    <2>4. FlattenSeq(s) = x \o FlattenSeq(ReplaceAt(s, k, y))
        BY <2>1, <2>2, <2>3, FlattenHead, ZenonT(40)
    <2> QED BY <1>7, <2>4 DEF s, x, y
<1> QED BY <1>3, <1>7, <1>8, <1>9, <1>10
\* A channel in front of which, and at the end of which, there is nothing to
\* send is the last one, with room, of a queue in order.
LEMMA WithSpaceStream ==
    ASSUME QueueStream(channelQueue), nextId \in Nat \ {0}
    PROVE  /\ QueueStream(WithSpace) /\ WithSpace # <<>>
           /\ Len(WithSpace) \in DOMAIN WithSpace
           /\ ~ Last(WithSpace).closed
           /\ FlattenSeq(BuffersOf(WithSpace)) = FlattenSeq(BuffersOf(channelQueue))
           /\ Waiting = {} => \A k \in DOMAIN WithSpace : WithSpace[k].frames = <<>>
<1> DEFINE q == channelQueue
           new == NewChannel(nextId)
<1>1. PICK S : q \in Seq(S)
    BY DEF QueueStream
<1>2. Len(q) \in Nat /\ DOMAIN q = 1 .. Len(q)
    BY <1>1
<1>3. Waiting = {} => \A k \in DOMAIN q : q[k].frames = <<>>
    BY DEF Waiting, HasTxData
<1>4. CASE q = <<>> \/ Last(q).closed
    <2>1. WithSpace = Append(q, new)
        BY <1>4 DEF WithSpace
    <2>2. /\ TypedChannel(new) /\ ~ new.closed /\ new.buffer = <<>> /\ new.frames = <<>>
        BY DEF NewChannel, TypedChannel, Shaped
    <2> HIDE DEF new
    <2>3. /\ WithSpace \in Seq(S \cup {new}) /\ Len(WithSpace) = Len(q) + 1
          /\ DOMAIN WithSpace = 1 .. Len(q) + 1
          /\ WithSpace[Len(q) + 1] = new
          /\ \A k \in 1 .. Len(q) : WithSpace[k] = q[k]
        <3>1. q \in Seq(S \cup {new}) /\ new \in S \cup {new}
            BY <1>1
        <3> HIDE DEF q
        <3> QED BY <2>1, <3>1, AppendAt
    <2>4. ASSUME NEW k \in 1 .. Len(q) PROVE q[k].closed
        <3>1. CASE k < Len(q)
            BY <1>2, <3>1 DEF QueueStream
        <3>2. CASE k = Len(q)
            <4>1. q # <<>>
                BY <1>1, <3>2
            <4> QED BY <1>4, <3>2, <4>1 DEF Last
        <3>3. k < Len(q) \/ k = Len(q)
            <4> DEFINE n == Len(q)
            <4>1. n \in Nat /\ k \in 1 .. n
                BY <1>2
            <4> HIDE DEF n
            <4>2. k < n \/ k = n
                BY <4>1
            <4> QED BY <4>2 DEF n
        <3> QED BY <3>1, <3>2, <3>3
    <2>5. QueueStream(WithSpace)
        <3>1. ASSUME NEW k \in DOMAIN WithSpace
              PROVE  /\ TypedChannel(WithSpace[k])
                     /\ WithSpace[k].closed => WithSpace[k].buffer = <<>>
                     /\ k < Len(WithSpace) => WithSpace[k].closed
            <4>1. CASE k = Len(q) + 1
                BY <1>2, <2>2, <2>3, <4>1
            <4>2. CASE k # Len(q) + 1
                <5>1. k \in 1 .. Len(q)
                    BY <1>2, <2>3, <4>2
                <5> QED BY <1>2, <2>3, <2>4, <5>1 DEF QueueStream
            <4> QED BY <4>1, <4>2
        <3> QED BY <2>3, <3>1 DEF QueueStream
    <2>6. /\ WithSpace # <<>> /\ Len(WithSpace) \in DOMAIN WithSpace
          /\ Last(WithSpace) = new
        BY <1>2, <2>3 DEF Last
    <2>7. FlattenSeq(BuffersOf(WithSpace)) = <<>>
        BY <2>2, <2>5, <2>6, BuffersAtEnd DEF Last
    <2>8. FlattenSeq(BuffersOf(q)) = <<>>
        <3>1. /\ BuffersOf(q) \in Seq(Seq(Block)) /\ Len(BuffersOf(q)) = Len(q)
              /\ \A k \in 1 .. Len(q) : BuffersOf(q)[k] = q[k].buffer
            BY PartsOf
        <3>2. \A k \in 1 .. Len(q) : q[k].buffer = <<>>
            BY <1>2, <2>4 DEF QueueStream
        <3> QED BY <3>1, <3>2, FlattenNothing
    <2>9. Waiting = {} => \A k \in DOMAIN WithSpace : WithSpace[k].frames = <<>>
        BY <1>2, <1>3, <2>2, <2>3
    <2> QED BY <2>2, <2>5, <2>6, <2>7, <2>8, <2>9
<1>5. CASE ~ (q = <<>> \/ Last(q).closed)
    <2>1. WithSpace = q
        BY <1>5 DEF WithSpace
    <2>2. Len(q) # 0
        BY <1>1, <1>5
    <2>3. Len(q) \in DOMAIN q
        BY <1>2, <2>2
    <2> QED BY <1>3, <1>5, <2>1, <2>3
<1> QED BY <1>4, <1>5

\* There is a last channel, and it takes blocks.
Open(q) == q # <<>> /\ ~ Last(q).closed

\* It is a channel, and what it holds is all the queue holds.
LEMMA LastNumber ==
    ASSUME NEW q, QueueStream(q)
    PROVE  /\ Open(q) => /\ Len(q) \in DOMAIN q /\ TypedChannel(Last(q))
                         /\ Last(q).number \in Nat /\ Last(q).id \in Nat \ {0}
                         /\ FlattenSeq(BuffersOf(q)) = Last(q).buffer
           /\ ~ Open(q) => FlattenSeq(BuffersOf(q)) = <<>>
<1>1. Len(q) \in Nat /\ DOMAIN q = 1 .. Len(q) /\ (q # <<>> => Len(q) # 0)
    <2>1. q # <<>> => Len(q) # 0
        BY DEF QueueStream
    <2> QED BY <2>1, PartsOf
<1>2. ASSUME q # <<>> PROVE Len(q) \in DOMAIN q /\ FlattenSeq(BuffersOf(q)) = Last(q).buffer
    BY <1>1, <1>2, BuffersAtEnd DEF Last
<1>3. ASSUME q = <<>> PROVE FlattenSeq(BuffersOf(q)) = <<>>
    <2>1. BuffersOf(q) = <<>>
        BY <1>3 DEF BuffersOf
    <2> QED BY <2>1, FlattenEmpty
<1>4. ASSUME Open(q)
      PROVE  /\ Len(q) \in DOMAIN q /\ TypedChannel(Last(q))
             /\ Last(q).number \in Nat /\ Last(q).id \in Nat \ {0}
             /\ FlattenSeq(BuffersOf(q)) = Last(q).buffer
    <2>1. Len(q) \in DOMAIN q /\ FlattenSeq(BuffersOf(q)) = Last(q).buffer
        BY <1>2, <1>4 DEF Open
    <2>2. TypedChannel(Last(q))
        BY <2>1 DEF QueueStream, Last
    <2> QED BY <2>1, <2>2 DEF TypedChannel
<1>5. ASSUME ~ Open(q) PROVE FlattenSeq(BuffersOf(q)) = <<>>
    <2>1. CASE q = <<>>
        BY <1>3, <2>1
    <2>2. CASE q # <<>> /\ Last(q).closed
        BY <1>2, <2>2 DEF QueueStream, Last
    <2> QED BY <1>5, <2>1, <2>2 DEF Open
<1> QED BY <1>4, <1>5

\* Frames made by a step: they are cut from the open channel, or from a new one,
\* numbered on from those before, and all are full but the one that closes it.
FramesMade(new) ==
    LET id    == IF Open(channelQueue) THEN Last(channelQueue).id ELSE nextId
        first == IF Open(channelQueue) THEN Last(channelQueue).number ELSE 0
    IN  /\ nextId <= nextId'
        /\ \A j \in DOMAIN new :
              /\ new[j].chan = id /\ id < nextId' /\ first <= new[j].num
              /\ \A i \in 1 .. j - 1 : /\ new[i].num < new[j].num
                                       /\ Len(new[i].data) = MaxData
        /\ Open(channelQueue') =>
              /\ Last(channelQueue').id = id
              /\ first <= Last(channelQueue').number
              /\ \A j \in DOMAIN new : /\ new[j].num < Last(channelQueue').number
                                       /\ Len(new[j].data) = MaxData

\* They leave no number out, and hold the bytes there were to send and those of
\* some blocks, up to what the channel keeps.
FramesFilled(new) ==
    LET first == IF Open(channelQueue) THEN Last(channelQueue).number ELSE 0
    IN  /\ \A j \in DOMAIN new : new[j].num = first + j - 1
        /\ Open(channelQueue') => Last(channelQueue').number = first + Len(new)
        /\ \E taken \in Seq(Block) :
              DataOf(new) \o FlattenSeq(BuffersOf(channelQueue'))
                 = FlattenSeq(BuffersOf(channelQueue)) \o Packed(taken)

\* Taking a frame opens and closes no channel.
LEMMA TakeFrameOpen ==
    ASSUME NEW b \in Batchers, NEW q, QueueStream(q), NEW k \in DOMAIN q, TakeFrame(b, q, k)
    PROVE  /\ Open(channelQueue') <=> Open(q)
           /\ q # <<>>
           /\ Last(channelQueue').id = Last(q).id
           /\ Last(channelQueue').number = Last(q).number
<1> DEFINE ch == [q[k] EXCEPT !.frames = Tail(q[k].frames)]
           n == Len(q)
<1>1. n \in Nat /\ DOMAIN q = 1 .. n /\ n \in DOMAIN q /\ q # <<>>
    <2>1. n \in Nat /\ DOMAIN q = 1 .. n
        BY PartsOf
    <2> QED BY <2>1
<1>2. TypedChannel(q[k])
    BY DEF QueueStream
<1>3. ch.id = q[k].id /\ ch.number = q[k].number /\ ch.closed = q[k].closed
    BY <1>2 DEF TypedChannel, Shaped
<1>4. channelQueue' = [q EXCEPT ![k] = ch]
    BY DEF TakeFrame
<1> HIDE DEF ch
<1>5. Len(channelQueue') = n /\ DOMAIN channelQueue' = DOMAIN q
      /\ \A j \in DOMAIN q : channelQueue'[j] = IF j = k THEN ch ELSE q[j]
    <2>1. PICK S : q \in Seq(S)
        BY DEF QueueStream
    <2>2. q \in Seq(S \cup {ch}) /\ ch \in S \cup {ch}
        BY <2>1
    <2> QED BY <1>4, <2>2
<1>6. channelQueue' # <<>> /\ Last(channelQueue') = channelQueue'[n] /\ Last(q) = q[n]
    BY <1>1, <1>5 DEF Last
<1>7. /\ Last(channelQueue').id = Last(q).id
      /\ Last(channelQueue').number = Last(q).number
      /\ Last(channelQueue').closed = Last(q).closed
    BY <1>1, <1>3, <1>5, <1>6
<1> QED BY <1>1, <1>6, <1>7 DEF Open

\* What is cut from a channel is made as it should be.
LEMMA CutInOrder ==
    ASSUME NEW ch, TypedChannel(ch), nextId \in Nat \ {0}, nextId' \in Nat, nextId <= nextId',
           ch.id < nextId',
           ch.id = IF Open(channelQueue) THEN Last(channelQueue).id ELSE nextId,
           ch.number = IF Open(channelQueue) THEN Last(channelQueue).number ELSE 0,
           Open(channelQueue') => /\ ~ ch.closed
                                  /\ Last(channelQueue').id = ch.id
                                  /\ Last(channelQueue').number = ch.number + FramesCount(ch)
    PROVE  FramesMade(NewFrames(ch))
<1> DEFINE new == NewFrames(ch)
           count == FramesCount(ch)
<1>1. /\ count \in Nat /\ DOMAIN new = 1 .. count
      /\ \A i \in 1 .. count :
            /\ new[i].chan = ch.id
            /\ new[i].num = ch.number + i - 1
            /\ i < count \/ ~ ch.closed => Len(new[i].data) = MaxData
    BY NewFramesAre
<1>2. ch.number \in Nat
    BY DEF TypedChannel
<1> HIDE DEF new, count
<1>3. ASSUME NEW j \in DOMAIN new
      PROVE  /\ new[j].chan = ch.id /\ ch.id < nextId' /\ ch.number <= new[j].num
             /\ \A i \in 1 .. j - 1 : /\ new[i].num < new[j].num
                                      /\ Len(new[i].data) = MaxData
    <2>1. new[j].chan = ch.id /\ ch.number <= new[j].num
        BY <1>1, <1>2
    <2>2. ASSUME NEW i \in 1 .. j - 1
          PROVE  new[i].num < new[j].num /\ Len(new[i].data) = MaxData
        <3>1. i \in 1 .. count /\ i < count /\ j \in 1 .. count /\ i < j
            BY <1>1
        <3>2. new[i].num = ch.number + i - 1 /\ new[j].num = ch.number + j - 1
              /\ Len(new[i].data) = MaxData
            BY <1>1, <3>1
        <3> QED BY <1>2, <3>1, <3>2
    <2> QED BY <2>1, <2>2
<1>4. ASSUME Open(channelQueue')
      PROVE  /\ Last(channelQueue').id = ch.id
             /\ ch.number <= Last(channelQueue').number
             /\ \A j \in DOMAIN new : /\ new[j].num < Last(channelQueue').number
                                      /\ Len(new[j].data) = MaxData
    <2> DEFINE now == Last(channelQueue').number
    <2>1. ~ ch.closed /\ Last(channelQueue').id = ch.id /\ now = ch.number + count
        BY <1>4 DEF count
    <2> HIDE DEF now
    <2>2. ch.number <= now
        BY <1>1, <1>2, <2>1
    <2>3. ASSUME NEW j \in DOMAIN new PROVE new[j].num < now /\ Len(new[j].data) = MaxData
        BY <1>1, <1>2, <2>1, SMTT(30)
    <2> QED BY <2>1, <2>2, <2>3 DEF now
<1> QED BY <1>3, <1>4 DEF FramesMade, new

\* publishTxToL1 appends frames to all there have been, and moves bytes from
\* the blocks to the open channel and from there to the new frames.
LEMMA PublishStream ==
    ASSUME QueueStream(channelQueue), QueueOK, NEW b \in Batchers, NEW bs \in Seq(Block),
           sending \in [Batchers -> Frames \cup {NoFrame}],
           OnlySender(b), sending[b] = NoFrame, outbox' = outbox, outbox \in Seq(Frames),
           batcherAt \in [Batchers -> Places],
           Publish(b, bs)
    PROVE  /\ QueueStream(channelQueue')
           /\ sending' \in [Batchers -> Frames \cup {NoFrame}]
           /\ OnlySender(b)'
           /\ sending'[b] # NoFrame => batcherAt'[b] = "send"
           /\ batcherAt'[b] = "send" => sending'[b] # NoFrame
           /\ AllFrames \in Seq(Frames)
           /\ \E new \in Seq(Frames) :
                 /\ AllFrames' = AllFrames \o new
                 /\ FramesMade(new) /\ FramesFilled(new)
                 /\ DataOf(new) \o (FlattenSeq(BuffersOf(channelQueue')) \o Packed(blocks'))
                        = FlattenSeq(BuffersOf(channelQueue)) \o Packed(bs)
<1> DEFINE Rest(q) == FlattenSeq(FramesOf(q))
           Held(q) == FlattenSeq(BuffersOf(q))
<1>0. nextId \in Nat \ {0}
    BY DEF QueueOK
<1>1. Waiters = Rest(channelQueue) /\ Rest(channelQueue) \in Seq(Frames)
      /\ Held(channelQueue) \in Seq(Block)
    <2>1. FramesOf(channelQueue) \in Seq(Seq(Frames)) /\ BuffersOf(channelQueue) \in Seq(Seq(Block))
        BY PartsOf
    <2> QED BY <2>1, FlattenType DEF Waiters, FramesOf
<1>2. Waiters' = Rest(channelQueue')
    BY DEF Waiters, FramesOf
<1>3. SetToSeq(BeingSent) = <<>>
    BY SentAlone
<1>4. AllFrames = outbox \o Rest(channelQueue) /\ AllFrames \in Seq(Frames)
    BY <1>1, <1>3 DEF AllFrames
<1>5. ASSUME OnlySender(b)'
      PROVE  SetToSeq(BeingSent)' = IF sending'[b] = NoFrame THEN <<>> ELSE <<sending'[b]>>
    <2>1. (BeingSent)' = IF sending'[b] = NoFrame THEN {} ELSE {sending'[b]}
        BY <1>5 DEF OnlySender, BeingSent
    <2> QED BY <2>1, SetToSeqSmall
\* A frame of a queue whose frames are new is taken.
<1>6. ASSUME NEW q, NEW new \in Seq(Frames), QueueStream(q), NEW k \in DOMAIN q,
             q[k].frames # <<>>, \A j \in DOMAIN q : j < k => q[j].frames = <<>>,
             TakeFrame(b, q, k), Await(b, "send"), Rest(q) = Rest(channelQueue) \o new
      PROVE  /\ QueueStream(channelQueue')
             /\ sending' \in [Batchers -> Frames \cup {NoFrame}]
             /\ OnlySender(b)' /\ sending'[b] # NoFrame /\ batcherAt'[b] = "send"
             /\ Held(channelQueue') = Held(q)
             /\ AllFrames' = AllFrames \o new
    <2>1. /\ QueueStream(channelQueue')
          /\ BuffersOf(channelQueue') = BuffersOf(q)
          /\ sending' \in [Batchers -> Frames \cup {NoFrame}]
          /\ OnlySender(b)' /\ sending'[b] \in Frames
          /\ Rest(q) = <<sending'[b]>> \o Rest(channelQueue')
        BY <1>6, TakeFrameStream
    <2>2. sending'[b] # NoFrame
        BY <2>1, NoFrameIsNone
    <2>3. SetToSeq(BeingSent)' = <<sending'[b]>>
        BY <1>5, <2>1, <2>2
    <2>4. AllFrames' = (outbox \o <<sending'[b]>>) \o Rest(channelQueue')
        BY <1>2, <2>3 DEF AllFrames
    <2>5. Rest(channelQueue') \in Seq(Frames) /\ <<sending'[b]>> \in Seq(Frames)
        <3>1. FramesOf(channelQueue') \in Seq(Seq(Frames))
            BY <2>1, PartsOf
        <3> QED BY <2>1, <3>1, FlattenType
    <2> HIDE DEF Rest, Held
    <2>6. AllFrames' = outbox \o (<<sending'[b]>> \o Rest(channelQueue'))
        <3> DEFINE x == <<sending'[b]>>
                   r == Rest(channelQueue')
        <3>1. x \in Seq(Frames) /\ r \in Seq(Frames) /\ outbox \in Seq(Frames)
            BY <2>5
        <3> HIDE DEF x, r
        <3>2. (outbox \o x) \o r = outbox \o (x \o r)
            BY ONLY <3>1, ConcatThree, SMTT(60)
        <3> QED BY <2>4, <3>2 DEF x, r
    <2>7. AllFrames' = outbox \o (Rest(channelQueue) \o new)
        BY <1>6, <2>1, <2>6
    <2>8. AllFrames' = AllFrames \o new
        <3>1. outbox \o (Rest(channelQueue) \o new) = (outbox \o Rest(channelQueue)) \o new
            <4> DEFINE v == Rest(channelQueue)
            <4>1. v \in Seq(Frames) /\ new \in Seq(Frames) /\ outbox \in Seq(Frames)
                BY <1>1, <1>6
            <4> HIDE DEF v
            <4>2. outbox \o (v \o new) = (outbox \o v) \o new
                BY ONLY <4>1, ConcatThree, SMTT(60)
            <4> QED BY <4>2 DEF v
        <3> QED BY <1>4, <2>7, <3>1
    <2>9. batcherAt'[b] = "send"
        BY <1>6 DEF Await
    <2> QED BY <2>1, <2>2, <2>8, <2>9 DEF Held
<1>7. CASE /\ \E k \in Waiting : /\ \A j \in Waiting : k <= j
                                 /\ TakeFrame(b, channelQueue, k)
           /\ blocks' = bs
           /\ nextId' = nextId
           /\ Await(b, "send")
    <2>1. PICK k \in Waiting : (\A j \in Waiting : k <= j) /\ TakeFrame(b, channelQueue, k)
        BY <1>7
    <2>2. k \in DOMAIN channelQueue /\ channelQueue[k].frames # <<>>
        BY DEF Waiting, HasTxData
    <2>3. ASSUME NEW j \in DOMAIN channelQueue, j < k PROVE channelQueue[j].frames = <<>>
        <3>1. Len(channelQueue) \in Nat /\ DOMAIN channelQueue = 1 .. Len(channelQueue)
            BY PartsOf
        <3>2. j \notin Waiting
            BY <2>1, <2>2, <2>3, <3>1
        <3> QED BY <3>2 DEF Waiting, HasTxData
    <2>4. Rest(channelQueue) = Rest(channelQueue) \o <<>> /\ <<>> \in Seq(Frames)
        BY <1>1, ConcatEmptySeq
    <2>5. /\ QueueStream(channelQueue')
          /\ sending' \in [Batchers -> Frames \cup {NoFrame}]
          /\ OnlySender(b)' /\ sending'[b] # NoFrame /\ batcherAt'[b] = "send"
          /\ Held(channelQueue') = Held(channelQueue)
          /\ AllFrames' = AllFrames \o <<>>
        <3> HIDE DEF Rest, Held
        <3> QED BY <1>6, <1>7, <2>1, <2>2, <2>3, <2>4
    <2>6. DataOf(<<>>) \o (Held(channelQueue') \o Packed(blocks')) = Held(channelQueue) \o Packed(bs)
        <3>1. Packed(bs) \in Seq(Block)
            BY PackedConcat
        <3>2. Held(channelQueue) \o Packed(bs) \in Seq(Block)
            BY <1>1, <3>1
        <3> HIDE DEF Held
        <3> QED BY <1>7, <2>5, <3>2, DataOfNone, ConcatEmptySeq
    <2>7. FramesMade(<<>>) /\ FramesFilled(<<>>)
        <3>1. /\ Open(channelQueue') <=> Open(channelQueue)
              /\ Last(channelQueue').id = Last(channelQueue).id
              /\ Last(channelQueue').number = Last(channelQueue).number
            BY <2>1, <2>2, TakeFrameOpen
        <3>2. Open(channelQueue) => Last(channelQueue).number \in Nat
            <4>1. Len(channelQueue) \in Nat /\ DOMAIN channelQueue = 1 .. Len(channelQueue)
                BY PartsOf
            <4>2. Len(channelQueue) \in DOMAIN channelQueue
                BY <2>2, <4>1
            <4> QED BY <4>2 DEF QueueStream, TypedChannel, Last
        <3>3. nextId' \in Nat /\ nextId <= nextId'
            BY <1>0, <1>7
        <3>4. DOMAIN <<>> = {}
            OBVIOUS
        <3>5. FramesMade(<<>>)
            BY <3>1, <3>2, <3>3, <3>4 DEF FramesMade
        <3>6. DataOf(<<>>) \o Held(channelQueue') = Held(channelQueue) \o Packed(<<>>)
            <4> HIDE DEF Held
            <4> QED BY <1>1, <2>5, DataOfNone, PackedNone, ConcatEmptySeq
        <3>7. <<>> \in Seq(Block) /\ Len(<<>>) = 0
            OBVIOUS
        <3>8. Open(channelQueue') => Last(channelQueue').number = Last(channelQueue).number + Len(<<>>)
            BY <3>1, <3>2, <3>7
        <3> QED BY <3>1, <3>4, <3>5, <3>6, <3>7, <3>8 DEF FramesFilled
    <2> QED BY <1>4, <2>4, <2>5, <2>6, <2>7
<1>8. CASE /\ Waiting = {}
           /\ \E q \in {WithSpace} : \E r \in {ProcessBlocks(Last(q), bs)} :
                 \E full \in {ReplaceAt(q, Len(q), OutputFrames(r.channel))} :
                    /\ blocks' = SubSeq(bs, r.added + 1, Len(bs))
                    /\ nextId' = nextId + Len(q) - Len(channelQueue)
                    /\ IF HasTxData(Last(full))
                       THEN TakeFrame(b, full, Len(full)) /\ Await(b, "send")
                       ELSE /\ channelQueue' = full
                            /\ sending' = sending
                            /\ LoopHead(b)
    <2> DEFINE q == WithSpace
               r == ProcessBlocks(Last(q), bs)
               mid == r.channel
               out == OutputFrames(mid)
               full == [q EXCEPT ![Len(q)] = out]
               new == NewFrames(mid)
    <2>1. /\ blocks' = SubSeq(bs, r.added + 1, Len(bs))
          /\ nextId' = nextId + Len(q) - Len(channelQueue)
          /\ IF HasTxData(Last(full))
             THEN TakeFrame(b, full, Len(full)) /\ Await(b, "send")
             ELSE /\ channelQueue' = full
                  /\ sending' = sending
                  /\ LoopHead(b)
        BY <1>8 DEF ReplaceAt
    <2>2. /\ QueueStream(q) /\ q # <<>> /\ Len(q) \in DOMAIN q
          /\ Held(q) = Held(channelQueue)
          /\ \A k \in DOMAIN q : q[k].frames = <<>>
        BY <1>0, <1>8, WithSpaceStream
    <2>3. TypedChannel(Last(q)) /\ Last(q).frames = <<>> /\ Held(q) = Last(q).buffer
        <3>1. Held(q) = q[Len(q)].buffer
            BY <2>2, BuffersAtEnd
        <3> QED BY <2>2, <3>1 DEF Last, QueueStream
    <2>21. /\ Last(q).id = IF Open(channelQueue) THEN Last(channelQueue).id ELSE nextId
          /\ Last(q).number = IF Open(channelQueue) THEN Last(channelQueue).number ELSE 0
        <3>1. CASE Open(channelQueue)
            BY <3>1 DEF Open, WithSpace
        <3>2. CASE ~ Open(channelQueue)
            <4> DEFINE fresh == NewChannel(nextId)
            <4>1. q = Append(channelQueue, fresh)
                BY <3>2 DEF Open, WithSpace
            <4>2. fresh.id = nextId /\ fresh.number = 0
                BY DEF NewChannel
            <4> HIDE DEF fresh
            <4>3. Last(q) = fresh
                <5>1. PICK S : channelQueue \in Seq(S)
                    BY DEF QueueStream
                <5>2. channelQueue \in Seq(S \cup {fresh}) /\ fresh \in S \cup {fresh}
                    BY <5>1
                <5> DEFINE T == S \cup {fresh}
                <5>3. channelQueue \in Seq(T) /\ fresh \in T
                    BY <5>2
                <5> HIDE DEF T, q
                <5>4. Len(q) = Len(channelQueue) + 1 /\ q[Len(channelQueue) + 1] = fresh
                    BY <4>1, <5>3, AppendAt
                <5> QED BY <5>4 DEF Last
            <4> QED BY <3>2, <4>2, <4>3
        <3> QED BY <3>1, <3>2
    <2>22. /\ Last(q).id < nextId' /\ nextId' \in Nat /\ nextId <= nextId'
        <3>1. QueueBelow(q, nextId + Len(q) - Len(channelQueue))
              /\ nextId + Len(q) - Len(channelQueue) \in {nextId, nextId + 1}
            BY <1>0, WithSpaceOK
        <3>2. nextId' = nextId + Len(q) - Len(channelQueue)
            BY <2>1
        <3> HIDE DEF q
        <3>3. QueueBelow(q, nextId') /\ nextId' \in {nextId, nextId + 1}
            BY <3>1, <3>2
        <3>4. nextId' \in Nat /\ nextId <= nextId'
            BY <1>0, <3>3
        <3>5. q[Len(q)].id \in 1 .. nextId' - 1
            BY <2>2, <3>3 DEF QueueBelow, ChannelBelow
        <3> QED BY <3>4, <3>5 DEF Last
    <2>4. r.added \in 0 .. Len(bs)
        <3>1. QueueBelow(q, nextId + Len(q) - Len(channelQueue))
              /\ nextId + Len(q) - Len(channelQueue) \in Nat
            BY <1>0, WithSpaceOK
        <3> DEFINE n == nextId + Len(q) - Len(channelQueue)
        <3>2. ChannelBelow(Last(q), n) /\ n \in Nat
            BY <2>2, <3>1 DEF QueueBelow, Last
        <3> HIDE DEF n, q
        <3> QED BY <3>2, ProcessBlocksOK
    <2>5. /\ TypedChannel(mid) /\ mid.frames = <<>>
          /\ mid.id = Last(q).id /\ mid.number = Last(q).number
          /\ mid.buffer \o Packed(SubSeq(bs, r.added + 1, Len(bs))) = Held(q) \o Packed(bs)
          /\ \E taken \in Seq(Block) : mid.buffer = Held(q) \o Packed(taken)
        <3> DEFINE ch == Last(q)
        <3>1. TypedChannel(ch) /\ ch.frames = <<>> /\ Held(q) = ch.buffer
              /\ ProcessBlocks(ch, bs).added \in 0 .. Len(bs)
            BY <2>3, <2>4
        <3> HIDE DEF q, Held, ch
        <3>2. LET made == ProcessBlocks(ch, bs).channel
              IN  /\ TypedChannel(made)
                  /\ made.id = ch.id /\ made.number = ch.number /\ made.frames = ch.frames
                  /\ made.buffer \o Packed(SubSeq(bs, ProcessBlocks(ch, bs).added + 1, Len(bs)))
                         = ch.buffer \o Packed(bs)
                  /\ \E taken \in Seq(Block) : made.buffer = ch.buffer \o Packed(taken)
            BY <3>1, ProcessBlocksStream
        <3>3. r = ProcessBlocks(ch, bs)
            BY DEF ch
        <3> HIDE DEF r
        <3>4. /\ TypedChannel(mid) /\ mid.frames = ch.frames
              /\ mid.id = ch.id /\ mid.number = ch.number
              /\ mid.buffer \o Packed(SubSeq(bs, r.added + 1, Len(bs))) = ch.buffer \o Packed(bs)
              /\ \E taken \in Seq(Block) : mid.buffer = ch.buffer \o Packed(taken)
            BY <3>2, <3>3
        <3> HIDE DEF mid
        <3> QED BY <3>1, <3>4 DEF ch
    <2> HIDE DEF r
    <2>6. /\ new \in Seq(Frames)
          /\ TypedChannel(out) /\ out.frames = mid.frames \o new
          /\ DataOf(new) \o out.buffer = mid.buffer
          /\ out.closed => out.buffer = <<>>
          /\ out.id = mid.id /\ out.closed = mid.closed
          /\ out.number = mid.number + FramesCount(mid)
        <3> HIDE DEF mid
        <3> QED BY <2>5, OutputFramesCut
    <2>7. out.frames = new
        BY <2>5, <2>6, ConcatEmptySeq
    <2> HIDE DEF out, q, new
    <2>8. Len(q) \in Nat /\ DOMAIN q = 1 .. Len(q)
        BY <2>2, PartsOf
    <2>9. /\ QueueStream(full) /\ Len(full) = Len(q) /\ DOMAIN full = DOMAIN q
          /\ \A j \in DOMAIN q : full[j] = IF j = Len(q) THEN out ELSE q[j]
        <3>1. Len(q) < Len(q) => out.closed
            BY <2>8
        <3> QED BY <2>2, <2>6, <3>1, ReplaceStream
    <2> HIDE DEF full
    <2>10. /\ Last(full) = out /\ full # <<>>
           /\ \A j \in DOMAIN full : j < Len(full) => full[j].frames = <<>>
        <3>1. full # <<>>
            BY <2>2, <2>9
        <3> QED BY <2>2, <2>8, <2>9, <3>1 DEF Last
    <2>11. Rest(full) = new /\ Held(full) = out.buffer
        <3>1. /\ FramesOf(full) \in Seq(Seq(Frames)) /\ Len(FramesOf(full)) = Len(full)
              /\ \A k \in 1 .. Len(full) : FramesOf(full)[k] = full[k].frames
            BY <2>9, PartsOf
        <3>2. Len(full) # 0 /\ Len(full) \in 1 .. Len(full) /\ DOMAIN full = 1 .. Len(full)
            BY <2>2, <2>8, <2>9
        <3>3. ASSUME NEW j \in 1 .. Len(full) - 1 PROVE FramesOf(full)[j] = <<>>
            <4>1. j \in 1 .. Len(full) /\ j < Len(full)
                BY <2>8, <2>9
            <4> QED BY <2>10, <3>1, <3>2, <4>1
        <3>4. FlattenSeq(FramesOf(full)) = FramesOf(full)[Len(FramesOf(full))]
            BY <3>1, <3>2, <3>3, FlattenLast
        <3>5. Rest(full) = new
            BY <2>7, <2>10, <3>1, <3>2, <3>4 DEF Last
        <3>6. Held(full) = out.buffer
            BY <2>9, <2>10, BuffersAtEnd DEF Last
        <3> QED BY <3>5, <3>6
    <2>12. Rest(channelQueue) = <<>>
        <3>1. /\ FramesOf(channelQueue) \in Seq(Seq(Frames))
              /\ Len(FramesOf(channelQueue)) = Len(channelQueue)
              /\ DOMAIN channelQueue = 1 .. Len(channelQueue)
              /\ \A k \in 1 .. Len(channelQueue) : FramesOf(channelQueue)[k] = channelQueue[k].frames
            BY PartsOf
        <3>2. \A k \in DOMAIN channelQueue : channelQueue[k].frames = <<>>
            BY <1>8 DEF Waiting, HasTxData
        <3> QED BY <3>1, <3>2, FlattenNothing
    <2>13. Rest(full) = Rest(channelQueue) \o new
        BY <2>6, <2>11, <2>12, ConcatEmptySeq
    <2>14. DataOf(new) \o (Held(full) \o Packed(blocks')) = Held(channelQueue) \o Packed(bs)
        <3> DEFINE left == Packed(SubSeq(bs, r.added + 1, Len(bs)))
        <3>1. left \in Seq(Block)
            <4>1. SubSeq(bs, r.added + 1, Len(bs)) \in Seq(Block)
                BY <2>4, RestOfBlocks DEF r, q
            <4> QED BY <4>1, PackedConcat
        <3>2. DataOf(new) \in Seq(Block) /\ out.buffer \in Seq(Block)
            BY <2>6, DataOfConcat DEF TypedChannel
        <3>3. Packed(blocks') = left
            BY <2>1 DEF q
        <3> HIDE DEF left
        <3>4. DataOf(new) \o (out.buffer \o left) = (DataOf(new) \o out.buffer) \o left
            <4> DEFINE u == DataOf(new)
                       v == out.buffer
            <4>1. u \in Seq(Block) /\ v \in Seq(Block) /\ left \in Seq(Block)
                BY <3>1, <3>2
            <4> HIDE DEF u, v, Block
            <4>2. (u \o v) \o left = u \o (v \o left)
                BY ONLY <4>1, ConcatThree, SMTT(60)
            <4> QED BY <4>2 DEF u, v
        <3>5. mid.buffer \o left = Held(q) \o Packed(bs)
            BY <2>5 DEF left
        <3> QED BY <2>2, <2>6, <2>11, <3>3, <3>4, <3>5
    <2>23. ASSUME Open(channelQueue') <=> Open(full),
                  Last(channelQueue').id = Last(full).id,
                  Last(channelQueue').number = Last(full).number,
                  Held(channelQueue') = Held(full)
           PROVE  FramesMade(new) /\ FramesFilled(new)
        <3>1. Open(channelQueue') => /\ ~ mid.closed
                                     /\ Last(channelQueue').id = mid.id
                                     /\ Last(channelQueue').number = mid.number + FramesCount(mid)
            BY <2>6, <2>10, <2>23 DEF Open
        <3>2. /\ mid.id < nextId'
              /\ mid.id = IF Open(channelQueue) THEN Last(channelQueue).id ELSE nextId
              /\ mid.number = IF Open(channelQueue) THEN Last(channelQueue).number ELSE 0
            BY <2>5, <2>21, <2>22
        <3>3. \E taken \in Seq(Block) : DataOf(new) \o Held(channelQueue') = Held(channelQueue) \o Packed(taken)
            <4> HIDE DEF Held, mid
            <4> QED BY <2>2, <2>5, <2>6, <2>11, <2>23
        <3> HIDE DEF mid
        <3>4. FramesMade(new)
            BY <1>0, <2>5, <2>22, <3>1, <3>2, CutInOrder DEF new
        <3>5. /\ FramesCount(mid) \in Nat /\ DOMAIN new = 1 .. FramesCount(mid)
              /\ \A i \in 1 .. FramesCount(mid) : new[i].num = mid.number + i - 1
            BY <2>5, NewFramesAre DEF new
        <3>6. Len(new) = FramesCount(mid)
            BY <2>6, <3>5
        <3>7. FramesFilled(new)
            BY <3>1, <3>2, <3>3, <3>5, <3>6 DEF FramesFilled
        <3> QED BY <3>4, <3>7
    <2>15. CASE HasTxData(Last(full))
        <3>1. TakeFrame(b, full, Len(full)) /\ Await(b, "send")
            BY <2>1, <2>15 DEF full, q, out
        <3>2. Len(full) \in DOMAIN full /\ full[Len(full)].frames # <<>>
            BY <2>2, <2>9, <2>15 DEF HasTxData, Last
        <3>3. /\ QueueStream(channelQueue')
              /\ sending' \in [Batchers -> Frames \cup {NoFrame}]
              /\ OnlySender(b)' /\ sending'[b] # NoFrame /\ batcherAt'[b] = "send"
              /\ Held(channelQueue') = Held(full)
              /\ AllFrames' = AllFrames \o new
            <4> HIDE DEF Rest, Held
            <4> QED BY <1>6, <2>6, <2>9, <2>10, <2>13, <3>1, <3>2, ZenonT(40)
        <3>4. FramesMade(new) /\ FramesFilled(new)
            <4>1. /\ Open(channelQueue') <=> Open(full)
                  /\ Last(channelQueue').id = Last(full).id
                  /\ Last(channelQueue').number = Last(full).number
                BY <2>9, <3>1, <3>2, TakeFrameOpen
            <4> QED BY <2>23, <3>3, <4>1
        <3> QED BY <1>4, <2>6, <2>14, <3>3, <3>4
    <2>16. CASE ~ HasTxData(Last(full))
        <3>1. channelQueue' = full /\ sending' = sending /\ LoopHead(b)
            BY <2>1, <2>16 DEF full, q, out
        <3>2. batcherAt'[b] # "send"
            BY <3>1 DEF LoopHead, Await
        <3>3. OnlySender(b)' /\ sending'[b] = NoFrame
            BY <3>1 DEF OnlySender
        <3>4. SetToSeq(BeingSent)' = <<>>
            BY <1>5, <3>3
        <3>5. AllFrames' = AllFrames \o new
            <4>1. AllFrames' = (outbox \o <<>>) \o Rest(full)
                BY <1>2, <3>1, <3>4 DEF AllFrames
            <4> HIDE DEF Rest
            <4>2. AllFrames' = outbox \o new /\ AllFrames = outbox
                BY <1>4, <2>11, <2>12, <4>1, ConcatEmptySeq
            <4> QED BY <4>2
        <3>6. FramesMade(new) /\ FramesFilled(new)
            BY <2>23, <3>1
        <3> QED BY <1>4, <2>6, <2>9, <2>14, <3>1, <3>2, <3>3, <3>5, <3>6
    <2> QED BY <2>15, <2>16
<1> QED BY <1>7, <1>8 DEF Publish

-----------------------------------------------------------------------------
(* The stream of bytes, while one call runs and every send succeeds. *)

Held == FlattenSeq(BuffersOf(channelQueue))

\* The blocks behind the first, which is under the output root.
BlocksTo(n) == [k \in 1 .. n - 1 |-> k + 1]

\* A call sends exactly while it waits for a send, and reads the output root
\* exactly while no block is stored.
CallsAt ==
    \A b \in Batchers :
        /\ batcherAt[b] = "send" <=> sending[b] # NoFrame
        /\ batcherAt[b] = "init" => lastStored = 0
        /\ batcherAt[b] \notin {"idle", "init"} => lastStored # 0

StreamTyped == /\ QueueStream(channelQueue)
               /\ outbox \in Seq(Frames)
               /\ sending \in [Batchers -> Frames \cup {NoFrame}]

Streamed ==
    DataOf(AllFrames) \o (Held \o Packed(blocks)) = Packed(BlocksTo(Max({lastStored, 1})))

\* Every frame is full, and numbered before those of its channel behind it.
FullBefore(fs) ==
    \A j \in DOMAIN fs : \A i \in 1 .. j - 1 :
        fs[i].chan = fs[j].chan => fs[i].num < fs[j].num /\ Len(fs[i].data) = MaxData

\* One channel after the other.
Ascending(fs) == \A j \in DOMAIN fs : \A i \in 1 .. j - 1 : fs[i].chan <= fs[j].chan

\* So are those of the open channel of q before the frames it will give; the
\* ids are below n.
OrderedIn(fs, q, n) ==
    /\ FullBefore(fs) /\ Ascending(fs)
    /\ \A i \in DOMAIN fs : fs[i].chan < n
    /\ Open(q) =>
          \A i \in DOMAIN fs :
              /\ fs[i].chan <= Last(q).id
              /\ fs[i].chan = Last(q).id => /\ fs[i].num < Last(q).number
                                            /\ Len(fs[i].data) = MaxData

InOrder == OrderedIn(AllFrames, channelQueue, nextId)

CallIInv == BatcherIInv /\ (overlapped \/ (StreamTyped /\ CallsAt))
StreamIInv == CallIInv /\ (overlapped \/ Streamed)
OrderIInv == CallIInv /\ (overlapped \/ InOrder)

-----------------------------------------------------------------------------
(* What a step does to the stream. *)

\* The blocks bs are there to be packed: some of their bytes go on to the
\* buffer, and from there into new frames.
Packs(bs) ==
    \E new \in Seq(Frames) :
        /\ AllFrames' = AllFrames \o new
        /\ FramesMade(new) /\ FramesFilled(new)
        /\ DataOf(new) \o (Held' \o Packed(blocks')) = Held \o Packed(bs)

\* A frame has been sent, and is lost or not.
Sends ==
    /\ UNCHANGED <<channelQueue, blocks, nextId, lastStored>>
    /\ \/ AllFrames' = AllFrames
       \/ /\ MayLose
          /\ \E s, t \in Seq(Frames), x \in Frames :
                AllFrames = (s \o <<x>>) \o t /\ AllFrames' = s \o t

Rests ==
    /\ UNCHANGED <<channelQueue, outbox, sending, blocks, nextId>>
    /\ Max({lastStored', 1}) = Max({lastStored, 1})

\* The larger of a number and one.
LEMMA MaxWithOne == \A n \in Nat : Max({n, 1}) = IF n = 0 THEN 1 ELSE n
<1> SUFFICES ASSUME NEW n \in Nat PROVE Max({n, 1}) = IF n = 0 THEN 1 ELSE n
    OBVIOUS
<1> QED BY DEF Max

\* The next block behind the others.
LEMMA NextBlock ==
    \A n \in Nat \ {0} :
        n + 1 \in Block => /\ BlocksTo(n) \in Seq(Block)
                           /\ BlocksTo(n + 1) = Append(BlocksTo(n), n + 1)
<1> SUFFICES ASSUME NEW n \in Nat \ {0}, n + 1 \in Block
             PROVE  /\ BlocksTo(n) \in Seq(Block)
                    /\ BlocksTo(n + 1) = Append(BlocksTo(n), n + 1)
    OBVIOUS
<1> DEFINE s == BlocksTo(n)
           t == BlocksTo(n + 1)
<1>0. ASSUME NEW m \in Nat, m + 1 \in Block
      PROVE  LET u == BlocksTo(m + 1)
             IN  u \in Seq(Block) /\ Len(u) = m /\ \A k \in 1 .. m : u[k] = k + 1
    <2> DEFINE u == [k \in 1 .. m |-> k + 1]
    <2>1. BlocksTo(m + 1) = u
        BY DEF BlocksTo
    <2>2. \A k \in 1 .. m : k + 1 \in Block
        BY <1>0, CodecAssumption DEF CodecAssumption, Block
    <2>3. u \in Seq(Block) /\ Len(u) = m /\ \A k \in 1 .. m : u[k] = k + 1
        <3> HIDE DEF Block
        <3> QED BY <2>2
    <2> QED BY <2>1, <2>3
<1>1. s \in Seq(Block) /\ Len(s) = n - 1 /\ \A k \in 1 .. n - 1 : s[k] = k + 1
    <2>1. n - 1 \in Nat /\ (n - 1) + 1 = n /\ n \in Block
        BY CodecAssumption DEF CodecAssumption, Block
    <2> HIDE DEF Block
    <2> QED BY <1>0, <2>1
<1>2. t \in Seq(Block) /\ Len(t) = n /\ \A k \in 1 .. n : t[k] = k + 1
    <2> HIDE DEF Block
    <2> QED BY <1>0
<1> HIDE DEF s, t
<1>3. Len(t) = Len(s) + 1 /\ t[Len(s) + 1] = n + 1 /\ \A k \in 1 .. Len(s) : t[k] = s[k]
    BY <1>1, <1>2
<1>4. t = Append(s, n + 1)
    <2> DEFINE x == n + 1
    <2>1. x \in Block
        OBVIOUS
    <2>2. t[Len(s) + 1] = x
        BY <1>3
    <2> HIDE DEF x, Block
    <2>3. t = Append(s, x)
        BY <1>1, <1>2, <1>3, <2>1, <2>2, IsAppend
    <2> QED BY <2>3 DEF x
<1> QED BY <1>1, <1>4 DEF s, t

\* What the parts of the stream are made of.
LEMMA StreamParts ==
    ASSUME BatcherTypeOK, StreamTyped, AllFrames \in Seq(Frames)
    PROVE  /\ DataOf(AllFrames) \in Seq(Block)
           /\ Held \in Seq(Block)
           /\ Packed(blocks) \in Seq(Block)
<1>1. BuffersOf(channelQueue) \in Seq(Seq(Block))
    BY PartsOf DEF StreamTyped
<1>2. Held \in Seq(Block)
    BY <1>1, FlattenType DEF Held
<1>3. DataOf(AllFrames) \in Seq(Block)
    BY DataOfConcat
<1>4. blocks \in Seq(Block)
    BY DEF BatcherTypeOK
<1> QED BY <1>2, <1>3, <1>4, PackedConcat

\* The frames made so far are frames, in the queue or on the way.
LEMMA AllAreFrames ==
    ASSUME StreamTyped, NEW b \in Batchers, OnlySender(b)
    PROVE  /\ AllFrames \in Seq(Frames)
           /\ Waiters \in Seq(Frames)
           /\ AllFrames = IF sending[b] = NoFrame THEN outbox \o Waiters
                          ELSE (outbox \o <<sending[b]>>) \o Waiters
<1>1. FramesOf(channelQueue) \in Seq(Seq(Frames))
    BY PartsOf DEF StreamTyped
<1>2. Waiters = FlattenSeq(FramesOf(channelQueue))
    BY DEF Waiters, FramesOf
<1>3. Waiters \in Seq(Frames)
    BY <1>1, <1>2, FlattenType
<1>4. SetToSeq(BeingSent) = IF sending[b] = NoFrame THEN <<>> ELSE <<sending[b]>>
    BY SentAlone
<1>5. outbox \in Seq(Frames) /\ outbox \o <<>> = outbox
    <2>1. outbox \in Seq(Frames)
        BY DEF StreamTyped
    <2> QED BY <2>1, ConcatEmptySeq
<1>6. CASE sending[b] = NoFrame
    BY <1>3, <1>4, <1>5, <1>6 DEF AllFrames
<1>7. CASE sending[b] # NoFrame
    <2>1. <<sending[b]>> \in Seq(Frames)
        BY <1>7 DEF StreamTyped
    <2> QED BY <1>3, <1>4, <1>5, <1>7, <2>1 DEF AllFrames
<1> QED BY <1>6, <1>7

\* Without overlap, what has been made is frames.
LEMMA FramesSoFar ==
    ASSUME BatcherIInv, ~ overlapped, StreamTyped, CallsAt
    PROVE  AllFrames \in Seq(Frames)
<1>1. CASE \E b \in Batchers : batcherAt[b] # "idle"
    <2>1. PICK b \in Batchers : batcherAt[b] # "idle"
        BY <1>1
    <2>2. OnlySender(b)
        BY <2>1 DEF OnlySender, BatcherIInv, OneCall, Running, CallsAt
    <2> QED BY <2>2, AllAreFrames
<1>2. CASE \A b \in Batchers : batcherAt[b] = "idle"
    <2>1. BeingSent = {}
        BY <1>2 DEF BeingSent, CallsAt
    <2>2. outbox \in Seq(Frames) /\ outbox \o <<>> = outbox
        <3>1. outbox \in Seq(Frames)
            BY DEF StreamTyped
        <3> QED BY <3>1, ConcatEmptySeq
    <2>3. Waiters \in Seq(Frames)
        <3>1. FramesOf(channelQueue) \in Seq(Seq(Frames))
            BY PartsOf DEF StreamTyped
        <3>2. Waiters = FlattenSeq(FramesOf(channelQueue))
            BY DEF Waiters, FramesOf
        <3> QED BY <3>1, <3>2, FlattenType
    <2>4. AllFrames = outbox \o Waiters
        BY <2>1, <2>2, SetToSeqSmall DEF AllFrames
    <2> QED BY <2>2, <2>3, <2>4
<1> QED BY <1>1, <1>2

\* What publishTxToL1 does to the stream; bs are the blocks it packs.
LEMMA PublishSent ==
    ASSUME BatcherIInv, StreamTyped, CallsAt, NEW b \in Batchers, NEW bs \in Seq(Block),
           \A c \in Batchers : c # b => batcherAt[c] = "idle",
           batcherAt[b] \notin {"idle", "init", "send"},
           outbox' = outbox, lastStored' # 0, Publish(b, bs)
    PROVE  StreamTyped' /\ CallsAt' /\ Packs(bs)
<1>1. OnlySender(b) /\ sending[b] = NoFrame
    BY DEF CallsAt, OnlySender
<1>2. /\ QueueStream(channelQueue')
      /\ sending' \in [Batchers -> Frames \cup {NoFrame}]
      /\ OnlySender(b)'
      /\ sending'[b] # NoFrame => batcherAt'[b] = "send"
      /\ batcherAt'[b] = "send" => sending'[b] # NoFrame
      /\ \E new \in Seq(Frames) :
            /\ AllFrames' = AllFrames \o new
            /\ FramesMade(new) /\ FramesFilled(new)
            /\ DataOf(new) \o (FlattenSeq(BuffersOf(channelQueue')) \o Packed(blocks'))
                   = FlattenSeq(BuffersOf(channelQueue)) \o Packed(bs)
    <2>1. batcherAt \in [Batchers -> Places] /\ QueueOK
        BY DEF BatcherIInv, BatcherTypeOK, Places
    <2> QED BY <1>1, <2>1, PublishStream DEF StreamTyped
<1>3. Packs(bs)
    BY <1>2 DEF Packs, Held
<1>4. StreamTyped'
    BY <1>2 DEF StreamTyped
<1>5. CallsAt'
    <2>1. PICK place \in {"send", "range", "idle"} :
              batcherAt' = [batcherAt EXCEPT ![b] = place]
        BY PublishOK DEF BatcherIInv
    <2>2. \A c \in Batchers : batcherAt'[c] = IF c = b THEN place ELSE batcherAt[c]
        BY <2>1 DEF BatcherIInv, BatcherTypeOK
    <2>3. ASSUME NEW c \in Batchers
          PROVE  /\ batcherAt'[c] = "send" <=> sending'[c] # NoFrame
                 /\ batcherAt'[c] = "init" => lastStored' = 0
                 /\ batcherAt'[c] \notin {"idle", "init"} => lastStored' # 0
        <3>1. CASE c = b
            BY <1>2, <2>2, <3>1
        <3>2. CASE c # b
            BY <1>2, <2>2, <3>2 DEF OnlySender
        <3> QED BY <3>1, <3>2
    <2> QED BY <2>3 DEF CallsAt
<1> QED BY <1>3, <1>4, <1>5

\* A block joins the others, and nothing is packed yet.
LEMMA NothingPacked ==
    ASSUME BatcherIInv, ~ overlapped, StreamTyped, CallsAt, NEW bs \in Seq(Block),
           UNCHANGED <<channelQueue, outbox, sending, nextId>>, blocks' = bs
    PROVE  Packs(bs)
<1>1. AllFrames' = AllFrames /\ Held' = Held
    BY DEF AllFrames, Waiters, BeingSent, Held
<1>2. AllFrames' = AllFrames \o <<>> /\ <<>> \in Seq(Frames)
    BY <1>1, FramesSoFar, ConcatEmptySeq
<1>3. FramesMade(<<>>)
    <2>1. Open(channelQueue) => Last(channelQueue).number \in Nat
        BY LastNumber DEF StreamTyped
    <2>2. nextId \in Nat
        BY DEF BatcherIInv, QueueOK
    <2>3. DOMAIN <<>> = {}
        OBVIOUS
    <2> QED BY <2>1, <2>2, <2>3 DEF FramesMade
<1>5. FramesFilled(<<>>)
    <2>1. Open(channelQueue) => Last(channelQueue).number \in Nat
        BY LastNumber DEF StreamTyped
    <2>2. Held \in Seq(Block)
        <3>1. BuffersOf(channelQueue) \in Seq(Seq(Block))
            BY PartsOf DEF StreamTyped
        <3> QED BY <3>1, FlattenType DEF Held
    <2>3. DataOf(<<>>) \o Held' = Held \o Packed(<<>>)
        <3> HIDE DEF Held
        <3> QED BY <1>1, <2>2, DataOfNone, PackedNone, ConcatEmptySeq
    <2>4. <<>> \in Seq(Block) /\ Len(<<>>) = 0 /\ DOMAIN <<>> = {}
        OBVIOUS
    <2>5. Open(channelQueue) => Last(channelQueue).number = Last(channelQueue).number + Len(<<>>)
        BY <2>1, <2>4
    <2> QED BY <2>3, <2>4, <2>5 DEF FramesFilled, Held
<1>4. DataOf(<<>>) \o (Held' \o Packed(blocks')) = Held \o Packed(bs)
    <2> DEFINE r == Held \o Packed(bs)
    <2>1. r \in Seq(Block)
        <3>1. Held \in Seq(Block)
            <4>1. BuffersOf(channelQueue) \in Seq(Seq(Block))
                BY PartsOf DEF StreamTyped
            <4> QED BY <4>1, FlattenType DEF Held
        <3>2. Packed(bs) \in Seq(Block)
            BY PackedConcat
        <3> QED BY <3>1, <3>2
    <2>2. Held' \o Packed(blocks') = r
        BY <1>1
    <2> HIDE DEF r
    <2> QED BY <2>1, <2>2, DataOfNone, ConcatEmptySeq DEF r
<1> QED BY <1>2, <1>3, <1>4, <1>5 DEF Packs

\* The block n is the next to fetch.
NextToStore(n) == lastStored # 0 /\ n = lastStored + 1 /\ n \in Block

\* What the steps of the one call do to the stream.
LEMMA BatcherMoves ==
    ASSUME BatcherIInv, StreamTyped, CallsAt, ~ overlapped, ~ overlapped',
           [BatcherNext]_batcherVars
    PROVE  /\ StreamTyped' /\ CallsAt'
           /\ \/ Rests
              \/ Packs(blocks) /\ lastStored' = lastStored
              \/ NextToStore(lastStored') /\ Packs(Append(blocks, lastStored'))
              \/ Sends
<1> DEFINE Moved == \/ Rests
                    \/ Packs(blocks) /\ lastStored' = lastStored
                    \/ NextToStore(lastStored') /\ Packs(Append(blocks, lastStored'))
                    \/ Sends
<1>1. BatcherIInv
    OBVIOUS
<1>3. StreamTyped /\ CallsAt
    OBVIOUS
<1>4. /\ batcherAt \in [Batchers -> Places] /\ lastStored \in Nat
      /\ blocks \in Seq(Block) /\ BatcherTypeOK
    <2>1. lastStored \in Nat
        BY CodecAssumption, <1>1 DEF CodecAssumption, BatcherIInv, BatcherTypeOK, Block
    <2> QED BY <1>1, <2>1 DEF BatcherIInv, BatcherTypeOK, Places
\* What a call at work can count on.
<1>5. ASSUME NEW b \in Batchers, batcherAt[b] # "idle"
      PROVE  \A c \in Batchers : c # b => batcherAt[c] = "idle" /\ sending[c] = NoFrame
    BY <1>1, <1>3, <1>5 DEF BatcherIInv, OneCall, Running, CallsAt
\* A call moves on, from elsewhere than a send, and to elsewhere.
<1>6. ASSUME NEW b \in Batchers, batcherAt[b] # "send",
             NEW place \in Places \ {"send", "init"},
             batcherAt' = [batcherAt EXCEPT ![b] = place],
             UNCHANGED <<channelQueue, outbox, sending, blocks, nextId, lastStored>>,
             place = "idle" \/ lastStored # 0
      PROVE  StreamTyped' /\ CallsAt' /\ Moved
    <2>1. StreamTyped' /\ Rests
        BY <1>3, <1>6 DEF StreamTyped, Rests
    <2>2. \A c \in Batchers : batcherAt'[c] = IF c = b THEN place ELSE batcherAt[c]
        BY <1>4, <1>6
    <2>3. CallsAt'
        BY <1>3, <1>6, <2>2 DEF CallsAt
    <2> QED BY <2>1, <2>3
\* The blocks there are are published.
<1>7. ASSUME NEW b \in Batchers, batcherAt[b] \in {"range", "end"}, Publish(b, blocks),
             outbox' = outbox, lastStored' = lastStored
      PROVE  StreamTyped' /\ CallsAt' /\ Moved
    <2>1. lastStored' # 0
        BY <1>3, <1>7 DEF CallsAt
    <2>2. StreamTyped' /\ CallsAt' /\ Packs(blocks)
        BY <1>1, <1>3, <1>4, <1>5, <1>7, <2>1, PublishSent
    <2> QED BY <1>7, <2>2
\* The range of blocks to load is known.
<1>8. ASSUME NEW b \in Batchers, NEW end, batcherAt[b] \in {"range", "end"}, LoadUpTo(b, end)
      PROVE  StreamTyped' /\ CallsAt' /\ Moved
    <2>1. outbox' = outbox /\ lastStored' = lastStored
        BY <1>8 DEF LoadUpTo
    <2>2. CASE Publish(b, blocks)
        BY <1>7, <1>8, <2>1, <2>2
    <2>3. CASE /\ UNCHANGED <<channelVars, sending>>
               /\ Await(b, "sleep") \/ Await(b, "load")
        <3>1. PICK place \in {"sleep", "load"} : batcherAt' = [batcherAt EXCEPT ![b] = place]
            BY <2>3 DEF Await
        <3>2. lastStored # 0 /\ batcherAt[b] # "send" /\ place \in Places \ {"send", "init"}
            BY <1>3, <1>8 DEF CallsAt, Places
        <3> QED BY <1>6, <2>1, <2>3, <3>1, <3>2 DEF channelVars
    <2> QED BY <1>8, <2>2, <2>3 DEF LoadUpTo
<1>9. CASE NewL3Block \/ BatchStop \/ UNCHANGED batcherVars
    <2>1. UNCHANGED <<channelQueue, outbox, sending, blocks, nextId, lastStored, batcherAt>>
        BY <1>9 DEF NewL3Block, BatchStop, batcherVars, channelVars
    <2>2. CallsAt'
        BY <1>3, <2>1 DEF CallsAt
    <2> QED BY <1>3, <2>1, <2>2 DEF StreamTyped, Rests
<1>10. ASSUME NEW b \in Batchers, BatchStart(b) PROVE StreamTyped' /\ CallsAt' /\ Moved
    <2> DEFINE place == IF lastStored = 0 THEN "init" ELSE "range"
    <2>1. UNCHANGED <<channelQueue, outbox, sending, blocks, nextId, lastStored>>
          /\ batcherAt[b] = "idle" /\ batcherAt' = [batcherAt EXCEPT ![b] = place]
        BY <1>10 DEF BatchStart, channelVars, Await, Running
    <2>2. \A c \in Batchers : batcherAt'[c] = IF c = b THEN place ELSE batcherAt[c]
        BY <1>4, <2>1
    <2>3. CallsAt'
        BY <1>3, <2>1, <2>2 DEF CallsAt
    <2> QED BY <1>3, <2>1, <2>3 DEF StreamTyped, Rests
<1>11. ASSUME NEW b \in Batchers, InitBlock(b, 1) PROVE StreamTyped' /\ CallsAt' /\ Moved
    <2>1. UNCHANGED <<channelQueue, outbox, sending, blocks, nextId>>
          /\ lastStored = 0 /\ lastStored' = 1
          /\ batcherAt[b] = "init" /\ batcherAt' = [batcherAt EXCEPT ![b] = "range"]
        BY <1>3, <1>11 DEF InitBlock, channelVars, Await, CallsAt
    <2>2. Max({lastStored', 1}) = Max({lastStored, 1})
        BY <2>1, MaxWithOne
    <2>3. \A c \in Batchers : batcherAt'[c] = IF c = b THEN "range" ELSE batcherAt[c]
        BY <1>4, <2>1
    <2>4. CallsAt'
        BY <1>3, <1>5, <2>1, <2>3 DEF CallsAt
    <2> QED BY <1>3, <2>1, <2>2, <2>4 DEF StreamTyped, Rests
<1>12. ASSUME NEW b \in Batchers, RangeReply(b) PROVE StreamTyped' /\ CallsAt' /\ Moved
    <2>1. CASE LoadUpTo(b, tip)
        BY <1>8, <1>12, <2>1 DEF RangeReply
    <2>2. CASE Await(b, "end") /\ UNCHANGED <<lastStored, channelVars, sending, outbox>>
        <3>1. lastStored # 0 /\ batcherAt[b] # "send" /\ "end" \in Places \ {"send", "init"}
            BY <1>3, <1>12 DEF CallsAt, Places, RangeReply
        <3> QED BY <1>6, <2>2, <3>1 DEF channelVars, Await
    <2> QED BY <1>12, <2>1, <2>2 DEF RangeReply
<1>13. ASSUME NEW b \in Batchers, EndReply(b) PROVE StreamTyped' /\ CallsAt' /\ Moved
    BY <1>8, <1>13 DEF EndReply
<1>14. ASSUME NEW b \in Batchers, LoadBlock(b) PROVE StreamTyped' /\ CallsAt' /\ Moved
    <2> DEFINE n == loadNext[b]
               bs == Append(blocks, n)
    <2>1. /\ batcherAt[b] = "load" /\ lastStored' = n /\ outbox' = outbox
          /\ \/ blocks' = bs /\ UNCHANGED <<channelQueue, nextId, sending, batcherAt>>
             \/ Publish(b, bs)
        BY <1>14 DEF LoadBlock, Stored
    <2>2. lastStored # 0 /\ n = lastStored + 1
        BY <1>1, <1>3, <2>1 DEF CallsAt, BatcherIInv, OneCall
    <2>3. n \in Block
        <3>1. n \in 1 .. loadEnd[b] /\ loadEnd[b] \in 0 .. tip /\ tip \in Block
            BY <1>1, <2>1 DEF BatcherIInv, BatcherTypeOK, Loading
        <3> QED BY <3>1, CodecAssumption DEF CodecAssumption, Block
    <2>4. bs \in Seq(Block) /\ lastStored' # 0
        BY <1>4, <2>1, <2>2, <2>3
    <2>5. NextToStore(lastStored') /\ bs = Append(blocks, lastStored')
        BY <2>1, <2>2, <2>3 DEF NextToStore
    <2> HIDE DEF n, bs
    <2>6. CASE blocks' = bs /\ UNCHANGED <<channelQueue, nextId, sending, batcherAt>>
        <3>1. StreamTyped'
            BY <1>3, <2>1, <2>6 DEF StreamTyped
        <3>2. Packs(bs)
            BY <1>1, <1>3, <2>1, <2>4, <2>6, NothingPacked
        <3>3. CallsAt'
            BY <1>3, <1>5, <2>1, <2>4, <2>6 DEF CallsAt
        <3> QED BY <2>5, <3>1, <3>2, <3>3
    <2>7. CASE Publish(b, bs)
        <3>1. StreamTyped' /\ CallsAt' /\ Packs(bs)
            BY <1>1, <1>3, <1>5, <2>1, <2>4, <2>7, PublishSent
        <3> QED BY <2>5, <3>1
    <2> QED BY <2>1, <2>6, <2>7
<1>15. ASSUME NEW b \in Batchers, FrameSent(b) PROVE StreamTyped' /\ CallsAt' /\ Moved
    <2> DEFINE x == sending[b]
    <2>1. batcherAt[b] = "send" /\ x # NoFrame
        BY <1>3, <1>15 DEF FrameSent, CallsAt
    <2>2. MayFail(b) => MayLose
        BY <1>5, <2>1 DEF MayFail
    <2>3. /\ outbox' = Append(outbox, x) \/ (MayLose /\ outbox' = outbox)
          /\ sending' = [sending EXCEPT ![b] = NoFrame]
          /\ batcherAt' = [batcherAt EXCEPT ![b] = IF batching THEN "range" ELSE "idle"]
          /\ UNCHANGED <<lastStored, channelQueue, blocks, nextId>>
        BY <1>15, <2>2 DEF FrameSent, LoopHead, Await, channelVars
    <2>4. outbox \in Seq(Frames) /\ x \in Frames
        BY <1>3, <2>1 DEF StreamTyped
    <2>5. /\ \A c \in Batchers : sending'[c] = IF c = b THEN NoFrame ELSE sending[c]
          /\ \A c \in Batchers : batcherAt'[c] =
                IF c = b THEN IF batching THEN "range" ELSE "idle" ELSE batcherAt[c]
        BY <1>3, <1>4, <2>3 DEF StreamTyped
    <2>6. OnlySender(b) /\ OnlySender(b)'
        BY <1>5, <2>1, <2>5 DEF OnlySender
    <2>7. CallsAt'
        BY <1>3, <2>1, <2>3, <2>5 DEF CallsAt
    <2>8. AllFrames = (outbox \o <<x>>) \o Waiters /\ Waiters \in Seq(Frames)
        BY <1>3, <2>1, <2>6, AllAreFrames
    <2> HIDE DEF x
    <2>9. outbox' \in Seq(Frames) /\ Append(outbox, x) = outbox \o <<x>>
        BY <2>3, <2>4, AppendIsConcat, SMTT(30)
    <2>10. StreamTyped'
        BY <1>3, <2>3, <2>9 DEF StreamTyped
    <2>11. AllFrames' = outbox' \o Waiters
        <3>1. (BeingSent)' = {}
            BY <2>5, <2>6 DEF OnlySender, BeingSent
        <3>2. outbox' \o <<>> = outbox'
            BY <2>9, ConcatEmptySeq
        <3>3. Waiters' = Waiters
            BY <2>3 DEF Waiters
        <3> QED BY <3>1, <3>2, <3>3, SetToSeqSmall DEF AllFrames
    <2>12. Sends
        BY <2>3, <2>4, <2>8, <2>9, <2>11 DEF Sends
    <2> QED BY <2>7, <2>10, <2>12
<1>16. ASSUME NEW b \in Batchers, BatcherWake(b) PROVE StreamTyped' /\ CallsAt' /\ Moved
    <2> DEFINE place == IF batching THEN "range" ELSE "idle"
    <2>1. /\ batcherAt[b] = "sleep" /\ batcherAt' = [batcherAt EXCEPT ![b] = place]
          /\ UNCHANGED <<channelQueue, outbox, sending, blocks, nextId, lastStored>>
        BY <1>16 DEF BatcherWake, LoopHead, Await, channelVars
    <2>2. lastStored # 0 /\ batcherAt[b] # "send" /\ place \in Places \ {"send", "init"}
        BY <1>3, <2>1 DEF CallsAt, Places
    <2> QED BY <1>6, <2>1, <2>2
<1> QED BY <1>9, <1>10, <1>11, <1>12, <1>13, <1>14, <1>15, <1>16 DEF BatcherNext, BatcherStep

\* Nothing has been made and nothing is held.
LEMMA SentInit == BatcherInit => StreamIInv /\ AllFrames = <<>>
<1> SUFFICES ASSUME BatcherInit PROVE StreamIInv /\ AllFrames = <<>>
    OBVIOUS
<1>1. BatcherIInv
    BY BatcherInitIInv
<1>2. channelQueue = <<>> /\ outbox = <<>> /\ blocks = <<>> /\ lastStored = 0
      /\ sending = [b \in Batchers |-> NoFrame] /\ batcherAt = [b \in Batchers |-> "idle"]
    BY DEF BatcherInit
<1>3. StreamTyped
    <2>1. channelQueue \in Seq({}) /\ outbox \in Seq(Frames)
        BY <1>2
    <2> QED BY <1>2, <2>1 DEF StreamTyped, QueueStream
<1>4. CallsAt
    BY <1>2 DEF CallsAt
<1>5. Streamed /\ AllFrames = <<>>
    <2>1. BeingSent = {}
        BY <1>2 DEF BeingSent
    <2>2. FramesOf(channelQueue) = <<>> /\ BuffersOf(channelQueue) = <<>>
        BY <1>2 DEF FramesOf, BuffersOf
    <2>3. Waiters = <<>> /\ Held = <<>>
        BY <2>2, FlattenEmpty DEF Waiters, FramesOf, Held
    <2>4. AllFrames = <<>>
        BY <1>2, <2>1, <2>3, SetToSeqSmall DEF AllFrames
    <2>5. BlocksTo(1) = <<>>
        BY DEF BlocksTo
    <2>6. Max({lastStored, 1}) = 1
        BY <1>2, MaxWithOne
    <2>7. <<>> \o (<<>> \o <<>>) = <<>>
        BY ConcatEmptySeq
    <2> QED BY <1>2, <2>3, <2>4, <2>5, <2>6, <2>7, DataOfNone, PackedNone DEF Streamed
<1> QED BY <1>1, <1>3, <1>4, <1>5 DEF StreamIInv, CallIInv


\* Packing keeps the bytes.
LEMMA PackedStream ==
    ASSUME BatcherIInv, ~ overlapped, StreamTyped, CallsAt, BatcherTypeOK', StreamTyped',
           NEW bs, Packs(bs)
    PROVE  DataOf(AllFrames') \o (Held' \o Packed(blocks'))
             = DataOf(AllFrames) \o (Held \o Packed(bs))
<1>1. PICK new \in Seq(Frames) :
            /\ AllFrames' = AllFrames \o new
            /\ DataOf(new) \o (Held' \o Packed(blocks')) = Held \o Packed(bs)
    BY DEF Packs
<1> DEFINE a == DataOf(AllFrames)
           d == DataOf(new)
           r == Held' \o Packed(blocks')
<1>2. DataOf(AllFrames') = a \o d
    BY <1>1, FramesSoFar, DataOfConcat
<1>3. a \in Seq(Block) /\ d \in Seq(Block)
    BY <1>1, FramesSoFar, DataOfConcat
<1>4. r \in Seq(Block)
    <2>1. BuffersOf(channelQueue') \in Seq(Seq(Block))
        BY PartsOf DEF StreamTyped
    <2>2. Held' \in Seq(Block)
        BY <2>1, FlattenType DEF Held
    <2>3. Packed(blocks') \in Seq(Block)
        BY PackedConcat DEF BatcherTypeOK
    <2> QED BY <2>2, <2>3
<1>5. d \o r = Held \o Packed(bs)
    BY <1>1
<1> HIDE DEF a, d, r
<1>6. (a \o d) \o r = a \o (d \o r)
    BY ONLY <1>3, <1>4, ConcatThree, SMTT(60)
<1>7. DataOf(AllFrames') \o r = a \o (Held \o Packed(bs))
    BY <1>2, <1>5, <1>6
<1> QED BY <1>7 DEF a, r

\* A block has been fetched: it is the next one.
LEMMA BlockStored ==
    ASSUME BatcherIInv, ~ overlapped, StreamTyped, CallsAt, Streamed,
           NEW n, NextToStore(n)
    PROVE  DataOf(AllFrames) \o (Held \o Packed(Append(blocks, n)))
              = Packed(BlocksTo(Max({n, 1})))
<1> DEFINE a == DataOf(AllFrames)
           p == Packed(blocks)
<1>1. blocks \in Seq(Block) /\ lastStored \in Nat \ {0} /\ BatcherTypeOK
    <2>1. lastStored \in Nat
        BY CodecAssumption DEF CodecAssumption, BatcherIInv, BatcherTypeOK, Block
    <2> QED BY <2>1 DEF BatcherIInv, BatcherTypeOK, NextToStore
<1>2. a \in Seq(Block) /\ Held \in Seq(Block) /\ p \in Seq(Block)
    BY <1>1, FramesSoFar, StreamParts
<1>3. Packed(Append(blocks, n)) = p \o Bytes(n) /\ Bytes(n) \in Seq(Block)
    BY <1>1, PackedAppend, BytesType DEF NextToStore
<1>4. Max({lastStored, 1}) = lastStored /\ Max({n, 1}) = lastStored + 1
    BY <1>1, MaxWithOne DEF NextToStore
<1>5. Packed(BlocksTo(lastStored + 1)) = Packed(BlocksTo(lastStored)) \o Bytes(n)
    <2>1. BlocksTo(lastStored) \in Seq(Block) /\ BlocksTo(lastStored + 1) = Append(BlocksTo(lastStored), n)
        BY <1>1, NextBlock DEF NextToStore
    <2> QED BY <2>1, PackedAppend DEF NextToStore
<1>6. a \o (Held \o p) = Packed(BlocksTo(lastStored))
    BY <1>4 DEF Streamed
<1> DEFINE h == Held
           y == Bytes(n)
<1> HIDE DEF a, p, h, y
<1>7. a \o (h \o (p \o y)) = (a \o (h \o p)) \o y
    <2>1. a \in Seq(Block) /\ h \in Seq(Block) /\ p \in Seq(Block) /\ y \in Seq(Block)
        BY <1>2, <1>3 DEF h, y
    <2>2. (h \o p) \o y = h \o (p \o y)
        BY ONLY <2>1, ConcatThree, SMTT(60)
    <2> DEFINE hp == h \o p
    <2>3. hp \in Seq(Block)
        BY <2>1
    <2> HIDE DEF hp
    <2>4. (a \o hp) \o y = a \o (hp \o y)
        BY ONLY <2>1, <2>3, ConcatThree, SMTT(60)
    <2> QED BY <2>2, <2>4 DEF hp
<1> QED BY <1>3, <1>4, <1>5, <1>6, <1>7 DEF a, p, h, y

\* Overlap is never undone, and the calls stay where they should be.
LEMMA CallStep ==
    ASSUME CallIInv, [BatcherNext]_batcherVars
    PROVE  /\ CallIInv'
           /\ overlapped'
              \/ /\ ~ overlapped /\ StreamTyped /\ CallsAt /\ StreamTyped'
                 /\ \/ Rests
                    \/ Packs(blocks) /\ lastStored' = lastStored
                    \/ NextToStore(lastStored') /\ Packs(Append(blocks, lastStored'))
                    \/ Sends
<1>1. BatcherIInv /\ BatcherIInv'
    BY BatcherIInvStep DEF CallIInv
<1>2. overlapped => overlapped'
    BY DEF BatcherNext, BatcherStep, batcherVars, batcherHist, NewL3Block, BatchStop, BatchStart,
           InitBlock, RangeReply, EndReply, LoadUpTo, LoadBlock, FrameSent, BatcherWake
<1>3. overlapped' \in BOOLEAN /\ overlapped \in BOOLEAN
    BY <1>1 DEF BatcherIInv
<1>4. CASE overlapped'
    BY <1>1, <1>4 DEF CallIInv
<1>5. CASE ~ overlapped'
    <2>1. ~ overlapped /\ StreamTyped /\ CallsAt
        BY <1>2, <1>5 DEF CallIInv
    <2> QED BY <1>1, <1>5, <2>1, BatcherMoves DEF CallIInv
<1> QED BY <1>4, <1>5

\* Every step of the one call keeps the stream.
LEMMA StreamStep ==
    ASSUME MayLose = FALSE, StreamIInv, [BatcherNext]_batcherVars
    PROVE  StreamIInv'
<1>1. CallIInv' /\ CallIInv
    BY CallStep DEF StreamIInv
<1> SUFFICES ASSUME ~ overlapped' PROVE Streamed'
    BY <1>1 DEF StreamIInv
<1>2. /\ ~ overlapped /\ StreamTyped /\ CallsAt /\ StreamTyped'
      /\ \/ Rests
         \/ Packs(blocks) /\ lastStored' = lastStored
         \/ NextToStore(lastStored') /\ Packs(Append(blocks, lastStored'))
         \/ Sends
    BY CallStep DEF StreamIInv
<1>3. BatcherIInv /\ BatcherTypeOK' /\ Streamed /\ blocks \in Seq(Block)
    <2>1. BatcherIInv /\ BatcherIInv'
        BY <1>1 DEF CallIInv
    <2>2. Streamed
        BY <1>2 DEF StreamIInv
    <2> QED BY <2>1, <2>2 DEF BatcherIInv, BatcherTypeOK
<1>4. CASE Rests
    <2>1. AllFrames' = AllFrames /\ Held' = Held
        BY <1>4 DEF Rests, AllFrames, Waiters, BeingSent, Held
    <2> QED BY <1>3, <1>4, <2>1 DEF Streamed, Rests
<1>5. CASE Packs(blocks) /\ lastStored' = lastStored
    <2>1. DataOf(AllFrames') \o (Held' \o Packed(blocks'))
             = DataOf(AllFrames) \o (Held \o Packed(blocks))
        BY <1>2, <1>3, <1>5, PackedStream
    <2> QED BY <1>3, <1>5, <2>1 DEF Streamed
<1>6. CASE NextToStore(lastStored') /\ Packs(Append(blocks, lastStored'))
    <2> DEFINE n == lastStored'
               bs == Append(blocks, n)
    <2>1. NextToStore(n) /\ Packs(bs)
        BY <1>6
    <2> HIDE DEF n
    <2>3. DataOf(AllFrames) \o (Held \o Packed(bs)) = Packed(BlocksTo(Max({n, 1})))
        BY <1>2, <1>3, <2>1, BlockStored
    <2> HIDE DEF bs
    <2>4. DataOf(AllFrames') \o (Held' \o Packed(blocks'))
             = DataOf(AllFrames) \o (Held \o Packed(bs))
        BY <1>2, <1>3, <2>1, PackedStream
    <2> QED BY <2>3, <2>4 DEF Streamed, n
<1>7. CASE Sends
    <2>1. AllFrames' = AllFrames /\ Held' = Held
        BY <1>7 DEF Sends, Held
    <2> QED BY <1>3, <1>7, <2>1 DEF Streamed, Sends
<1> QED BY <1>2, <1>4, <1>5, <1>6, <1>7

\* While every send succeeds and no two calls overlap, no byte of a block is
\* lost, doubled or out of order between the blocks fetched and L1, whatever
\* the sizes and the limits.
THEOREM BytesKept ==
    ASSUME MayLose = FALSE
    PROVE  BatcherSpec => []ByteStream
<1>1. BatcherInit => StreamIInv
    BY SentInit
<1>2. StreamIInv /\ [BatcherNext]_batcherVars => StreamIInv'
    BY StreamStep
<1>3. StreamIInv => ByteStream
    <2> SUFFICES ASSUME StreamIInv, ~ overlapped PROVE ByteStream
        BY DEF ByteStream
    <2>1. StreamTyped /\ CallsAt /\ Streamed /\ BatcherIInv
        BY DEF StreamIInv, CallIInv
    <2>2. AllFrames \in Seq(Frames)
        BY <2>1, FramesSoFar
    <2> DEFINE a == DataOf(AllFrames)
               p == Packed(blocks)
               h == Held
    <2>3. a \in Seq(Block) /\ h \in Seq(Block) /\ p \in Seq(Block)
        BY <2>1, <2>2, StreamParts DEF BatcherIInv
    <2>4. a \o (h \o p) = Packed(BlocksTo(Max({lastStored, 1})))
        BY <2>1 DEF Streamed
    <2> HIDE DEF a, p, h
    <2>5. (a \o h) \o p = a \o (h \o p)
        BY ONLY <2>3, ConcatThree, SMTT(60)
    <2>6. FlattenSeq([k \in DOMAIN channelQueue |-> channelQueue[k].buffer]) = h
        BY DEF h, Held, BuffersOf
    <2>7. BlocksTo(Max({lastStored, 1})) = [k \in 1 .. Max({lastStored, 1}) - 1 |-> k + 1]
        BY DEF BlocksTo
    <2> QED BY <2>4, <2>5, <2>6, <2>7 DEF ByteStream, a, p
<1> QED BY <1>1, <1>2, <1>3, PTL DEF BatcherSpec
-----------------------------------------------------------------------------
(* The order of the frames, whether or not sends succeed. *)

\* Frames made behind others in order are in order.
LEMMA MoreInOrder ==
    ASSUME NEW fs \in Seq(Frames), OrderedIn(fs, channelQueue, nextId),
           NEW new \in Seq(Frames), FramesMade(new),
           QueueStream(channelQueue), QueueStream(channelQueue'), nextId \in Nat, nextId' \in Nat
    PROVE  OrderedIn(fs \o new, channelQueue', nextId')
<1> DEFINE all == fs \o new
           n == Len(fs)
           id == IF Open(channelQueue) THEN Last(channelQueue).id ELSE nextId
           first == IF Open(channelQueue) THEN Last(channelQueue).number ELSE 0
           full(f) == Len(f.data) = MaxData
           now == Last(channelQueue')
<1>1. /\ Len(all) = n + Len(new) /\ DOMAIN all = 1 .. n + Len(new)
      /\ n \in Nat /\ Len(new) \in Nat /\ DOMAIN fs = 1 .. n /\ DOMAIN new = 1 .. Len(new)
      /\ \A k \in 1 .. n + Len(new) : all[k] = IF k <= n THEN fs[k] ELSE new[k - n]
    <2>1. Len(all) = n + Len(new) /\ \A k \in 1 .. n + Len(new) :
                                         all[k] = IF k <= n THEN fs[k] ELSE new[k - n]
        BY ConcatProperties
    <2>2. all \in Seq(Frames) /\ n \in Nat /\ Len(new) \in Nat
        OBVIOUS
    <2> HIDE DEF all
    <2> QED BY <2>1, <2>2
<1>2. /\ \A i \in 1 .. n : fs[i].chan \in Nat /\ fs[i].num \in Nat
      /\ \A i \in 1 .. Len(new) : new[i].chan \in Nat /\ new[i].num \in Nat
    <2>1. \A f \in Frames : f.chan \in Nat /\ f.num \in Nat
        BY DEF Frames
    <2>2. \A i \in 1 .. n : fs[i] \in Frames
        OBVIOUS
    <2>3. \A i \in 1 .. Len(new) : new[i] \in Frames
        OBVIOUS
    <2> QED BY <2>1, <2>2, <2>3
<1>4. first \in Nat /\ (Open(channelQueue') => now.number \in Nat)
    BY LastNumber
\* What has been made, and what is made now.
<1>5. ASSUME NEW j \in 1 .. Len(new)
      PROVE  /\ new[j].chan = id /\ id < nextId' /\ first <= new[j].num
             /\ \A i \in 1 .. j - 1 : new[i].num < new[j].num /\ full(new[i])
    BY <1>1 DEF FramesMade
<1>6. ASSUME Open(channelQueue')
      PROVE  /\ now.id = id /\ first <= now.number
             /\ \A j \in 1 .. Len(new) : new[j].num < now.number /\ full(new[j])
    BY <1>1, <1>6 DEF FramesMade
<1>7. nextId <= nextId'
    BY DEF FramesMade
<1>8. ASSUME NEW j \in 1 .. n
      PROVE  /\ fs[j].chan < nextId
             /\ \A i \in 1 .. j - 1 :
                   /\ fs[i].chan <= fs[j].chan
                   /\ fs[i].chan = fs[j].chan => fs[i].num < fs[j].num /\ full(fs[i])
    BY <1>1 DEF OrderedIn, FullBefore, Ascending
<1>9. ASSUME NEW i \in 1 .. n, fs[i].chan = id PROVE fs[i].num < first /\ full(fs[i])
    <2>1. CASE Open(channelQueue)
        BY <1>1, <1>9, <2>1 DEF OrderedIn
    <2>2. CASE ~ Open(channelQueue)
        BY <1>2, <1>8, <1>9, <2>2
    <2> QED BY <2>1, <2>2
<1>3. id \in Nat /\ \A i \in 1 .. n : fs[i].chan <= id
    <2>1. CASE Open(channelQueue)
        BY <1>1, <2>1, LastNumber DEF OrderedIn
    <2>2. CASE ~ Open(channelQueue)
        BY <1>2, <1>8, <2>2
    <2> QED BY <2>1, <2>2
<1> HIDE DEF all, n, id, first, full, now
<1>13. Ascending(all)
    <2>1. ASSUME NEW j \in 1 .. n + Len(new), NEW i \in 1 .. j - 1
          PROVE  all[i].chan <= all[j].chan
        <3>1. i \in 1 .. n + Len(new) /\ i < j
            BY <1>1
        <3>2. CASE j <= n
            <4>1. j \in 1 .. n /\ i <= n
                BY <1>1, <3>1, <3>2
            <4>2. all[j] = fs[j] /\ all[i] = fs[i]
                BY <1>1, <3>1, <3>2, <4>1
            <4> QED BY <1>8, <4>1, <4>2
        <3>3. CASE ~ (j <= n)
            <4>1. j - n \in 1 .. Len(new) /\ all[j] = new[j - n]
                BY <1>1, <3>3
            <4>2. all[j].chan = id
                BY <1>5, <4>1
            <4>3. CASE i <= n
                <5>1. i \in 1 .. n /\ all[i] = fs[i]
                    BY <1>1, <3>1, <4>3
                <5> QED BY <1>3, <4>2, <5>1
            <4>4. CASE ~ (i <= n)
                <5>1. i - n \in 1 .. Len(new) /\ all[i] = new[i - n]
                    BY <1>1, <3>1, <4>4
                <5>2. all[i].chan = id
                    BY <1>5, <5>1
                <5> QED BY <1>3, <4>2, <5>2
            <4> QED BY <4>3, <4>4
        <3> QED BY <3>2, <3>3
    <2> QED BY <1>1, <2>1 DEF Ascending
<1>10. FullBefore(all)
    <2>1. ASSUME NEW j \in 1 .. n + Len(new), NEW i \in 1 .. j - 1, all[i].chan = all[j].chan
          PROVE  all[i].num < all[j].num /\ full(all[i])
        <3>1. i \in 1 .. n + Len(new) /\ i < j
            BY <1>1
        <3>2. CASE j <= n
            <4>1. j \in 1 .. n /\ i <= n
                BY <1>1, <3>1, <3>2
            <4>2. all[j] = fs[j] /\ all[i] = fs[i]
                BY <1>1, <3>1, <3>2, <4>1
            <4> QED BY <1>8, <2>1, <4>1, <4>2
        <3>3. CASE ~ (j <= n) /\ i <= n
            <4>1. j - n \in 1 .. Len(new) /\ i \in 1 .. n
                BY <1>1, <3>1, <3>3
            <4>2. all[j] = new[j - n] /\ all[i] = fs[i]
                BY <1>1, <3>1, <3>3
            <4>3. all[i].chan = id /\ first <= all[j].num
                BY <1>5, <2>1, <4>1, <4>2
            <4>4. all[i].num < first /\ full(all[i])
                BY <1>9, <4>1, <4>2, <4>3
            <4>5. all[i].num \in Nat /\ all[j].num \in Nat
                BY <1>2, <4>1, <4>2
            <4> QED BY <1>4, <4>3, <4>4, <4>5, SMTT(30)
        <3>4. CASE ~ (i <= n)
            <4>1. j - n \in 1 .. Len(new) /\ i - n \in 1 .. (j - n) - 1 /\ ~ (j <= n)
                BY <1>1, <3>1, <3>4
            <4>2. all[j] = new[j - n] /\ all[i] = new[i - n]
                BY <1>1, <3>1, <3>4, <4>1
            <4> QED BY <1>5, <4>1, <4>2
        <3> QED BY <3>2, <3>3, <3>4
    <2> QED BY <1>1, <2>1 DEF FullBefore, full
<1>11. ASSUME NEW i \in 1 .. n + Len(new) PROVE all[i].chan < nextId'
    <2>1. CASE i <= n
        <3>1. i \in 1 .. n /\ all[i] = fs[i]
            BY <1>1, <2>1
        <3> DEFINE c == all[i].chan
        <3>2. c \in Nat /\ c < nextId
            BY <1>2, <1>8, <3>1
        <3> HIDE DEF c
        <3>3. c < nextId'
            BY <1>7, <3>2
        <3> QED BY <3>3 DEF c
    <2>2. CASE ~ (i <= n)
        <3>1. i - n \in 1 .. Len(new) /\ all[i] = new[i - n]
            BY <1>1, <2>2
        <3> QED BY <1>5, <3>1
    <2> QED BY <2>1, <2>2
<1>14. ASSUME Open(channelQueue'), NEW i \in 1 .. n + Len(new) PROVE all[i].chan <= now.id
    <2>1. CASE i <= n
        <3>1. i \in 1 .. n /\ all[i] = fs[i]
            BY <1>1, <2>1
        <3> QED BY <1>3, <1>6, <1>14, <3>1
    <2>2. CASE ~ (i <= n)
        <3>1. i - n \in 1 .. Len(new) /\ all[i] = new[i - n]
            BY <1>1, <2>2
        <3> QED BY <1>3, <1>5, <1>6, <1>14, <3>1
    <2> QED BY <2>1, <2>2
<1>12. ASSUME Open(channelQueue'), NEW i \in 1 .. n + Len(new), all[i].chan = now.id
       PROVE  all[i].num < now.number /\ full(all[i])
    <2>1. CASE i <= n
        <3>1. i \in 1 .. n /\ all[i] = fs[i]
            BY <1>1, <2>1
        <3>2. all[i].num < first /\ full(all[i])
            BY <1>6, <1>9, <1>12, <3>1
        <3>3. all[i].num \in Nat
            BY <1>2, <3>1
        <3> QED BY <1>4, <1>6, <1>12, <3>2, <3>3
    <2>2. CASE ~ (i <= n)
        <3>1. i - n \in 1 .. Len(new) /\ all[i] = new[i - n]
            BY <1>1, <2>2
        <3> QED BY <1>6, <1>12, <3>1
    <2> QED BY <2>1, <2>2
<1> QED BY <1>1, <1>10, <1>11, <1>12, <1>13, <1>14 DEF OrderedIn, all, full, now

\* Some of the frames, one behind the other, are in order.
LEMMA PartInOrder ==
    ASSUME NEW fs \in Seq(Frames), NEW gs \in Seq(Frames), NEW q, NEW r, NEW n,
           OrderedIn(fs, q, n), r = q \/ ~ Open(r),
           NEW at, \A i \in DOMAIN gs : at[i] \in DOMAIN fs /\ gs[i] = fs[at[i]],
           \A j \in DOMAIN gs : \A i \in 1 .. j - 1 : at[i] \in 1 .. at[j] - 1
    PROVE  OrderedIn(gs, r, n)
<1>1. FullBefore(gs)
    <2>1. ASSUME NEW j \in DOMAIN gs, NEW i \in 1 .. j - 1, gs[i].chan = gs[j].chan
          PROVE  gs[i].num < gs[j].num /\ Len(gs[i].data) = MaxData
        <3>1. i \in DOMAIN gs
            OBVIOUS
        <3>2. /\ at[j] \in DOMAIN fs /\ at[i] \in 1 .. at[j] - 1
              /\ gs[j] = fs[at[j]] /\ gs[i] = fs[at[i]]
            BY <3>1
        <3>3. fs[at[i]].chan = fs[at[j]].chan
            BY <2>1, <3>2
        <3>4. FullBefore(fs)
            BY DEF OrderedIn
        <3> QED BY ONLY <3>2, <3>3, <3>4 DEF FullBefore
    <2> QED BY <2>1 DEF FullBefore
<1>2. ASSUME NEW i \in DOMAIN gs
      PROVE  /\ gs[i].chan < n
             /\ Open(r) =>
                   /\ gs[i].chan <= Last(r).id
                   /\ gs[i].chan = Last(r).id =>
                         gs[i].num < Last(r).number /\ Len(gs[i].data) = MaxData
    BY DEF OrderedIn
<1>3. Ascending(gs)
    <2>1. ASSUME NEW j \in DOMAIN gs, NEW i \in 1 .. j - 1 PROVE gs[i].chan <= gs[j].chan
        <3>1. i \in DOMAIN gs
            OBVIOUS
        <3>2. /\ at[j] \in DOMAIN fs /\ at[i] \in 1 .. at[j] - 1
              /\ gs[j] = fs[at[j]] /\ gs[i] = fs[at[i]]
            BY <3>1
        <3>3. Ascending(fs)
            BY DEF OrderedIn
        <3> QED BY ONLY <3>2, <3>3 DEF Ascending
    <2> QED BY <2>1 DEF Ascending
<1> QED BY <1>1, <1>2, <1>3 DEF OrderedIn

\* Those in front of others are in order.
LEMMA FrontInOrder ==
    ASSUME NEW gs \in Seq(Frames), NEW t \in Seq(Frames), NEW q, NEW r, NEW n,
           OrderedIn(gs \o t, q, n), r = q \/ ~ Open(r)
    PROVE  OrderedIn(gs, r, n)
<1> DEFINE fs == gs \o t
           at == [i \in DOMAIN gs |-> i]
<1>1. fs \in Seq(Frames) /\ \A i \in DOMAIN gs : i \in DOMAIN fs /\ gs[i] = fs[i]
    <2>1. fs \in Seq(Frames)
        OBVIOUS
    <2>2. /\ Len(fs) = Len(gs) + Len(t) /\ Len(gs) \in Nat /\ Len(t) \in Nat
          /\ \A k \in 1 .. Len(gs) + Len(t) : fs[k] = IF k <= Len(gs) THEN gs[k] ELSE t[k - Len(gs)]
        BY ConcatProperties
    <2> HIDE DEF fs
    <2> QED BY <2>1, <2>2
<1>2. OrderedIn(fs, q, n)
    OBVIOUS
<1>3. \A i \in DOMAIN gs : at[i] = i
    OBVIOUS
<1>4. \A j \in DOMAIN gs : \A i \in 1 .. j - 1 : i \in DOMAIN gs
    OBVIOUS
<1> HIDE DEF fs, at
<1>5. \A i \in DOMAIN gs : at[i] \in DOMAIN fs /\ gs[i] = fs[at[i]]
    BY <1>1, <1>3
<1>6. \A j \in DOMAIN gs : \A i \in 1 .. j - 1 : at[i] \in 1 .. at[j] - 1
    BY <1>3, <1>4
<1> QED BY <1>1, <1>2, <1>5, <1>6, PartInOrder

\* With a frame less they are still in order.
LEMMA FewerInOrder ==
    ASSUME NEW s \in Seq(Frames), NEW t \in Seq(Frames), NEW x \in Frames, NEW q, NEW id,
           OrderedIn((s \o <<x>>) \o t, q, id)
    PROVE  OrderedIn(s \o t, q, id)
<1> DEFINE fs == (s \o <<x>>) \o t
           gs == s \o t
           n == Len(s)
           at == [i \in DOMAIN gs |-> IF i <= n THEN i ELSE i + 1]
<1>0. \A i \in DOMAIN gs : at[i] = IF i <= n THEN i ELSE i + 1
    OBVIOUS
<1> HIDE DEF at
<1>1. /\ n \in Nat /\ Len(t) \in Nat
      /\ DOMAIN gs = 1 .. n + Len(t)
      /\ \A k \in 1 .. n + Len(t) : gs[k] = IF k <= n THEN s[k] ELSE t[k - n]
    <2>1. n \in Nat /\ Len(t) \in Nat /\ gs \in Seq(Frames)
        OBVIOUS
    <2>2. Len(gs) = n + Len(t)
          /\ \A k \in 1 .. n + Len(t) : gs[k] = IF k <= n THEN s[k] ELSE t[k - n]
        BY ConcatProperties
    <2> HIDE DEF gs
    <2> QED BY <2>1, <2>2
<1>2. /\ DOMAIN fs = 1 .. n + 1 + Len(t)
      /\ \A k \in 1 .. n : fs[k] = s[k]
      /\ \A k \in 1 .. Len(t) : fs[n + 1 + k] = t[k]
    <2> DEFINE u == s \o <<x>>
    <2>1. u \in Seq(Frames) /\ Len(u) = n + 1 /\ \A k \in 1 .. n : u[k] = s[k]
        <3>1. u = Append(s, x)
            BY AppendIsConcat
        <3> HIDE DEF u
        <3> QED BY <3>1
    <2>2. fs = u \o t
        OBVIOUS
    <2> HIDE DEF u, fs
    <2>3. /\ fs \in Seq(Frames) /\ Len(fs) = Len(u) + Len(t)
          /\ \A k \in 1 .. Len(u) + Len(t) : fs[k] = IF k <= Len(u) THEN u[k] ELSE t[k - Len(u)]
        <3>1. t \in Seq(Frames) /\ u \in Seq(Frames)
            BY <2>1
        <3> QED BY ONLY <2>2, <3>1, ConcatProperties
    <2>4. DOMAIN fs = 1 .. n + 1 + Len(t)
        BY <2>1, <2>3
    <2>5. ASSUME NEW k \in 1 .. n PROVE fs[k] = s[k]
        BY <1>1, <2>1, <2>3
    <2>6. ASSUME NEW k \in 1 .. Len(t) PROVE fs[n + 1 + k] = t[k]
        <3>1. n + 1 + k \in 1 .. Len(u) + Len(t) /\ ~ (n + 1 + k <= Len(u)) /\ n + 1 + k - Len(u) = k
            BY <1>1, <2>1
        <3> QED BY <2>3, <3>1
    <2> QED BY <2>4, <2>5, <2>6
<1> HIDE DEF fs, gs, n
<1>3. ASSUME NEW i \in 1 .. n + Len(t)
      PROVE  at[i] \in 1 .. n + 1 + Len(t) /\ gs[i] = fs[at[i]]
    <2>1. CASE i <= n
        <3>1. i \in 1 .. n /\ at[i] = i
            BY <1>0, <1>1, <2>1
        <3> QED BY <1>1, <1>2, <2>1, <3>1
    <2>2. CASE ~ (i <= n)
        <3>5. i - n \in 1 .. Len(t) /\ n + 1 + (i - n) = i + 1
            BY <1>1, <2>2
        <3>6. at[i] = i + 1
            BY <1>0, <1>1, <2>2
        <3>1. i - n \in 1 .. Len(t) /\ n + 1 + (i - n) = i + 1 /\ at[i] = i + 1
            BY <3>5, <3>6
        <3>2. fs[n + 1 + (i - n)] = t[i - n]
            BY <1>2, <3>1
        <3>3. gs[i] = t[i - n]
            BY <1>1, <2>2
        <3>4. at[i] \in 1 .. n + 1 + Len(t)
            BY <1>1, <2>2, <3>1
        <3> QED BY <3>1, <3>2, <3>3, <3>4
    <2> QED BY <2>1, <2>2
<1>4. ASSUME NEW j \in 1 .. n + Len(t), NEW i \in 1 .. j - 1
      PROVE  at[i] \in 1 .. at[j] - 1 /\ i \in 1 .. n + Len(t)
    BY <1>0, <1>1
<1>5. OrderedIn(fs, q, id) /\ fs \in Seq(Frames) /\ gs \in Seq(Frames)
    <2>1. <<x>> \in Seq(Frames)
        OBVIOUS
    <2>2. s \o <<x>> \in Seq(Frames)
        BY <2>1
    <2>3. fs \in Seq(Frames)
        BY <2>2 DEF fs
    <2> QED BY <2>3 DEF fs, gs
<1>6. \A i \in DOMAIN gs : at[i] \in DOMAIN fs /\ gs[i] = fs[at[i]]
    BY <1>1, <1>2, <1>3
<1>7. \A j \in DOMAIN gs : \A i \in 1 .. j - 1 : at[i] \in 1 .. at[j] - 1
    BY <1>1, <1>4
<1>8. OrderedIn(gs, q, id)
    BY <1>5, <1>6, <1>7, PartInOrder
<1> QED BY <1>8 DEF gs

\* Every step of the one call keeps the order.
LEMMA OrderStep == ASSUME OrderIInv, [BatcherNext]_batcherVars PROVE OrderIInv'
<1>1. CallIInv' /\ CallIInv
    BY CallStep DEF OrderIInv
<1> SUFFICES ASSUME ~ overlapped' PROVE InOrder'
    BY <1>1 DEF OrderIInv
<1>2. /\ ~ overlapped /\ StreamTyped /\ CallsAt /\ StreamTyped'
      /\ \/ Rests
         \/ \E bs : Packs(bs)
         \/ Sends
    BY CallStep DEF OrderIInv
<1>3. InOrder /\ AllFrames \in Seq(Frames) /\ nextId \in Nat /\ nextId' \in Nat
    <2>1. InOrder
        BY <1>2 DEF OrderIInv
    <2>2. AllFrames \in Seq(Frames)
        BY <1>1, <1>2, FramesSoFar DEF CallIInv
    <2> QED BY <1>1, <2>1, <2>2 DEF CallIInv, BatcherIInv, QueueOK
<1>4. CASE Rests
    <2>1. AllFrames' = AllFrames /\ UNCHANGED <<channelQueue, nextId>>
        BY <1>4 DEF Rests, AllFrames, Waiters, BeingSent
    <2> QED BY <1>3, <2>1 DEF InOrder
<1>5. CASE \E bs : Packs(bs)
    <2>1. PICK new \in Seq(Frames) : AllFrames' = AllFrames \o new /\ FramesMade(new)
        BY <1>5 DEF Packs
    <2>2. OrderedIn(AllFrames \o new, channelQueue', nextId')
        BY <1>2, <1>3, <2>1, MoreInOrder DEF InOrder, StreamTyped
    <2> QED BY <2>1, <2>2 DEF InOrder
<1>6. CASE Sends
    <2>1. UNCHANGED <<channelQueue, nextId>>
        BY <1>6 DEF Sends
    <2>2. CASE AllFrames' = AllFrames
        BY <1>3, <2>1, <2>2 DEF InOrder
    <2>3. CASE \E s, t \in Seq(Frames), x \in Frames :
                  AllFrames = (s \o <<x>>) \o t /\ AllFrames' = s \o t
        <3>1. PICK s \in Seq(Frames), t \in Seq(Frames), x \in Frames :
                  AllFrames = (s \o <<x>>) \o t /\ AllFrames' = s \o t
            BY <2>3
        <3>2. OrderedIn((s \o <<x>>) \o t, channelQueue, nextId)
            BY <1>3, <3>1 DEF InOrder
        <3>3. OrderedIn(s \o t, channelQueue, nextId)
            BY <3>2, FewerInOrder
        <3> QED BY <2>1, <3>1, <3>3 DEF InOrder
    <2> QED BY <1>6, <2>2, <2>3 DEF Sends
<1> QED BY <1>2, <1>4, <1>5, <1>6

\* Frames of a channel leave in order, and only a last frame that is full can
\* have another of its channel behind it: a buffer that comes out at a multiple
\* of the data of a frame is the one case in which outputFrame marks a frame as
\* the last that is not (batcher.channel.out.ts).  Sends may fail.
THEOREM OneLastUnlessFull ==
    BatcherSpec =>
        [](\/ OneLastFrame
           \/ \E k \in DOMAIN AllFrames :
                 AllFrames[k].isLast /\ Len(AllFrames[k].data) = MaxData)
<1>1. BatcherInit => OrderIInv
    <2> SUFFICES ASSUME BatcherInit PROVE OrderIInv
        OBVIOUS
    <2>1. CallIInv /\ AllFrames = <<>>
        BY SentInit DEF StreamIInv
    <2>2. ~ Open(channelQueue)
        BY DEF BatcherInit, Open
    <2>3. FullBefore(<<>>) /\ Ascending(<<>>) /\ DOMAIN <<>> = {}
        BY DEF FullBefore, Ascending
    <2>4. InOrder
        BY <2>1, <2>2, <2>3 DEF InOrder, OrderedIn
    <2> QED BY <2>1, <2>4 DEF OrderIInv
<1>2. OrderIInv /\ [BatcherNext]_batcherVars => OrderIInv'
    BY OrderStep
<1>3. OrderIInv => \/ OneLastFrame
                   \/ \E k \in DOMAIN AllFrames :
                         AllFrames[k].isLast /\ Len(AllFrames[k].data) = MaxData
    <2> SUFFICES ASSUME OrderIInv, ~ overlapped,
                        ~ \E k \in DOMAIN AllFrames :
                              AllFrames[k].isLast /\ Len(AllFrames[k].data) = MaxData
                 PROVE  OneLastFrame
        BY DEF OneLastFrame
    <2> DEFINE fs == AllFrames
    <2>1. FullBefore(fs) /\ fs \in Seq(Frames)
        BY FramesSoFar DEF OrderIInv, CallIInv, InOrder, OrderedIn
    <2>2. \A k \in DOMAIN fs : fs[k].isLast => Len(fs[k].data) # MaxData
        OBVIOUS
    <2> HIDE DEF fs
    <2>3. ASSUME NEW j \in DOMAIN fs, NEW i \in 1 .. j - 1, fs[i].chan = fs[j].chan
          PROVE  fs[i].num < fs[j].num /\ ~ fs[i].isLast
        <3>1. i \in DOMAIN fs
            BY <2>1
        <3> QED BY <2>1, <2>2, <2>3, <3>1 DEF FullBefore
    <2> QED BY <2>3 DEF OneLastFrame, fs
<1> QED BY <1>1, <1>2, <1>3, PTL DEF BatcherSpec
=============================================================================
