# Libplanet rollup: TLA+ models and proofs

This directory is the formal model of the rollup node in `src/nest` and of the
contracts in `src/bridge/contracts` it works with. The node takes the blocks of
an L3 chain, publishes their data on L1, reads the data back, and proposes
output roots for the blocks it could read back.

## The system

| part | state | operations | what makes it correct |
|---|---|---|---|
| `BatcherService`, `ChannelManager`, `Channel`, `ChannelOut`, `Compressor` | flag, last stored block, waiting blocks, queue of channels with their bytes and frames | `batchStart`, `batchStop`, load a range, pack, cut, send | no byte of a block is lost, doubled or moved; one last frame per channel; everything loaded gets out |
| derivation: `DeriverService`, `BatchQueue`, `ChannelInReader`, `ChannelBank`, `FrameQueue`, `L1Retrieval`, `DataSource` | flag, L1 position, transactions at hand, frame queue, channel bank, batch reader | `derivateStart`, `derivateStop`, one pass of the loop | the complete channels on L1, each once and in order, come out; nothing on L1 makes it throw |
| block map of `DeriverService` | map, cached bounds, `deriveInit` | `handleBlock`, `checkSanity`, `deleteUntilBlockIndex`, `getBlocks` | the cache agrees with the map |
| `ProposerService` | flag, position, count of bad passes, `sequencerDown` | `proposeStart`, `proposeStop`, sequencer up and down, fallback | every proposed root is backed by data on L1; no root is refused; no block is lost |
| `LibplanetOutputOracle` and `ProposerClientManager` | list of roots, transactions on their way | `proposeL2Output` | roots go up |
| `AppService` | none of its own | `initialize`, `startRollup`, `stopRollup`, `register`, deposit watcher | a start is refused while a service runs; no deposit is minted twice |
| scans in `PublicClientManager` | none | `getLatestOutputRoots`, `getLatestOutputRootBlockIndex` | the newest root is found, and a start position at or before it |
| portal, bridge, `EvmService` | proven and finalized withdrawals, the portal's balance | deposit, prove, finalize, propose by hand | a withdrawal is paid at most once, under a root that covers it, and in the end |
| `WebController`, `WebGateway`, session store, pages | sessions by cookie, what each page shows, open sockets | render a page, post a key, five requests over the socket | a request acts, and balances are shown, for the address on the page or a key posted since it was read; every request with an amount that can be read is answered |
| L3 access, controllers, keys, configuration | none that matters here | requests, wiring | - |

The three services run in one single-threaded process and share objects: the
deriver fills the block map, the proposer inspects, prunes and empties it;
`sequencerIsDown` and `sequencerIsUp` lower the deriver's flag and start it
again. Batcher and deriver meet on L1 alone. The operator starts and stops
everything from the web page or over HTTP.

What is hard about it: every `await` lets the other services, a stop or a
start in; flags are set after an `await` and cleared while a loop waits, so two
calls of one service can be under way; the block map is judged by a cache; a
position is advanced outside the stage that read the data; transactions are
taken for done when they are sent; a restart knows only the newest root on L1;
frames may be lost, and channels left half sent. The full list, line by line,
is under "hazards" in `PROJECT.json`.

## The modules

| module | models | how |
|---|---|---|
| `BlockStore` | block map | pure operators on a record; `StoreConsistent` says what the cache means |
| `Proposer` | `ProposerService`, start and stop, output oracle | a call of `proposeStart` is an element of `Loops`; `pc[l]` names the `await` it is at; every path from one `await` to the next is one action |
| `BatchCodec` | what batcher and deriver agree on | a byte is the block it encodes, so a cut, lost or doubled byte shows; only lengths matter to the code |
| `Batcher` | the batcher | a call of `batchStart` is an element of `Batchers`; one action between two awaits; `Publish` is `ChannelManager.TxData` as a whole |
| `Deriver` | the derivation pipeline | `l1` is the chain of L1 blocks; one pass of the loop is one action, chosen by the stage that acts |
| `Pipeline` | batcher, L1, deriver together | adds mining in nonce order, stop and start, a crash, a failed send |
| `BlockStream` | what the data path promises | a writer that publishes blocks and a reader that delivers the next one |
| `OutputRootScan` | the scans of L1 for the newest root | a call is at the request for a window or has its answer; L1 grows meanwhile |
| `Bridge` | portal, bridge, oracle as seen from there, deposit watcher, requests of `EvmService`, withdrawals on L3 | an L1 transaction is one action; a request waits for the newest root, then for its transaction |
| `Rollup` | the whole node | extends `Proposer` by a batcher, an L1 and a deriver of one block a channel and two frames each, restarts from the newest root, exceptions, and an L1 that loses and takes back |
| `Web` | pages, sessions, sockets and the five requests | a handler is the list of what it still waits for; a socket knows the cookie of its handshake; an amount is one that `BigInt` reads or not |
| `ProposerProofs`, `RollupProofs`, `CodecProofs`, `BatcherProofs`, `PipelineProofs`, `OutputRootScanProofs`, `BridgeProofs`, `WebProofs` | - | theorems |
| `MCProposer`, `MCBatcher`, `MCPipeline`, `MCRollup`, `MCOutputRootScan`, `MCBridge`, `MCWeb` | - | instances for TLC |

What composes what: `Proposer` uses `BlockStore`; `Batcher` and `Deriver` both
extend `BatchCodec` and meet in `Pipeline`, which implements `BlockStream`;
`Rollup` extends `Proposer`. `Pipeline` has the data path in full detail with
the newest root fixed; `Rollup` has the roots in full detail with a data path
of two frames a block. Between them every service meets every other.

Each definition names its code in the "map" of `PROJECT.json`. Definitions
under a comment that starts with "Faulty:" are not part of any model; they are
plausible mistakes the properties are tried against.

**Atomicity.** JavaScript runs one callback to its end, so an action is all
that happens between two waits for something outside the process (an RPC, a
timer). The awaits inside one pass of the derivation loop wait for nothing
outside except the two requests to L1 (the start position, a block). A failed
derivation or proposal is an unhandled rejection, which ends the process: in
`Proposer` it is the action `Uncaught`, in `Deriver` the place "thrown", which
the property `NeverThrows` is about. The batcher catches the errors of a send
and nothing else; its other errors end the process too and are part of `Crash`.

**Abstractions.** A block is its index; comparison with L3 answers either way,
as hashes and payloads are not modelled. A channel id, 16 random bytes in the
code, is a number never used before. In `Proposer`, `Deriver` and `Bridge` the
scans of L1 for the newest root answer at once and correctly; `OutputRootScan`
shows that they do, as of the moment they begin. In `Proposer` the deriver is
the action `Deliver`, which hands over any block at any time; in `Rollup` it
hands over what complete channels on L1 hold. In `Pipeline` the proposer is
left out, so the newest root stays that of block 1 and a restart reads all of
L1 again. In `Rollup` an L1 block holds one transaction, reading it is one
step, and one derivation loop runs at a time; two of them are in `Pipeline`.
Compression does not compress in the code (it only puts a length in front) and
so neither in the model. In `Web` keys stand for addresses too, and what the
requests do to L1 and L3 is in `Bridge`; three history variables collect, for
each page, next page and call, the keys posted in its browser since the page was
read, and only properties look at them. In `Bridge` a
proof against the root of block n verifies exactly for the withdrawals up to
block n, so hashes and Merkle proofs are taken to be sound, and a root may cover
any block there is.

## What the runs show

`Proposer`:

- **proposer_single** (45,312 states): one call that nothing interrupts, five
  blocks in any order and with repetition, up to two roots on their way.
  `NeverRejected`: what it holds for submission is above everything L1 has or
  will have. `NoBlockDropped`: `getBlocks` empties the map, yet no block is
  lost on the way to its root. `DerivedGetsProposed`: in the end each block
  read off L1 is under a root, once no block is sent twice any more.
- **proposer_overlap** (967,650, the two calls being symmetric): two calls, as
  a stop and a start leave them, with crashes, roots that L1 drops, roots by
  hand and the fallback. `DataAvailable`: every block under a root is on L1,
  except under a root that was forced (`initialize`, by hand, by the fallback,
  which does run here). `RootsInFlightAvailable` says it of the roots on their
  way. `StoreOK`: the cached bounds agree with the map.

`Batcher`:

- **batcher_stream** (136,823): for one call, over stops and starts,
  `ByteStream`: frames sent and waiting, what the open channel holds and the
  blocks not packed are together exactly the bytes of the blocks loaded.
  `OneLastFrame`: no frame of a channel after its last one. `BlocksGetSent`:
  once L3 rests, everything loaded is packed and every channel that must be
  full has been sent. The sizes are such that a channel is never cut exactly at
  a frame border. And for two calls at a time, as a stop that the first has not
  seen and a start leave them, `NothingSkipped`: although either may set
  `lastStoredBlock` back under the other, no block up to it was left out. Two
  calls do load and send blocks again, lose a frame when both take one nonce,
  and fill the manager over its limit; so the other three properties do not
  hold then and are not claimed (`overlapped`).
- **batcher_boundary** finds the exception, a disagreement within the code:
  when the bytes ready in an *open* channel fill a frame exactly,
  `outputFrame` marks it last and the channel goes on. The deriver forgets a
  channel at its last frame, so the rest is never read.
- **batcher_bulk** finds that a block larger than
  `MaxEncodingBytesPerChannel` is never batched: it closes each new channel
  while that is empty, and everything behind it waits for ever.

`Pipeline`:

- **pipeline_stream** (49,550): with stops and starts, empty L1 blocks and any
  number of transactions up to two in an L1 block, batcher, L1 and deriver
  implement `BlockStream` (`ImplementsStream`): the blocks come out once each
  and in order. `StreamCatchesUp`: again and again the deriver has all there is
  on L1. The refinement maps "published" to the newest block in a channel that
  is complete on L1 and "delivered" to the last block handed over.
- **pipeline_faults** (113,391): a crash at any point and frames lost by failed
  sends. `NeverThrows`: no assertion of the deriver fails.
  `DerivesCompleteChannels`: what was derived is a prefix of the blocks in the
  complete channels, in order. `RecoversBlocks`: if no send of the last process
  fails, every block sure to be in a full channel is in the block map in the
  end.
- **pipeline_overlap** finds that a stop and a start in quick succession leave
  two derivation loops that ask for the same L1 block; its frame enters the
  channel twice, "Frame already exists" is thrown, and the process ends. The
  position moves on twice as well.

`OutputRootScan`:

- **root_scan** (144,343 states): one call of each scan while L1 grows to block
  9, with roots in any of its blocks, windows of 3 and 2 blocks, and a contract
  deployed at block 1. `FindsNewestRoot`: the root that
  `getLatestOutputRoots` returns is on L1, and none of those there when it
  began is newer. `StartsBeforeNewestRoot`: derivation starts at or before the
  newest root, and at most one window before it. `ScansEnd`: the last window,
  which is cut at the deployment, ends the loop.

`Bridge`:

- **bridge** (131,556): two deposits and two withdrawals of amounts 1 and 2,
  two requests at a time, one restart, one refused payment, one WETH minted on
  request. `PaidOnceAndCommitted`: a withdrawal is paid once and under a root
  that covers its block. `Solvent`: the portal holds the ether for all WETH and
  all withdrawals not paid yet, but for the WETH minted on request, so the
  callbacks that overlap and the restart mint nothing twice. `WithdrawalsPaid`:
  each withdrawal is paid in the end, whatever overtakes whatever and also
  after a refused payment, unless WETH was minted that nothing backs; then the
  ether may be short. The converse of `Solvent` does not hold and is
  not claimed: a deposit is not minted when the process is down, or when
  `mintWeth` answers anything but success, which `register` does not look at.

`Rollup`:

- **rollup** (318,848): three blocks; one crash, stop, loss, root by hand or
  reorganisation of up to two L1 blocks at any point, besides the exceptions of
  the services' own. `RootsBacked`: on L1 the data of every block under a root
  that was not forced is *in front of* the root; once L1 has reorganised it may
  be behind it or wait to be mined again. `EveryBlockProposed`: every block
  gets under a root in the end, after a crash or an exception anywhere in a
  pass and after a stop that a service missed. It does so too after L1 dropped a
  root (`dropped`): nobody proposes that one again, and the loop goes on from a
  position L1 does not have, but the next root makes up for it; only when it was
  the root of the latest block there is no next one. The exceptions are a frame
  lost or an L1 block taken back, and a rollup that started while a root was on
  its way or dropped, or where a root was sent by hand (`hasty`). The last is
  real: the services read the newest root on their own, at different times; if
  one is mined in between, the proposer waits below the block map for a block
  that is not sent again, and logs "Proposing delayed" for ever.
  `FallbackNeverRuns`: one call cannot reach the code at the head of
  the loop that proposes L3's tip, because `invalidSanityCount` is reset before
  it is compared.

`Web`:

- **web** (1,353,277 states, tabs, browsers, keys and calls being symmetric):
  two tabs of one browser or of two, two requests of the forms to deposit and to
  prove, two posts of a key or restarts, and broken connections. `ActsForAddressShown`: a deposit or a
  withdrawal is sent with the key of the address its page showed at the click,
  or with one that was posted in the same browser since that page was read.
  `BalancesOfAddressShown` says the same of the balances on a page, although the
  session is read again for them ten seconds later and the answer may meet the
  next page. More cannot be said: a page is made for the session as its request
  found it, its socket opens with the cookie the browser has later, and a handler
  reads the session when it needs it, so a key another tab posts meanwhile is
  used, or its balances are shown, under the old address. What is ruled out is
  the key of another browser, one the session had before the page was read, and
  balances of an earlier page. `RequestsAnswered`: a
  form whose last request had an amount that `BigInt` reads waits only while a
  handler is at that request or at one of the same form, or the connection broke,
  unless the store has forgotten the session of the socket; then the handler
  fails outside its `try` without a word. The same happens, with the session
  known, when the amount is text that `BigInt` does not read (`BigInt` is called
  outside the `try` as well, and the page checks only that the field is not
  empty): such a request is never answered, and the property says that it does
  not take the answer of another one with it.

The three runs with a counterexample are described under "findings".

**Bounds and why they are enough.** The proposer's checks compare an index
with its neighbours (position, position + 1, both ends of the map); five
indexes give a proposed prefix, a hole, blocks on both sides of it and a
repetition at once. Overlapping calls use three, where two calls, a hole and a
stale position already meet. `MaxInvalidSanity` is 0 or 1 instead of 5000: the
count saturates one above it, so both sides of the comparison are reached.
`MaxPending` bounds the roots in the mempool. In the data path, frame and
channel sizes are scaled down (a frame carries 3 to 5 bytes of data, a channel
3 to 5 encoded bytes, a block 1 to 4 bytes and a length of 1), so channels have
one to three blocks and one to three frames, batches straddle frames, and
frames straddle L1 blocks; `MaxBlocksPerChannelManager` is 3, so the limit of
the manager is hit. `MaxTip` lets at least two channels fill. `MaxBlockTxs` 2
and one empty L1 block cover the paths of `nextFrame` and `nextData` (none,
last, one of several). One crash is enough for a half sent channel in front of
its repetition. The scans' windows are 3 and 2 blocks instead of 1000 and 100:
with nine blocks there are one to four of them, the first may reach behind the
deployment, and the last is cut or not. The theorems have no such bound. In
the bridge one of two withdrawals needs both deposits, and two requests are
enough for a repeated or overtaken proof or payment. While two calls of
`batchStart` overlap, L3 stays at height 3 at most (`MaxOverlapTip`) and two
ranges may repeat a block (`MaxRepeats`): without the second bound two calls
can chase each other for ever. `MaxFaults` 1 and `MaxTakenBack` 2 let a fault
meet every state of the node, and a reorganisation reach behind a root and the
frame in front of it. In `Web`, two clicks and two changes of a session put a
change between any two reads of a request. A deposit waits for everything a
handler can wait for, a withdrawal is the same to the model, and a finalization
is the end of a deposit; proving, like the bulk transactions, needs no session
at all. The theorems have all five.

**Fairness.** Weak fairness of each service's own step (timers fire and nodes
answer), of mining, of L3 growing, and of the operator or `register` starting
what is stopped. In `Pipeline` and in `Rollup` (`HalfStarted`) one more: when
the deriver missed a stop (it sets its flag after an `await`), `startRollup` refuses with "Deriving already
started" although the batcher is stopped; the operator then stops again.
Without that the rollup stays half started for ever. `OutputRootScan` needs
only that L1 answers. In `Bridge` roots go on reaching the tip of L3 (what the
other models are about), requests and transactions get through, and whoever
wants a withdrawal asks again while it is not proved, or proved and not paid:
strongly fair, as the requests may all be busy in between. Nothing is assumed
of crashes, stops or lost frames, nor that blocks come in order. `Web` has no
liveness: a handler that waits for a receipt waits as long as L1 takes.

## What is proved

Checked by TLAPS for all values of the constants that satisfy the assumptions
in the modules (bounds are natural numbers, block 1 exists).

`ProposerProofs` begins with facts about the block map: each operator keeps
`StoreConsistent`, `DeleteUntilCorrect` says what pruning leaves, and
`SaneStoreHasNoHole` says that a consistent map that passes `checkSanity` has
every block between its bounds.

`ProposerProofs`, for any number of calls at a time and all events: type
correctness, `StoreOK`, and data availability for the roots on L1 and on their
way. `DataAvailable` is not inductive: a root is appended to the list from the
mempool, submitted from a call's local variable, taken from the map, and judged
against a position. So the inductive invariant is

    IInv == TypeOK /\ StoreOK /\ Held /\ Available

where `Held` says that the blocks in the map were derived and `Available`
that the list, the mempool, the position and every call's root are covered. The
step that matters is `TakeBlocks`: the position is covered, the map has no hole
and starts at or below position + 1, so its upper bound is covered. Each other
action only moves a covered number. Note what is *not* needed: that the
position is current. This is why the property survives crashes, dropped roots
and overlapping calls.

`ProposerProofs` again, for one call: the fallback is dead code
(`FallbackIsDead`, for all events), and without stops, crashes and roots by
hand no root is refused (`NoRejectedRoot`) and no block is lost
(`NoLostBlock`). The invariant `OneCall` adds to `IInv` that the flag
`sequencerDown` is up only within one pass while the count is 0, that the call
starts once, that the flags agree with where it is, and that the position is at
or above all roots L1 has or will have.

`RollupProofs`, for any number of blocks, calls, faults and blocks taken back:
type correctness and `RootsBacked` of the whole node, and `DataAvailable` of
`Proposer` again. Each step of `Rollup` is a step of `Proposer` (the deriver
hands over blocks that are complete on L1, the others leave its variables
alone), or ends the process, or takes an L1 block back; so the invariant `IInv`
above is kept, and it is extended by `DataRead` (the channel bank and the
derived blocks hold frames that L1 has or will have again; all of them are on
L1 as long as nothing was taken back) and `RootsInOrder` (the roots among the
L1 blocks are the outputs of the oracle, in its order). A root that is mined is
covered by derived blocks, whose frames are on L1 already: hence `RootsBacked`.

`BatcherProofs`, for all block sizes, limits and any number of calls of
`batchStart`: `BatcherTypeOK`, which says that one call never fills the channel
manager beyond `MaxBlocksPerChannelManager` and that no channel holds more than
`MaxEncodingBytesPerChannel`, and `NothingSkipped`. The invariant says of a
call that loads that everything below its next block has been loaded
(`Loading`), and that, without overlap, only one call runs and the range it
asked for is what there is room for (`OneCall`). That `ProcessBlocks` adds a
largest number of blocks needs that a set of numbers below a bound has a
largest one, proved from the well-foundedness of the naturals (`MaxOf`).

`BatcherProofs` again, of the bytes, while calls do not overlap, for all block
sizes and limits:

- `BytesKept`: if no send fails (`MayLose = FALSE`, the one hypothesis: a failed
  send loses its frame, which no retry makes up for), `ByteStream` holds. The
  invariant `StreamIInv` adds to `BatcherIInv` that queue, outbox and wire are
  sequences of typed frames (`StreamTyped`), that a call sends exactly while it
  waits for a send (`CallsAt`), and the equation itself (`Streamed`). Its step
  goes through `Publish` with the code: `ProcessBlocks` moves bytes from the
  blocks to the buffer (`ProcessBlocksStream`), cutting puts them into frames
  and leaves the rest (`OutputFramesCut`), taking a frame moves it from the
  queue to the outbox (`TakeFrameOpen`), and the sum of the three is what it was
  (`PublishStream`).
- `OneLastUnlessFull`: `OneLastFrame` holds, whether sends fail or not, or a last
  frame is exactly full. `outputFrame` takes a buffer that ends at a multiple of
  the data of a frame for the last of a channel that is still open; this is the
  boundary that the run `batcher_boundary` shows, and the theorem says that it
  is the only case. The invariant `OrderIInv` says that every frame with another
  of its channel behind it is full and has a lower number (`FullBefore`), and
  that the open channel goes on above the frames it has given (`InOrder`).

`PipelineProofs`, for all block sizes, limits, crashes, stops and lost frames,
while one call of `derivateStart` runs (two of them share the stages, and the
run of `Pipeline` has one too): `PipelineTypeOK`. A step of the pipeline is a
step of the batcher, of the deriver or of both at a crash, so the invariant
`PipeTypeIInv` joins that of the batcher to `DeriverIInv`, which says of each
place a derivation can be at what it holds: it is at one of five places and at
most one call is past the guard, the L1 block it asked for is there when it reads
it (`AtL1`), and the ids in the bank are channels with frames. L1 keeps its type
because what is mined is the front of the outbox.

`NoThrowUnlessFull`, under the same hypothesis: `NeverThrows` holds, or a last
frame on L1 is exactly full, the boundary of `batcher_boundary` again. The
deriver's assertions fail on frames, but what makes frames good is what the
batcher knew when it cut them, in another process and before crashes. The
invariant `NoThrowIInv` carries that over, in three parts:

- `ChainIInv`: L1, the outbox, the frame being sent and the queue are one chain.
  In it a frame behind another of its channel has a higher number and the one in
  front is full (`OrderedIn`), and there are, for each channel, blocks and a cut
  of their bytes of which the frame numbered n carries piece n (`Contents`). A
  step of the batcher adds at the end (`ChainCall`), mining moves the seam
  (`ChainMine`), a lost frame or a crash takes frames out, and both parts survive
  that as they say nothing of a frame that is not there (`ChainWithout`,
  `ChainCrash`).
- `PlacedIInv`: L1 is a part the deriver has begun and a part it has not; the
  frames of the first are those read, the frame in `frameQueue` and `datas`, and
  the bank holds frames read, under the ids they have.
- while no last frame is full, what the reader has is the bytes of blocks, and
  nothing has thrown.

From these: the next frame has a number above all of its channel in the bank
and none of those is a last frame (`FitsNext`), so `addFrame` accepts it; a
channel that is ready has as many frames as its last one counts, so it misses
none and its data are the bytes of its blocks (`ReadyIsWhole`); and reading a
batch off the bytes of blocks leaves the bytes of blocks (`PackedRead`).

`DerivesUnlessFull`, with the same hypothesis and the same exception:
`DerivesCompleteChannels` holds. That the deriver hands on *only* blocks of
complete channels and *all* of them up to where it has read needs the converse of
the above: what was read is all there is of a channel. The invariant
`DerivedIInv` says of the frames read, for one and the same list of them
(`Drained`):

- the bank has each channel exactly as far as the frames read have it, and a
  channel read that is not in the bank has had its last frame;
- only the newest channel can be ready, as the frames on L1 are in the order of
  their channels and none follows a last one that is not full;
- what was handed on, with the blocks left in the reader, are the blocks the
  channels read give, but for one that is ready (`HandedOn`).

Reading a batch moves a block from the reader to the block map (`DrainedDecode`),
opening a channel moves its blocks to the reader (`DrainedOpen`), and a frame
ingested adds to the newest channel, or to a newer one after which no older
channel can become complete (`OneMore`, `DrainedIngest`). At the end the channels
read are compared with those on L1: all but the newest are the same there, and
the newest too if it is complete (`GivenFirst`). A crash starts again with nothing
read, and what was handed on then is nothing. That the bytes of blocks determine
the blocks (`PackedOnce`) makes `BlocksIn`, which picks the blocks packed to some
bytes, the blocks the batcher put in (`BlocksInPacked`).

`CodecProofs` has what these need of sequences: that `FlattenSeq` of sequences
put together is the join of both (`FlattenAppend` and what follows from it), and
so for the bytes of blocks and of frames. These are inductions. The theorems of
the library on induction have an operator as a parameter, which the provers
cannot instantiate, so it is proved here with a set in its place: a set with 0
that is closed under successor has all numbers (`NatInduct`), one with `<<>>`
that is closed under `Append` has all sequences (`SeqInduct`).

`OutputRootScanProofs`, for any number of calls, interval, deployment and
height: `ScanTypeOK`, `FindsNewestRoot` and `StartsBeforeNewestRoot`. The invariant `Window`
says of a call under way that every root it may answer with is at or below the
upper end of its window and that the window is not longer than the interval. A
miss then excludes everything down to the lower end, which is the next upper
end.

`BridgeProofs`, for all deposits, withdrawals, amounts and requests: type
correctness and `PaidOnceAndCommitted`. The invariant adds that outputs rise,
that the index a request has read is on L1, that what is proved is covered by
the newest root, and that what is paid is noted as finalized. A proof against an
overtaken root is why the first two are needed.

`PortalSolvent` is `Solvent` for all amounts. The invariant counts more than the
property: the WETH there is, the events on their way to a mint and the
withdrawals not paid have their ether in the portal (`Backed`), and no event is
on its way twice, in one list or in two (`EventsOnce`). The first alone is not
inductive, as a mint takes its event off the sum once. The sums are over finite
sets of any size; that one element more adds its amount is an induction of the
same kind.

`WebProofs`, for any number of tabs, browsers, keys and handlers under way:
`WebTypeOK`, `ActsForAddressShown`, `BalancesOfAddressShown` and
`RequestsAnswered`. The invariant `WebIInv` relates four copies of a session to
the session: the page shown, the page on its way, the call and the balances on
their way. For each, the key the session has now is the copied one or was posted
since (`PagesFresh`, `LoadsFresh`, `CallsFresh`, `BalancesOwned`).
`RequestsAnswered`, of requests with a whole amount, needs that what is left of a
handler is an ending of a known kind (`StepsLeft`), that requests wait on connections only (`Connected`), and
that a handler has the session of its socket (`KnownAlike`).

Only model-checked: liveness and everything under fairness, which are out of the
prover's reach; and the safety part of the refinement `ImplementsStream` of
`Pipeline`, which has no proof yet. It speaks of the newest block in a complete
channel, so it needs that the blocks of the channels on L1 rise by one when
nothing is lost and nothing restarts, besides what `DerivedIInv` says.

## Not modelled

- Two overlapping derivations or batchers inside `Rollup`: they are in
  `Pipeline` and `Batcher`.
- An error of the batcher's requests to L3, a negative block index among them,
  is an end of the process.
- Deposits that are never minted: an event that comes while nobody watches, and
  a mint that answers something but success, are in `Bridge`, which shows that
  they never mint too much. Nothing in the code makes up for them, so there is
  no property to state.
- An L1 reorganisation in front of the deposit watcher, which takes events at the
  tip: `Bridge` has an L1 that does not reorganise, so a deposit taken back after
  its mint, or shown again in another block, is not in it. The code has nothing
  against either.
- The few seconds for which viem answers `getBlockNumber` from its cache: the
  scans of `OutputRootScan` begin at the tip there is. With the cache,
  `FindsNewestRoot` speaks of the roots there were at the cached tip.
- `loopUntilProcessAllBlocks`, which nothing calls.
- The byte layout of a frame (id, number, length, data, flag): only lengths
  matter to the code that cuts and joins them.
- Plain transfers of ether and L3 transactions sent for a test; nothing depends
  on them.
- Deployment checks, and a second node that initializes at the same time.
- HTTP controllers, keys, chains, configuration: each passes a request on or is
  a constant. The menus of the page and the logs it shows. Hashes, signatures
  and Merkle proofs are taken to be sound.

## What is left

1. A theorem that the data path implements `BlockStream` when nothing is lost, on
   the invariants of `BatcherProofs` and `PipelineProofs`.
2. An abstract bridge (a withdrawal is requested, covered, paid) that `Bridge`
   is shown to implement.
3. The byte layout of frames against a reference.
