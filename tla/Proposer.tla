------------------------------ MODULE Proposer ------------------------------
(***************************************************************************)
(* ProposerService (nest/proposer/proposer.service.ts) with the parts it   *)
(* shares state with: the block map of DeriverService, the start and stop  *)
(* of the rollup (nest/app.service.ts), and LibplanetOutputOracle on L1.   *)
(*                                                                         *)
(* The JavaScript of one process is single threaded, so what runs between  *)
(* two awaits is one action.  A call of proposeStart is one element of     *)
(* Loops, and pc says at which await it is:                                *)
(*   "idle"    not running                                                 *)
(*   "start"   reading the latest output root            (line 47)         *)
(*   "started" that read is answered, not yet resumed                      *)
(*   "sleep"   in the delay at the head of the loop      (line 59)         *)
(*   "tip"     fallback: asking L3 for its latest root   (line 62)         *)
(*   "tipRoot" fallback: submitting that root            (line 63)         *)
(*   "tipSent" fallback: L1 has it, reply on the way                       *)
(*   "verify"  comparing the taken blocks with L3        (line 98)         *)
(*   "root"    fetching and submitting the output root   (lines 103, 104)  *)
(*   "sent"    L1 has the transaction, reply on the way                    *)
(* Nothing stops two calls from being under way at once: the flag that     *)
(* would refuse the second is cleared by a stop the first has not seen.    *)
(*                                                                         *)
(* An exception in a loop is an unhandled rejection, which ends the        *)
(* process: Crash.  The environment is the deriver (Deliver, any order),   *)
(* the operator (StartRollup, StopRollup, ProposeLatest) and L1, which     *)
(* mines the submitted roots in nonce order and may lose them.             *)
(***************************************************************************)
EXTENDS BlockStore, Sequences

CONSTANTS
    Loops,               \* the calls of proposeStart
    MaxIndex,            \* bound on L3 block indexes
    MaxInvalidSanity,    \* MAX_INVALID_SANITY_COUNT
    MaxPending,          \* bound on roots waiting in the mempool of L1
    Events               \* the environment events a run allows, see EventNames

EventNames == {"operator", "crash", "manual", "drop", "redeliver"}

ASSUME ConstantsAssumption ==
    /\ MaxIndex \in Nat \ {0}
    /\ MaxInvalidSanity \in Nat
    /\ MaxPending \in Nat
    /\ Events \subseteq EventNames

VARIABLES
    batching,            \* BatcherService.batching, which startRollup consults
    deriving,            \* DeriverService.deriving
    derivateStarting,    \* derivateStart calls that have not set deriving yet
    store,               \* the block map of DeriverService
    proposing,           \* ProposerService.proposing
    sequencerDown,       \* ProposerService.sequencerDown
    latestProposed,      \* latestProposedBlockIndex
    invalidCount,        \* invalidSanityCount, saturating above the maximum
    pc,                  \* where each call of proposeStart is
    batch,               \* its local blocksInfo, or the root it submits
    pendingRoots,        \* proposeL2Output transactions not mined yet
    outputs,             \* LibplanetOutputOracle.l2Outputs, block numbers
    derived,             \* history: blocks the deriver has read off L1
    forced               \* history: roots proposed without derived blocks

flags    == <<batching, deriving, derivateStarting, proposing>>
memory   == <<sequencerDown, latestProposed, invalidCount>>
loopVars == <<pc, batch>>
chain    == <<pendingRoots, outputs>>
history  == <<derived, forced>>
vars     == <<flags, store, memory, loopVars, chain, history>>

Index    == 1 .. MaxIndex
PCs      == {"idle", "start", "started", "sleep", "tip", "tipRoot", "tipSent",
             "verify", "root", "sent"}
BatchType == [blocks : SUBSET Index, latest : 0 .. MaxIndex]
OnlyRoot(n) == [blocks |-> {}, latest |-> n]
NoBatch  == OnlyRoot(0)
Newest   == outputs[Len(outputs)]

TypeOK ==
    /\ batching \in BOOLEAN /\ deriving \in BOOLEAN
    /\ proposing \in BOOLEAN /\ sequencerDown \in BOOLEAN
    /\ derivateStarting \subseteq Loops
    /\ store \in StoreType(MaxIndex)
    /\ latestProposed \in 0 .. MaxIndex
    /\ invalidCount \in 0 .. MaxInvalidSanity + 1
    /\ pc \in [Loops -> PCs]
    /\ batch \in [Loops -> BatchType]
    /\ pendingRoots \in Seq(Index)
    /\ outputs \in Seq(Index)
    /\ outputs # <<>>
    /\ derived \subseteq Index
    /\ forced \subseteq Index

-----------------------------------------------------------------------------
\* A new process: the field initialisers of the three services.
Boot ==
    /\ batching' = FALSE
    /\ deriving' = FALSE
    /\ derivateStarting' = {}
    /\ store' = NoBlocks
    /\ proposing' = FALSE
    /\ sequencerDown' = FALSE
    /\ latestProposed' = 0
    /\ invalidCount' = 0
    /\ pc' = [l \in Loops |-> "idle"]
    /\ batch' = [l \in Loops |-> NoBatch]

\* The contracts are deployed and AppService.initialize has put the root of
\* block 1 on L1; no service is started.
Init ==
    /\ batching = FALSE
    /\ deriving = FALSE
    /\ derivateStarting = {}
    /\ store = NoBlocks
    /\ proposing = FALSE
    /\ sequencerDown = FALSE
    /\ latestProposed = 0
    /\ invalidCount = 0
    /\ pc = [l \in Loops |-> "idle"]
    /\ batch = [l \in Loops |-> NoBatch]
    /\ pendingRoots = <<>>
    /\ outputs = <<1>>
    /\ derived = {}
    /\ forced = {1}

-----------------------------------------------------------------------------
(* The operator, and AppService.register when the process starts. *)

\* startRollup: refused while any service runs.  derivateStart returns at once
\* when the L1 position is known, and else sets its flag after an await.
StartRollup(l) ==
    /\ ~ batching /\ ~ deriving /\ ~ proposing
    /\ pc[l] = "idle"
    /\ l \notin derivateStarting
    /\ batching' = TRUE
    /\ \/ deriving' = TRUE /\ UNCHANGED derivateStarting
       \/ derivateStarting' = derivateStarting \cup {l} /\ UNCHANGED deriving
    /\ pc' = [pc EXCEPT ![l] = "start"]
    /\ UNCHANGED <<proposing, store, memory, batch, chain, history>>

\* derivateStart resumes; it does not look at its flag again.
DerivateStarted(l) ==
    /\ l \in derivateStarting
    /\ derivateStarting' = derivateStarting \ {l}
    /\ deriving' = TRUE
    /\ UNCHANGED <<batching, proposing, store, memory, loopVars, chain, history>>

StopRollup ==
    /\ "operator" \in Events
    /\ batching' = FALSE
    /\ deriving' = FALSE
    /\ proposing' = FALSE
    /\ UNCHANGED <<derivateStarting, store, memory, loopVars, chain, history>>

-----------------------------------------------------------------------------
(* The deriver hands over a block. *)

\* A batcher that restarts sends blocks again, so a block may come twice.  The
\* passes that hand over a block wait for nothing outside the process, so no
\* stop comes between the look at the flag and handleBlock.
Deliver(b) ==
    /\ deriving
    /\ b \notin derived \/ "redeliver" \in Events
    /\ store' = HandleBlock(store, b)
    /\ derived' = derived \cup {b}
    /\ UNCHANGED <<flags, memory, loopVars, chain, forced>>

-----------------------------------------------------------------------------
(* L1 *)

\* proposeL2Output: a number that is not above the newest one reverts.
MineRoot ==
    /\ pendingRoots # <<>>
    /\ pendingRoots' = Tail(pendingRoots)
    /\ outputs' = IF Newest < Head(pendingRoots)
                  THEN Append(outputs, Head(pendingRoots))
                  ELSE outputs
    /\ UNCHANGED <<flags, store, memory, loopVars, history>>

DropRoots ==
    /\ "drop" \in Events
    /\ pendingRoots # <<>>
    /\ pendingRoots' = <<>>
    /\ UNCHANGED <<flags, store, memory, loopVars, outputs, history>>

\* The write of proposer.client.ts estimates the gas of the call first, and
\* throws when it would revert.
Submit(n) ==
    /\ Newest < n
    /\ Len(pendingRoots) < MaxPending
    /\ pendingRoots' = Append(pendingRoots, n)

\* The latest L3 block; every derived block was one earlier.
L3Tip == {n \in Index : \A d \in derived : d <= n}

\* GET geth/propose/outputroot
ProposeLatest(n) ==
    /\ "manual" \in Events
    /\ n \in L3Tip
    /\ Submit(n)
    /\ forced' = forced \cup {n}
    /\ UNCHANGED <<flags, store, memory, loopVars, outputs, derived>>

-----------------------------------------------------------------------------
(* proposeStart *)

ReadOracle(l) ==
    /\ pc[l] = "start"
    /\ pc' = [pc EXCEPT ![l] = "started"]
    /\ batch' = [batch EXCEPT ![l] = OnlyRoot(Newest)]
    /\ UNCHANGED <<flags, store, memory, chain, history>>

\* Sets the flag after the await: a stop that came in between is lost.
Started(l) ==
    /\ pc[l] = "started"
    /\ latestProposed' = batch[l].latest
    /\ batch' = [batch EXCEPT ![l] = NoBatch]
    /\ proposing' = TRUE
    /\ pc' = [pc EXCEPT ![l] = "sleep"]
    /\ UNCHANGED <<batching, deriving, derivateStarting, store, sequencerDown,
                   invalidCount, chain, history>>

\* The delay is over and the fallback is not taken, or it is done.
AtChecks(l) == \/ pc[l] = "sleep" /\ ~ sequencerDown
               \/ pc[l] = "tipSent"

\* while(this.proposing): back to the delay, or the end of the call.
LoopBack(l) ==
    pc' = [pc EXCEPT ![l] = IF proposing THEN "sleep" ELSE "idle"]

\* Faulty: counts on.
InvalidUnbounded(n) == n + 1

Invalid(n) == IF n > MaxInvalidSanity THEN n ELSE n + 1

NoNewBlock(l) ==
    /\ AtChecks(l)
    /\ \/ ~ store.init
       \/ /\ CheckSanity(store)
          /\ store.oldest <= latestProposed + 1
          /\ store.latest <= latestProposed
    /\ LoopBack(l)
    /\ batch' = [batch EXCEPT ![l] = NoBatch]
    /\ UNCHANGED <<flags, store, memory, chain, history>>

Recovering(l) ==
    /\ AtChecks(l)
    /\ store.init
    /\ ~ CheckSanity(store)
    /\ store' = DeleteUntil(store, latestProposed)
    /\ invalidCount' = Invalid(invalidCount)
    /\ LoopBack(l)
    /\ batch' = [batch EXCEPT ![l] = NoBatch]
    /\ UNCHANGED <<flags, sequencerDown, latestProposed, chain, history>>

InvalidRange(l) ==
    /\ AtChecks(l)
    /\ store.init
    /\ CheckSanity(store)
    /\ store.oldest > latestProposed + 1
    /\ invalidCount' = Invalid(invalidCount)
    /\ LoopBack(l)
    /\ batch' = [batch EXCEPT ![l] = NoBatch]
    /\ UNCHANGED <<flags, store, sequencerDown, latestProposed, chain, history>>

\* Faulty: does not ask whether a block is new.
TakeBlocksAgain(l) ==
    /\ AtChecks(l)
    /\ store.init
    /\ CheckSanity(store)
    /\ store.oldest <= latestProposed + 1
    /\ batch' = [batch EXCEPT ![l] = [blocks |-> store.blocks,
                                      latest |-> store.latest]]
    /\ store' = ClearStore(store)
    /\ pc' = [pc EXCEPT ![l] = "verify"]
    /\ UNCHANGED <<flags, memory, chain, history>>

TakeBlocks(l) ==
    /\ AtChecks(l)
    /\ store.init
    /\ CheckSanity(store)
    /\ store.oldest <= latestProposed + 1
    /\ store.latest > latestProposed
    /\ batch' = [batch EXCEPT ![l] = [blocks |-> store.blocks,
                                      latest |-> store.latest]]
    /\ store' = ClearStore(store)
    /\ pc' = [pc EXCEPT ![l] = "verify"]
    /\ UNCHANGED <<flags, memory, chain, history>>

\* Faulty: the count of bad passes is not reset.
VerifiedKeepsCount(l) ==
    /\ pc[l] = "verify"
    /\ pc' = [pc EXCEPT ![l] = "root"]
    /\ UNCHANGED <<flags, sequencerDown, invalidCount, store, latestProposed, batch,
                   chain, history>>

\* checkBlocksSanity: whatever it answers, the root is proposed next.
Verified(l) ==
    /\ pc[l] = "verify"
    /\ \/ UNCHANGED <<deriving, sequencerDown>>
       \/ deriving' = FALSE /\ sequencerDown' = TRUE
    /\ invalidCount' = 0
    /\ pc' = [pc EXCEPT ![l] = "root"]
    /\ UNCHANGED <<batching, derivateStarting, proposing, store, latestProposed,
                   batch, chain, history>>

SubmitRoot(l) ==
    /\ pc[l] = "root"
    /\ Submit(batch[l].latest)
    /\ pc' = [pc EXCEPT ![l] = "sent"]
    /\ UNCHANGED <<flags, store, memory, batch, outputs, history>>

\* sequencerIsDown, sequencerIsUp, or neither.  derivateStart throws when the
\* deriver runs already; the L1 position is known here.
Proposed(l) ==
    /\ pc[l] = "sent"
    /\ latestProposed' = batch[l].latest
    /\ \/ /\ invalidCount > MaxInvalidSanity
          /\ deriving' = FALSE
          /\ sequencerDown' = TRUE
       \/ /\ invalidCount <= MaxInvalidSanity
          /\ sequencerDown
          /\ ~ deriving
          /\ deriving' = TRUE
          /\ sequencerDown' = FALSE
       \/ /\ invalidCount <= MaxInvalidSanity
          /\ ~ sequencerDown
          /\ UNCHANGED <<deriving, sequencerDown>>
    /\ batch' = [batch EXCEPT ![l] = NoBatch]
    /\ LoopBack(l)
    /\ UNCHANGED <<batching, derivateStarting, proposing, store, invalidCount,
                   chain, history>>

-----------------------------------------------------------------------------
(* The fallback at the head of the loop: propose what L3 has, derived or not. *)

WakeDown(l) ==
    /\ pc[l] = "sleep"
    /\ sequencerDown
    /\ pc' = [pc EXCEPT ![l] = "tip"]
    /\ UNCHANGED <<flags, store, memory, batch, chain, history>>

ReadTip(l, n) ==
    /\ pc[l] = "tip"
    /\ n \in L3Tip
    /\ batch' = [batch EXCEPT ![l] = OnlyRoot(n)]
    /\ pc' = [pc EXCEPT ![l] = "tipRoot"]
    /\ UNCHANGED <<flags, store, memory, chain, history>>

SubmitTip(l) ==
    /\ pc[l] = "tipRoot"
    /\ Submit(batch[l].latest)
    /\ forced' = forced \cup {batch[l].latest}
    /\ pc' = [pc EXCEPT ![l] = "tipSent"]
    /\ UNCHANGED <<flags, store, memory, batch, outputs, derived>>

-----------------------------------------------------------------------------
(* The end of the process. *)

\* An exception of the loop's own making: a root that would revert, or
\* "Already deriving" out of sequencerIsUp.
Throws(l) ==
    \/ pc[l] \in {"root", "tipRoot"} /\ batch[l].latest <= Newest
    \/ /\ pc[l] = "sent"
       /\ invalidCount <= MaxInvalidSanity
       /\ sequencerDown
       /\ deriving

Uncaught(l) ==
    /\ Throws(l)
    /\ Boot
    /\ UNCHANGED <<chain, history>>

\* An RPC that fails at any await, or the machine going down.
Crash ==
    /\ "crash" \in Events
    /\ Boot
    /\ UNCHANGED <<chain, history>>

-----------------------------------------------------------------------------
LoopStep(l) ==
    \/ ReadOracle(l) \/ Started(l)
    \/ NoNewBlock(l) \/ Recovering(l) \/ InvalidRange(l) \/ TakeBlocks(l)
    \/ Verified(l) \/ SubmitRoot(l) \/ Proposed(l)
    \/ WakeDown(l) \/ (\E n \in Index : ReadTip(l, n)) \/ SubmitTip(l)
    \/ Uncaught(l)

Next ==
    \/ \E l \in Loops : StartRollup(l) \/ DerivateStarted(l) \/ LoopStep(l)
    \/ \E b \in Index : Deliver(b) \/ ProposeLatest(b)
    \/ StopRollup \/ MineRoot \/ DropRoots \/ Crash

Spec == Init /\ [][Next]_vars

\* Timers fire, RPCs are answered and the process is started; L1 mines; and
\* the deriver, while it runs, gets to every block.
Fairness ==
    /\ \A l \in Loops : /\ WF_vars(StartRollup(l))
                        /\ WF_vars(DerivateStarted(l))
                        /\ WF_vars(LoopStep(l))
    /\ \A b \in Index : WF_vars(b \notin derived /\ Deliver(b))
    /\ WF_vars(MineRoot)

FairSpec == Spec /\ Fairness

-----------------------------------------------------------------------------
(* What the component promises. *)

\* The block map and the bounds cached beside it never disagree, however the
\* deriver and the calls of proposeStart interleave (deriver.service.ts).
StoreOK == StoreConsistent(store)

\* Every block up to n was read off L1, or a root at or above it was proposed
\* without reading L1: at initialization, by hand, or by the fallback.
CoveredBy(n, blocks, roots) ==
    \A i \in 1 .. n : i \in blocks \/ \E f \in roots : i <= f

Covered(n) == CoveredBy(n, derived, forced)

\* Data availability: the data of every block under an output root is on L1,
\* except under a root that was forced.  This is what the checks at lines
\* 66 to 89 of proposer.service.ts are for, and it survives crashes, lost
\* roots, redelivery and overlapping calls.
DataAvailable == \A k \in 1 .. Len(outputs) : Covered(outputs[k])

\* The same for roots on their way to L1 and for the position the checks
\* compare with.
RootsInFlightAvailable ==
    /\ \A k \in 1 .. Len(pendingRoots) : Covered(pendingRoots[k])
    /\ Covered(latestProposed)
    /\ \A l \in Loops :
          pc[l] \in {"started", "root", "sent", "verify"} => Covered(batch[l].latest)

\* With one call of proposeStart that nothing interrupts, the root the call is
\* about to submit is above all roots L1 has or will have: the proposer never
\* meets "Invalid block number" (LibplanetOutputOracle.sol line 28) of its own
\* making.
NeverRejected ==
    \A l \in Loops : pc[l] \in {"verify", "root"} =>
        /\ batch[l].latest > Newest
        /\ \A k \in 1 .. Len(pendingRoots) : batch[l].latest > pendingRoots[k]

\* getBlocks empties the map, so what it returns exists only in the call: a
\* block read off L1 is in the map, in a call on its way to a root, or under
\* the root proposed last.  True of one call that nothing interrupts; after a
\* stop and a start the position is read from L1 again and may be older.
NoBlockDropped ==
    \A b \in derived : \/ b \in store.blocks
                       \/ b <= latestProposed
                       \/ \E l \in Loops : b \in batch[l].blocks

\* One call cannot take the fallback of lines 61 to 64, whatever faults there
\* are: the iteration that declares the sequencer down always declares it up
\* again before the next delay.
FallbackNeverRuns == \A l \in Loops : pc[l] = "sleep" => ~ sequencerDown

\* Once no block is sent twice any more, every block read off L1 ends up under
\* a root on L1, in whatever order the blocks come and however often the
\* comparison with L3 fails.
DerivedGetsProposed ==
    <>[][\A b \in derived : ~ Deliver(b)]_vars
       => \A b \in Index : (b \in derived) ~> (b <= Newest)

=============================================================================
