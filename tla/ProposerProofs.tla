--------------------------- MODULE ProposerProofs ---------------------------
(***************************************************************************)
(* What holds of Proposer for every number of calls, every bound and every *)
(* choice of environment events.                                           *)
(***************************************************************************)
EXTENDS Proposer, WellFoundedInduction, TLAPS, SequenceTheorems

-----------------------------------------------------------------------------
(* The block map: each operator keeps the type and the agreement of the map *)
(* with its cached bounds, and a store that passes checkSanity holds every  *)
(* block between them.                                                      *)

\* A nonempty set of naturals has a least element.
LEMMA LeastElement ==
    ASSUME NEW T \in SUBSET Nat, T # {}
    PROVE  \E x \in T : \A y \in T : x <= y
<1>1. \E x \in T : \A y \in T : ~ (<<y, x>> \in OpToRel(<, Nat))
    BY NatLessThanWellFounded, WFMin
<1>2. \A x, y \in Nat : <<y, x>> \in OpToRel(<, Nat) <=> y < x
    BY DEF OpToRel
<1>3. PICK x \in T : \A y \in T : ~ (<<y, x>> \in OpToRel(<, Nat))
    BY <1>1
<1>4. \A y \in T : ~ (y < x)
    BY <1>2, <1>3
<1> QED BY <1>4

\* handleBlock keeps the type of the store.
LEMMA HandleBlockType ==
    ASSUME NEW max \in Nat, NEW st \in StoreType(max), NEW b \in 1 .. max
    PROVE  HandleBlock(st, b) \in StoreType(max)
BY DEF HandleBlock, StoreType

\* handleBlock keeps the cached bounds equal to the bounds of the map.
LEMMA HandleBlockConsistent ==
    ASSUME NEW max \in Nat, NEW st \in StoreType(max), NEW b \in 1 .. max,
           StoreConsistent(st)
    PROVE  StoreConsistent(HandleBlock(st, b))
BY DEF HandleBlock, StoreType, StoreConsistent

\* getBlocks leaves a well-formed empty store.
LEMMA ClearStoreCorrect ==
    ASSUME NEW max \in Nat, NEW st \in StoreType(max)
    PROVE  /\ ClearStore(st) \in StoreType(max)
           /\ StoreConsistent(ClearStore(st))
BY DEF ClearStore, StoreType, StoreConsistent

\* What deleteUntilBlockIndex returns, case by case, in a consistent store: a
\* block survives exactly when it is above n, and when one does the new lower
\* bound is the least survivor.
LEMMA DeleteUntilCases ==
    ASSUME NEW max \in Nat, NEW st \in StoreType(max), NEW n \in 0 .. max,
           StoreConsistent(st), st.blocks # {}, st.oldest <= n,
           \E b \in st.blocks : b > n
    PROVE  \E i \in st.blocks :
              /\ i > n
              /\ \A b \in st.blocks : b > n => i <= b
              /\ DeleteUntil(st, n) =
                    [blocks |-> st.blocks \ (st.oldest .. n), init |-> st.init,
                     oldest |-> i, latest |-> st.latest]
<1> DEFINE rest == st.blocks \ (st.oldest .. n)
<1>1. st.blocks \subseteq Nat /\ st.oldest \in Nat /\ st.latest \in Nat /\ n \in Nat
    BY DEF StoreType
<1>2. rest \subseteq Nat /\ rest # {} /\ \A b \in st.blocks : b \in rest <=> b > n
    BY <1>1 DEF StoreConsistent
<1>3. PICK i \in rest : \A y \in rest : i <= y
    BY <1>2, LeastElement
<1>4. i \in Nat /\ i > n /\ i <= st.latest
    BY <1>1, <1>2, <1>3 DEF StoreConsistent
<1>5. IsFirstAfter(st, n, i)
    BY <1>1, <1>2, <1>3, <1>4 DEF IsFirstAfter
<1>6. \A j \in rest : IsFirstAfter(st, n, j) => j = i
  <2> SUFFICES ASSUME NEW j \in rest, IsFirstAfter(st, n, j) PROVE j = i
      OBVIOUS
  <2>1. j \in Nat /\ j > n /\ i <= j
      BY <1>1, <1>2, <1>3
  <2>2. ~ i \in n + 1 .. j - 1
      BY <1>3 DEF IsFirstAfter
  <2> QED BY <2>1, <2>2, <1>1, <1>4
<1>7. (CHOOSE j \in rest : IsFirstAfter(st, n, j)) = i
    BY <1>3, <1>5, <1>6
<1>8. ~ Untouched(st) /\ ~ (st.oldest > n)
    BY <1>1 DEF Untouched
<1>9. DeleteUntil(st, n) = [blocks |-> rest, init |-> st.init,
                                oldest |-> i, latest |-> st.latest]
    BY <1>2, <1>3, <1>5, <1>7, <1>8 DEF DeleteUntil
<1> QED BY <1>2, <1>3, <1>4, <1>9

\* deleteUntilBlockIndex keeps the type, the agreement of the bounds, and adds
\* no block.
LEMMA DeleteUntilCorrect ==
    ASSUME NEW max \in Nat, NEW st \in StoreType(max), NEW n \in 0 .. max,
           StoreConsistent(st)
    PROVE  /\ DeleteUntil(st, n) \in StoreType(max)
           /\ StoreConsistent(DeleteUntil(st, n))
           /\ DeleteUntil(st, n).blocks \subseteq st.blocks
           /\ \A b \in st.blocks : b > n => b \in DeleteUntil(st, n).blocks
<1>1. CASE Untouched(st) \/ st.oldest > n
    BY <1>1 DEF DeleteUntil
<1>2. CASE ~ (Untouched(st) \/ st.oldest > n) /\ ~ \E b \in st.blocks : b > n
  <2>1. st.blocks \ (st.oldest .. n) = {}
      BY <1>2 DEF StoreType, StoreConsistent
  <2>2. DeleteUntil(st, n) = [blocks |-> {}, init |-> FALSE, oldest |-> n, latest |-> n]
      BY <1>2, <2>1 DEF DeleteUntil
  <2> QED BY <1>2, <2>2 DEF StoreType, StoreConsistent
<1>3. CASE ~ (Untouched(st) \/ st.oldest > n) /\ \E b \in st.blocks : b > n
  <2>1. st.oldest <= n
      BY <1>3 DEF StoreType
  <2>2. PICK i \in st.blocks :
              /\ i > n
              /\ \A b \in st.blocks : b > n => i <= b
              /\ DeleteUntil(st, n) =
                    [blocks |-> st.blocks \ (st.oldest .. n), init |-> st.init,
                     oldest |-> i, latest |-> st.latest]
      BY <1>3, <2>1, DeleteUntilCases
  <2> DEFINE new == DeleteUntil(st, n)
  <2>3. /\ new.blocks = st.blocks \ (st.oldest .. n)
        /\ new.oldest = i /\ new.latest = st.latest /\ new.init = st.init
        /\ new \in StoreType(max)
      BY <2>2 DEF StoreType
  <2>4. \A b \in st.blocks : b \in new.blocks <=> b > n
      BY <2>1, <2>3 DEF StoreType, StoreConsistent
  <2>5. st.init /\ st.latest \in st.blocks /\ st.latest > n
      BY <2>2 DEF StoreType, StoreConsistent
  <2>6. StoreConsistent(new)
      BY <2>2, <2>3, <2>4, <2>5 DEF StoreType, StoreConsistent
  <2> QED BY <2>3, <2>4, <2>6
<1> QED BY <1>1, <1>2, <1>3

\* A store that holds a block and passes checkSanity holds every block between
\* its bounds: what the proposer relies on when it takes the blocks.
LEMMA SaneStoreHasNoHole ==
    ASSUME NEW st, StoreConsistent(st), st.init, CheckSanity(st)
    PROVE  st.blocks = st.oldest .. st.latest
BY DEF StoreConsistent, CheckSanity, Untouched

-----------------------------------------------------------------------------
(* The proposer. *)

USE ConstantsAssumption DEF Index

-----------------------------------------------------------------------------
(* Type correctness. *)

\* The records the loop and a new process start from have their types.
LEMMA BatchTypes ==
    /\ NoBatch \in BatchType
    /\ \A n \in Index : OnlyRoot(n) \in BatchType
    /\ NoBlocks \in StoreType(MaxIndex)
BY DEF NoBatch, OnlyRoot, BatchType, NoBlocks, StoreType

\* The type invariant holds at the start.
LEMMA InitType == Init => TypeOK
<1> SUFFICES ASSUME Init PROVE TypeOK
    OBVIOUS
<1>1. outputs \in Seq(Index) /\ outputs # <<>> /\ pendingRoots \in Seq(Index)
    BY DEF Init
<1>2. batch \in [Loops -> BatchType] /\ store \in StoreType(MaxIndex)
    BY BatchTypes DEF Init
<1>3. pc \in [Loops -> PCs]
    BY DEF Init, PCs
<1>4. 0 \in 0 .. MaxInvalidSanity + 1 /\ 0 \in 0 .. MaxIndex /\ 1 \in Index
    OBVIOUS
<1> QED BY <1>1, <1>2, <1>3, <1>4 DEF Init, TypeOK

\* The end of the process, by a crash or an exception, keeps the type.
LEMMA BootType == Boot /\ UNCHANGED <<chain, history>> /\ TypeOK => TypeOK'
<1> SUFFICES ASSUME Boot, UNCHANGED <<chain, history>>, TypeOK PROVE TypeOK'
    OBVIOUS
<1>1. batch' \in [Loops -> BatchType] /\ store' \in StoreType(MaxIndex)
    BY BatchTypes DEF Boot
<1>2. pc' \in [Loops -> PCs]
    BY DEF Boot, PCs
<1>3. 0 \in 0 .. MaxInvalidSanity + 1 /\ 0 \in 0 .. MaxIndex
    OBVIOUS
<1> QED BY <1>1, <1>2, <1>3 DEF Boot, chain, history, TypeOK

\* L1 always has a newest output root.
LEMMA NewestType == TypeOK => Newest \in Index
BY DEF TypeOK, Newest

\* Every step keeps the type.  The store is needed consistent because the
\* bounds deleteUntilBlockIndex leaves are bounds of blocks.
LEMMA TypeStep == TypeOK /\ StoreOK /\ [Next]_vars => TypeOK'
<1> SUFFICES ASSUME TypeOK, StoreOK, [Next]_vars PROVE TypeOK'
    OBVIOUS
<1>1. ASSUME NEW l \in Loops, StartRollup(l) PROVE TypeOK'
    BY <1>1 DEF TypeOK, StartRollup, memory, chain, history, PCs
<1>2. ASSUME NEW l \in Loops, DerivateStarted(l) PROVE TypeOK'
    BY <1>2 DEF TypeOK, DerivateStarted, memory, loopVars, chain, history
<1>3. ASSUME NEW l \in Loops, ReadOracle(l) PROVE TypeOK'
    BY <1>3, NewestType, BatchTypes DEF TypeOK, ReadOracle, flags, memory, chain, history, PCs
<1>4. ASSUME NEW l \in Loops, Started(l) PROVE TypeOK'
    BY <1>4, BatchTypes DEF TypeOK, Started, BatchType, chain, history, PCs
<1>5. ASSUME NEW l \in Loops, NoNewBlock(l) PROVE TypeOK'
    BY <1>5, BatchTypes DEF TypeOK, NoNewBlock, LoopBack, flags, memory, chain,
                history, PCs
<1>6. ASSUME NEW l \in Loops, Recovering(l) PROVE TypeOK'
  <2>1. store' \in StoreType(MaxIndex)
      BY <1>6, DeleteUntilCorrect DEF TypeOK, StoreOK, Recovering
  <2> QED BY <1>6, <2>1, BatchTypes DEF TypeOK, Recovering, LoopBack, Invalid,
                            flags, chain, history, PCs
<1>7. ASSUME NEW l \in Loops, InvalidRange(l) PROVE TypeOK'
    BY <1>7, BatchTypes DEF TypeOK, InvalidRange, LoopBack, Invalid, flags, chain,
                history, PCs
<1>8. ASSUME NEW l \in Loops, TakeBlocks(l) PROVE TypeOK'
  <2>1. store' \in StoreType(MaxIndex)
      BY <1>8, ClearStoreCorrect DEF TypeOK, TakeBlocks
  <2>2. [blocks |-> store.blocks, latest |-> store.latest]
            \in BatchType
      BY DEF TypeOK, StoreType, BatchType
  <2> QED BY <1>8, <2>1, <2>2 DEF TypeOK, TakeBlocks, flags, memory, chain,
                                  history, PCs
<1>9. ASSUME NEW l \in Loops, Verified(l) PROVE TypeOK'
  <2>1. deriving' \in BOOLEAN /\ sequencerDown' \in BOOLEAN
      BY <1>9 DEF TypeOK, Verified
  <2> QED BY <1>9, <2>1 DEF TypeOK, Verified, chain, history, PCs
<1>10. ASSUME NEW l \in Loops, SubmitRoot(l) PROVE TypeOK'
  <2>1. batch[l].latest \in Index
      BY <1>10, NewestType DEF TypeOK, BatchType, SubmitRoot, Submit
  <2>2. pendingRoots' \in Seq(Index)
      BY <1>10, <2>1 DEF TypeOK, SubmitRoot, Submit
  <2> QED BY <1>10, <2>2 DEF TypeOK, SubmitRoot, flags, memory, history, PCs
<1>11. ASSUME NEW l \in Loops, Proposed(l) PROVE TypeOK'
  <2>1. deriving' \in BOOLEAN /\ sequencerDown' \in BOOLEAN
      BY <1>11 DEF TypeOK, Proposed
  <2>2. latestProposed' \in 0 .. MaxIndex /\ batch' \in [Loops -> BatchType]
      BY <1>11, BatchTypes DEF TypeOK, Proposed, BatchType
  <2> QED BY <1>11, <2>1, <2>2 DEF TypeOK, Proposed, LoopBack, chain, history, PCs
<1>12. ASSUME NEW l \in Loops, WakeDown(l) PROVE TypeOK'
    BY <1>12 DEF TypeOK, WakeDown, flags, memory, chain, history, PCs
<1>13. ASSUME NEW l \in Loops, NEW n \in Index, ReadTip(l, n) PROVE TypeOK'
    BY <1>13, BatchTypes DEF TypeOK, ReadTip, flags, memory, chain, history, PCs
<1>14. ASSUME NEW l \in Loops, SubmitTip(l) PROVE TypeOK'
  <2>1. batch[l].latest \in Index
      BY <1>14, NewestType DEF TypeOK, BatchType, SubmitTip, Submit
  <2>2. pendingRoots' \in Seq(Index)
      BY <1>14, <2>1 DEF TypeOK, SubmitTip, Submit
  <2>3. forced' \subseteq Index
      BY <1>14, <2>1 DEF TypeOK, SubmitTip
  <2> QED BY <1>14, <2>2, <2>3 DEF TypeOK, SubmitTip, flags, memory, PCs
<1>15. ASSUME NEW l \in Loops, Uncaught(l) PROVE TypeOK'
    BY <1>15, BootType DEF Uncaught
<1>16. ASSUME NEW b \in Index, Deliver(b) PROVE TypeOK'
  <2>1. store' \in StoreType(MaxIndex)
      BY <1>16, HandleBlockType DEF TypeOK, Deliver
  <2> QED BY <1>16, <2>1 DEF TypeOK, Deliver, flags, memory, loopVars, chain
<1>17. ASSUME NEW n \in Index, ProposeLatest(n) PROVE TypeOK'
    BY <1>17 DEF TypeOK, ProposeLatest, Submit, flags, memory, loopVars
<1>18. CASE StopRollup
    BY <1>18 DEF TypeOK, StopRollup, memory, loopVars, chain, history
<1>19. CASE MineRoot
  <2>1. Head(pendingRoots) \in Index /\ Tail(pendingRoots) \in Seq(Index)
      BY <1>19 DEF TypeOK, MineRoot
  <2>2. outputs' \in Seq(Index) /\ outputs' # <<>>
    <3>1. /\ Append(outputs, Head(pendingRoots)) \in Seq(Index)
          /\ Append(outputs, Head(pendingRoots)) # <<>>
        BY <2>1, AppendProperties, SMTT(30) DEF TypeOK
    <3> QED BY <1>19, <3>1 DEF TypeOK, MineRoot
  <2> QED BY <1>19, <2>1, <2>2 DEF TypeOK, MineRoot, flags, memory, loopVars, history
<1>20. CASE DropRoots
    BY <1>20 DEF TypeOK, DropRoots, flags, memory, loopVars, history
<1>21. CASE Crash
    BY <1>21, BootType DEF Crash
<1>22. CASE UNCHANGED vars
    BY <1>22 DEF TypeOK, vars, flags, memory, loopVars, chain, history
<1> QED BY <1>1, <1>2, <1>3, <1>4, <1>5, <1>6, <1>7, <1>8, <1>9, <1>10, <1>11,
           <1>12, <1>13, <1>14, <1>15, <1>16, <1>17, <1>18, <1>19, <1>20,
           <1>21, <1>22 DEF Next, LoopStep

-----------------------------------------------------------------------------
(* The block map: its cached bounds are right, and all it holds was read off *)
(* L1.                                                                       *)

Held == store.blocks \subseteq derived

\* The actions that do not touch the block map.
LEMMA StoreFrame ==
    ASSUME StoreOK, Held, store' = store, derived \subseteq derived'
    PROVE  StoreOK' /\ Held'
BY DEF StoreOK, Held

\* The map of a new process is consistent and empty.
LEMMA StoreBoot ==
    ASSUME Boot, UNCHANGED history
    PROVE  StoreOK' /\ Held'
BY DEF Boot, StoreOK, Held, StoreConsistent, NoBlocks

\* Every step keeps the block map consistent and made of derived blocks: the
\* steps that touch it are Deliver, Recovering and TakeBlocks.
LEMMA StoreStep ==
    TypeOK /\ StoreOK /\ Held /\ [Next]_vars => StoreOK' /\ Held'
<1> SUFFICES ASSUME TypeOK, StoreOK, Held, [Next]_vars PROVE StoreOK' /\ Held'
    OBVIOUS
<1>1. ASSUME NEW l \in Loops, Recovering(l) PROVE StoreOK' /\ Held'
    BY <1>1, DeleteUntilCorrect DEF TypeOK, StoreOK, Held, Recovering, history
<1>2. ASSUME NEW l \in Loops, TakeBlocks(l) PROVE StoreOK' /\ Held'
  <2>1. store' = ClearStore(store) /\ store'.blocks = {}
      BY <1>2 DEF TypeOK, TakeBlocks, ClearStore, StoreType
  <2> QED BY <2>1, ClearStoreCorrect DEF TypeOK, StoreOK, Held
<1>3. ASSUME NEW b \in Index, Deliver(b) PROVE StoreOK' /\ Held'
  <2>1. store'.blocks = store.blocks \cup {b} /\ derived' = derived \cup {b}
      BY <1>3 DEF Deliver, HandleBlock
  <2>2. StoreOK'
      BY <1>3, HandleBlockConsistent DEF TypeOK, StoreOK, Deliver
  <2> QED BY <2>1, <2>2 DEF Held
<1>4. ASSUME NEW l \in Loops,
             \/ StartRollup(l) \/ DerivateStarted(l) \/ ReadOracle(l)
             \/ Started(l) \/ NoNewBlock(l) \/ InvalidRange(l) \/ Verified(l)
             \/ SubmitRoot(l) \/ Proposed(l) \/ WakeDown(l) \/ SubmitTip(l)
             \/ \E n \in Index : ReadTip(l, n)
      PROVE  StoreOK' /\ Held'
    BY <1>4, StoreFrame DEF StartRollup, DerivateStarted, ReadOracle, Started,
        NoNewBlock, InvalidRange, Verified, SubmitRoot, Proposed, WakeDown,
        SubmitTip, ReadTip, history
<1>5. ASSUME NEW l \in Loops, Uncaught(l) PROVE StoreOK' /\ Held'
    BY <1>5, StoreBoot DEF Uncaught, history
<1>6. ASSUME NEW n \in Index, ProposeLatest(n) PROVE StoreOK' /\ Held'
    BY <1>6, StoreFrame DEF ProposeLatest
<1>7. CASE StopRollup \/ MineRoot \/ DropRoots \/ UNCHANGED vars
    BY <1>7, StoreFrame DEF StopRollup, MineRoot, DropRoots, vars, history
<1>8. CASE Crash
    BY <1>8, StoreBoot DEF Crash, history
<1> QED BY <1>1, <1>2, <1>3, <1>4, <1>5, <1>6, <1>7, <1>8 DEF Next, LoopStep

-----------------------------------------------------------------------------
(* Data availability. *)

\* More derived blocks or forced roots never uncover a root.
LEMMA CoveredMonotone ==
    ASSUME NEW n, NEW B, NEW F, NEW B2, NEW F2, B \subseteq B2, F \subseteq F2,
           CoveredBy(n, B, F)
    PROVE  CoveredBy(n, B2, F2)
BY DEF CoveredBy

\* A store that starts no higher than one above a covered block extends it.
LEMMA CoveredExtends ==
    ASSUME NEW n \in Nat, NEW lo \in Nat, NEW hi \in Nat, NEW B, NEW F,
           CoveredBy(n, B, F), lo <= n + 1, lo .. hi \subseteq B
    PROVE  CoveredBy(hi, B, F)
<1> SUFFICES ASSUME NEW i \in 1 .. hi
             PROVE  i \in B \/ \E f \in F : i <= f
    BY DEF CoveredBy
<1>1. CASE i <= n
    BY <1>1 DEF CoveredBy
<1>2. CASE i > n
    BY <1>2
<1> QED BY <1>1, <1>2

\* A forced root is covered by itself.
LEMMA CoveredForced ==
    ASSUME NEW n \in Nat, NEW B, NEW F, n \in F
    PROVE  CoveredBy(n, B, F)
BY DEF CoveredBy

\* There is no block up to 0.
LEMMA CoveredZero == \A B, F : CoveredBy(0, B, F)
BY DEF CoveredBy

Available == DataAvailable /\ RootsInFlightAvailable

\* What proposeStart and the batcher read from L1 at their start is covered.
LEMMA NewestCovered == TypeOK /\ DataAvailable => Covered(Newest)
BY DEF TypeOK, DataAvailable, Newest

\* A new process has no root in flight.
LEMMA AvailableBoot ==
    ASSUME Available, Boot, UNCHANGED <<chain, history>>
    PROVE  Available'
BY CoveredZero DEF Available, DataAvailable, RootsInFlightAvailable, Boot, chain,
    history, Covered

\* A step that leaves the roots, the derived blocks and the position alone, and
\* takes no call into a place where it holds a root.
LEMMA AvailableFrame ==
    ASSUME Available, UNCHANGED <<chain, history, latestProposed>>,
           \A l \in Loops :
              pc'[l] \in {"started", "root", "sent", "verify"} =>
                 /\ pc[l] \in {"started", "root", "sent", "verify"}
                 /\ batch'[l].latest = batch[l].latest
    PROVE  Available'
BY DEF Available, DataAvailable, RootsInFlightAvailable, chain, history, Covered

\* A root joins the mempool.
LEMMA AvailableSubmit ==
    ASSUME TypeOK, Available, NEW n \in Index, Submit(n),
           UNCHANGED <<outputs, derived, latestProposed, batch>>,
           forced \subseteq forced', CoveredBy(n, derived', forced'),
           \A l \in Loops : pc'[l] # pc[l] =>
              \/ pc'[l] = "tipSent"
              \/ pc'[l] = "sent" /\ pc[l] = "root"
    PROVE  Available'
<1>1. \A m : Covered(m) => CoveredBy(m, derived', forced')
    BY CoveredMonotone DEF Covered
<1>2. Len(pendingRoots') = Len(pendingRoots) + 1 /\ pendingRoots'[Len(pendingRoots) + 1] = n
      /\ \A k \in 1 .. Len(pendingRoots) : pendingRoots'[k] = pendingRoots[k]
    BY DEF TypeOK, Submit
<1>3. \A k \in 1 .. Len(pendingRoots') : CoveredBy(pendingRoots'[k], derived', forced')
  <2> SUFFICES ASSUME NEW k \in 1 .. Len(pendingRoots')
               PROVE  CoveredBy(pendingRoots'[k], derived', forced')
      OBVIOUS
  <2>1. CASE k = Len(pendingRoots) + 1
      BY <1>2, <2>1
  <2>2. CASE k \in 1 .. Len(pendingRoots)
      BY <1>1, <1>2, <2>2 DEF Available, RootsInFlightAvailable
  <2> QED BY <1>2, <2>1, <2>2, SMTT(30) DEF TypeOK
<1>4. \A k \in 1 .. Len(outputs') : CoveredBy(outputs'[k], derived', forced')
    BY <1>1 DEF Available, DataAvailable
<1>5. CoveredBy(latestProposed', derived', forced')
    BY <1>1 DEF Available, RootsInFlightAvailable
<1>6. \A l \in Loops : pc'[l] \in {"started", "root", "sent", "verify"} =>
          CoveredBy(batch'[l].latest, derived', forced')
    BY <1>1 DEF Available, RootsInFlightAvailable
<1> QED BY <1>3, <1>4, <1>5, <1>6 DEF Available, DataAvailable,
            RootsInFlightAvailable, Covered

\* Every step keeps the data of all roots available.  The step that matters is
\* TakeBlocks: the checks in front of it are what makes the new root covered.
LEMMA AvailableStep ==
    TypeOK /\ StoreOK /\ Held /\ Available /\ [Next]_vars => Available'
<1> SUFFICES ASSUME TypeOK, StoreOK, Held, Available, [Next]_vars
             PROVE  Available'
    OBVIOUS
<1>1. ASSUME NEW l \in Loops,
             \/ StartRollup(l) \/ DerivateStarted(l) \/ NoNewBlock(l)
             \/ Recovering(l) \/ InvalidRange(l) \/ WakeDown(l)
             \/ \E n \in Index : ReadTip(l, n)
      PROVE  Available'
  <2>1. UNCHANGED <<chain, history, latestProposed>>
      BY <1>1 DEF StartRollup, DerivateStarted, NoNewBlock, Recovering,
          InvalidRange, WakeDown, ReadTip, memory
  <2>2. \A k \in Loops : k # l => pc'[k] = pc[k] /\ batch'[k] = batch[k]
      BY <1>1 DEF StartRollup, DerivateStarted, NoNewBlock, Recovering,
          InvalidRange, WakeDown, ReadTip, LoopBack, TypeOK, loopVars
  <2>3. pc'[l] \in {"started", "root", "sent", "verify"} =>
            pc'[l] = pc[l] /\ batch'[l] = batch[l]
      BY <1>1 DEF StartRollup, DerivateStarted, NoNewBlock, Recovering,
          InvalidRange, WakeDown, ReadTip, LoopBack, TypeOK, loopVars
  <2>4. \A k \in Loops : pc'[k] \in {"started", "root", "sent", "verify"} =>
            pc'[k] = pc[k] /\ batch'[k] = batch[k]
      BY <2>2, <2>3
  <2> QED BY <2>1, <2>4, AvailableFrame
<1>2. ASSUME NEW l \in Loops, Verified(l) \/ SubmitRoot(l) PROVE Available'
  <2>1. CASE Verified(l)
      BY <2>1, AvailableFrame DEF Verified, TypeOK
  <2>2. CASE SubmitRoot(l)
    <3>1. batch[l].latest \in Index
        BY <2>2, NewestType DEF TypeOK, BatchType, SubmitRoot, Submit
    <3>2. Covered(batch[l].latest)
        BY <2>2 DEF SubmitRoot, Available, RootsInFlightAvailable
    <3>3. \A k \in Loops : pc'[k] # pc[k] => pc'[k] = "sent" /\ pc[k] = "root"
        BY <2>2 DEF SubmitRoot, TypeOK
    <3>4. UNCHANGED <<outputs, derived, forced, latestProposed, batch>>
        BY <2>2 DEF SubmitRoot, history, memory
    <3>5. CoveredBy(batch[l].latest, derived', forced')
        BY <3>2, <3>4 DEF Covered
    <3>6. Submit(batch[l].latest)
        BY <2>2 DEF SubmitRoot
    <3> QED BY <3>1, <3>3, <3>4, <3>5, <3>6, AvailableSubmit
  <2> QED BY <1>2, <2>1, <2>2
<1>3. ASSUME NEW l \in Loops, ReadOracle(l) PROVE Available'
    BY <1>3, NewestCovered DEF ReadOracle, Available, DataAvailable,
        RootsInFlightAvailable, TypeOK, OnlyRoot, memory, chain, history, Covered
<1>4. ASSUME NEW l \in Loops, Started(l) \/ Proposed(l) PROVE Available'
  <2>1. latestProposed' = batch[l].latest /\ Covered(batch[l].latest)
      BY <1>4 DEF Started, Proposed, Available, RootsInFlightAvailable
  <2>2. UNCHANGED <<chain, history>>
      BY <1>4 DEF Started, Proposed
  <2>3. \A k \in Loops : pc'[k] \in {"started", "root", "sent", "verify"} =>
            k # l /\ pc'[k] = pc[k] /\ batch'[k] = batch[k]
      BY <1>4 DEF Started, Proposed, LoopBack, TypeOK
  <2> QED BY <2>1, <2>2, <2>3 DEF Available, DataAvailable,
              RootsInFlightAvailable, Covered, chain, history
<1>5. ASSUME NEW l \in Loops, TakeBlocks(l) PROVE Available'
  <2>1. store.oldest .. store.latest \subseteq derived
      BY <1>5, SaneStoreHasNoHole DEF TakeBlocks, StoreOK, Held
  <2>2. CoveredBy(store.latest, derived, forced)
    <3>1. /\ latestProposed \in Nat /\ store.oldest \in Nat
          /\ store.latest \in Nat /\ store.oldest <= latestProposed + 1
        BY <1>5 DEF TakeBlocks, TypeOK, StoreType
    <3>2. CoveredBy(latestProposed, derived, forced)
        BY DEF Available, RootsInFlightAvailable, Covered
    <3> QED BY <2>1, <3>1, <3>2, CoveredExtends
  <2>3. \A k \in Loops : k # l => pc'[k] = pc[k] /\ batch'[k] = batch[k]
      BY <1>5 DEF TakeBlocks, TypeOK
  <2>4. batch'[l].latest = store.latest
      BY <1>5 DEF TakeBlocks, TypeOK
  <2> QED BY <1>5, <2>2, <2>3, <2>4 DEF TakeBlocks, Available, DataAvailable,
              RootsInFlightAvailable, Covered, memory, chain, history
<1>6. ASSUME NEW l \in Loops, SubmitTip(l) PROVE Available'
  <2>1. batch[l].latest \in Index
      BY <1>6, NewestType DEF TypeOK, BatchType, SubmitTip, Submit
  <2>2. UNCHANGED <<outputs, derived, latestProposed, batch>>
      BY <1>6 DEF SubmitTip, memory
  <2>3. forced' = forced \cup {batch[l].latest} /\ Submit(batch[l].latest)
      BY <1>6 DEF SubmitTip
  <2>4. CoveredBy(batch[l].latest, derived', forced')
      BY <2>1, <2>3, CoveredForced
  <2>5. \A k \in Loops : pc'[k] # pc[k] => pc'[k] = "tipSent"
      BY <1>6 DEF SubmitTip, TypeOK
  <2>6. /\ forced \subseteq forced'
        /\ \A k \in Loops : pc'[k] # pc[k] =>
              \/ pc'[k] = "tipSent"
              \/ pc'[k] = "sent" /\ pc[k] = "root"
      BY <2>3, <2>5
  <2>7. Submit(batch[l].latest)
      BY <2>3
  <2> HIDE DEF Index
  <2> QED BY <2>1, <2>2, <2>4, <2>6, <2>7, AvailableSubmit
<1>7. ASSUME NEW l \in Loops, Uncaught(l) PROVE Available'
    BY <1>7, AvailableBoot DEF Uncaught
<1>8. ASSUME NEW b \in Index, Deliver(b) PROVE Available'
  <2>1. \A n : Covered(n) => CoveredBy(n, derived', forced')
      BY <1>8, CoveredMonotone DEF Deliver, Covered
  <2> QED BY <1>8, <2>1 DEF Deliver, Available, DataAvailable,
              RootsInFlightAvailable, Covered, memory, loopVars, chain
<1>9. ASSUME NEW n \in Index, ProposeLatest(n) PROVE Available'
  <2>1. UNCHANGED <<outputs, derived, latestProposed, batch, pc>>
      BY <1>9 DEF ProposeLatest, memory, loopVars
  <2>2. forced' = forced \cup {n} /\ Submit(n)
      BY <1>9 DEF ProposeLatest
  <2>3. CoveredBy(n, derived', forced')
      BY <2>2, CoveredForced
  <2> QED BY <2>1, <2>2, <2>3, AvailableSubmit
<1>10. CASE MineRoot
  <2>1. \A k \in 1 .. Len(pendingRoots') : pendingRoots'[k] = pendingRoots[k + 1]
                                           /\ k + 1 \in 1 .. Len(pendingRoots)
      BY <1>10 DEF MineRoot, TypeOK
  <2>2. \A k \in 1 .. Len(outputs') :
            Covered(outputs'[k])
    <3>1. Covered(Head(pendingRoots))
        BY <1>10 DEF MineRoot, TypeOK, Available, RootsInFlightAvailable
    <3>2. \A k \in 1 .. Len(outputs') :
              \/ k \in 1 .. Len(outputs) /\ outputs'[k] = outputs[k]
              \/ outputs'[k] = Head(pendingRoots)
        BY <1>10 DEF MineRoot, TypeOK
    <3> QED BY <3>1, <3>2 DEF Available, DataAvailable
  <2> QED BY <1>10, <2>1, <2>2 DEF MineRoot, Available, DataAvailable,
              RootsInFlightAvailable, Covered, memory, loopVars, history
<1>11. CASE DropRoots
    BY <1>11 DEF DropRoots, Available, DataAvailable, RootsInFlightAvailable,
        Covered, memory, loopVars, history
<1>12. CASE StopRollup \/ UNCHANGED vars
    BY <1>12, AvailableFrame DEF StopRollup, vars, memory, loopVars
<1>13. CASE Crash
    BY <1>13, AvailableBoot DEF Crash
<1> QED BY <1>1, <1>2, <1>3, <1>4, <1>5, <1>6, <1>7, <1>8, <1>9, <1>10, <1>11,
           <1>12, <1>13 DEF Next, LoopStep

-----------------------------------------------------------------------------
(* The theorems. *)

IInv == TypeOK /\ StoreOK /\ Held /\ Available

\* The inductive invariant holds at the start.
LEMMA InitIInv == Init => IInv
<1> SUFFICES ASSUME Init PROVE IInv
    OBVIOUS
<1>1. StoreOK /\ Held
    BY DEF Init, StoreOK, Held, StoreConsistent, NoBlocks
<1>2. \A k \in 1 .. Len(outputs) : outputs[k] = 1
    BY DEF Init
<1>3. Available
    BY <1>2, CoveredZero, CoveredForced DEF Init, Available, DataAvailable,
        RootsInFlightAvailable, Covered
<1> QED BY <1>1, <1>3, InitType DEF IInv

\* The inductive invariant behind the theorems below.
THEOREM ProposerInvariant == Spec => []IInv
<1>1. IInv /\ [Next]_vars => IInv'
    BY TypeStep, StoreStep, AvailableStep DEF IInv
<1> QED BY <1>1, InitIInv, PTL DEF Spec

\* Type correctness, for every number of calls of proposeStart and every event.
THEOREM TypeCorrect == Spec => []TypeOK
<1>1. IInv => TypeOK
    BY DEF IInv
<1> QED BY <1>1, ProposerInvariant, PTL

\* The bounds DeriverService caches are the bounds of its block map at every
\* await of every call, so no check of the proposer acts on a stale one.
THEOREM StoreCorrect == Spec => []StoreOK
<1>1. IInv => StoreOK
    BY DEF IInv
<1> QED BY <1>1, ProposerInvariant, PTL

\* Data availability of every root on L1 that was not forced, whatever crashes,
\* restarts, losses, redeliveries and overlapping calls there were.
THEOREM DataAvailability == Spec => []DataAvailable
<1>1. IInv => DataAvailable
    BY DEF IInv, Available
<1> QED BY <1>1, ProposerInvariant, PTL

\* The same of the roots on their way to L1: whichever of them L1 takes, and
\* after whatever it drops, the data of their blocks is there.
THEOREM InFlightAvailability == Spec => []RootsInFlightAvailable
<1>1. IInv => RootsInFlightAvailable
    BY DEF IInv, Available
<1> QED BY <1>1, ProposerInvariant, PTL

-----------------------------------------------------------------------------
(* The fallback. *)

\* sequencerDown is set for part of an iteration only, during which the count
\* of invalid checks is zero, so the iteration ends with sequencerIsUp.
DownInIteration(c) ==
    /\ sequencerDown => pc[c] \in {"root", "sent"}
    /\ pc[c] \in {"root", "sent"} => invalidCount = 0
    /\ pc[c] \notin {"tip", "tipRoot", "tipSent"}

\* One call leaves sequencerDown raised only between Verified and Proposed of
\* the same pass of the loop.
LEMMA DownInIterationStep ==
    ASSUME NEW c, Loops = {c}, TypeOK, DownInIteration(c), [Next]_vars
    PROVE  DownInIteration(c)'
<1> USE DEF DownInIteration
<1>1. ASSUME NEW l \in Loops, StartRollup(l) \/ ReadOracle(l) \/ Started(l)
      PROVE  DownInIteration(c)'
    BY <1>1 DEF StartRollup, ReadOracle, Started, TypeOK, memory
<1>2. ASSUME NEW l \in Loops, DerivateStarted(l) PROVE DownInIteration(c)'
    BY <1>2 DEF DerivateStarted, memory, loopVars
<1>3. ASSUME NEW l \in Loops,
             NoNewBlock(l) \/ Recovering(l) \/ InvalidRange(l) \/ TakeBlocks(l)
      PROVE  DownInIteration(c)'
    BY <1>3 DEF NoNewBlock, Recovering, InvalidRange, TakeBlocks, AtChecks,
        LoopBack, TypeOK, memory
<1>4. ASSUME NEW l \in Loops, Verified(l) \/ SubmitRoot(l) \/ Proposed(l)
      PROVE  DownInIteration(c)'
  <2>1. CASE Verified(l)
      BY <2>1 DEF Verified, TypeOK
  <2>2. CASE SubmitRoot(l)
      BY <2>2 DEF SubmitRoot, TypeOK, memory
  <2>3. CASE Proposed(l)
    <3>1. l = c /\ invalidCount = 0 /\ ~ (invalidCount > MaxInvalidSanity)
      <4>1. l = c /\ pc[c] = "sent"
          BY <2>3 DEF Proposed
      <4> QED BY <4>1
    <3>2. ~ sequencerDown'
        BY <2>3, <3>1 DEF Proposed
    <3>3. pc'[c] \in {"sleep", "idle"}
        BY <2>3, <3>1 DEF Proposed, LoopBack, TypeOK
    <3> QED BY <3>2, <3>3
  <2> QED BY <1>4, <2>1, <2>2, <2>3
<1>5. ASSUME NEW l \in Loops,
             \/ WakeDown(l) \/ SubmitTip(l)
             \/ \E n \in Index : ReadTip(l, n)
      PROVE  DownInIteration(c)'
    BY <1>5 DEF WakeDown, SubmitTip, ReadTip
<1>6. ASSUME NEW l \in Loops, Uncaught(l) PROVE DownInIteration(c)'
    BY <1>6 DEF Uncaught, Boot
<1>7. ASSUME NEW b \in Index, Deliver(b) \/ ProposeLatest(b)
      PROVE  DownInIteration(c)'
    BY <1>7 DEF Deliver, ProposeLatest, memory, loopVars
<1>8. CASE StopRollup \/ MineRoot \/ DropRoots \/ UNCHANGED vars
    BY <1>8 DEF StopRollup, MineRoot, DropRoots, vars, memory, loopVars
<1>9. CASE Crash
    BY <1>9 DEF Crash, Boot
<1> QED BY <1>1, <1>2, <1>3, <1>4, <1>5, <1>6, <1>7, <1>8, <1>9
        DEF Next, LoopStep

\* While calls of proposeStart do not overlap, the code that proposes without
\* derived blocks when the sequencer is down (proposer.service.ts, lines 61 to
\* 64) cannot run, whatever crashes, stops and faults there are.
THEOREM FallbackIsDead ==
    ASSUME NEW c, Loops = {c}
    PROVE  Spec => []FallbackNeverRuns
<1>1. Init => DownInIteration(c)
    BY DEF Init, DownInIteration
<1>2. TypeOK /\ DownInIteration(c) /\ [Next]_vars => DownInIteration(c)'
    BY DownInIterationStep
<1>3. DownInIteration(c) => FallbackNeverRuns
    BY DEF DownInIteration, FallbackNeverRuns
<1> QED BY <1>1, <1>2, <1>3, TypeCorrect, PTL DEF Spec

-----------------------------------------------------------------------------
(* One call that nothing interrupts. *)

\* What is true before the call has read its position.
NotYetStarted(c) ==
    /\ pc[c] = "idle" => /\ ~ deriving
                         /\ derivateStarting = {}
                         /\ derived = {}
    /\ pc[c] # "idle" => batching
    /\ pc[c] \in {"idle", "start", "started"} => /\ pendingRoots = <<>>
                                                 /\ latestProposed = 0
    /\ pc[c] \in {"idle", "start", "started", "sleep"} => batch[c].blocks = {}
    /\ pc[c] = "started" => batch[c].latest = Newest

\* The flags: the loop runs for good, and the deriver is down exactly when the
\* call declared it so.
Flags(c) ==
    /\ pc[c] \notin {"idle", "start", "started"} => proposing
    /\ derivateStarting # {} => ~ deriving /\ derived = {}
    /\ sequencerDown => ~ deriving
    /\ pc[c] \in {"verify", "root", "sent"} => derived # {}

RootsAtMost(n, newest, pending) ==
    /\ newest <= n
    /\ \A k \in 1 .. Len(pending) : pending[k] <= n

\* Every root on L1 or on its way is at or below the position, and the blocks
\* the call holds are above it.
Position(c) ==
    /\ pc[c] \in {"sleep", "verify", "root"} =>
          RootsAtMost(latestProposed, Newest, pendingRoots)
    /\ pc[c] \in {"verify", "root", "sent"} => latestProposed < batch[c].latest
    /\ pc[c] = "sent" => RootsAtMost(batch[c].latest, Newest, pendingRoots)
    /\ \A b \in batch[c].blocks : b <= batch[c].latest

OneCall(c) ==
    /\ DownInIteration(c)
    /\ NotYetStarted(c)
    /\ Flags(c)
    /\ Position(c)
    /\ NoBlockDropped

\* The numbers the arguments below compare.
LEMMA CallTypes ==
    ASSUME NEW c \in Loops, TypeOK
    PROVE  /\ batch[c].latest \in Nat
           /\ batch[c].blocks \subseteq Nat
           /\ latestProposed \in Nat
           /\ Newest \in Nat
           /\ derived \subseteq Nat
           /\ pc[c] \in PCs
<1>1. batch[c] \in BatchType
    BY DEF TypeOK
<1>2. Newest \in Nat
    BY NewestType
<1> QED BY <1>1, <1>2 DEF TypeOK, BatchType

\* One call does not meet the exceptions of Uncaught.
LEMMA OneCallNeverThrows ==
    ASSUME NEW c \in Loops, TypeOK, OneCall(c)
    PROVE  ~ Throws(c)
<1>1. batch[c].latest \in Nat /\ latestProposed \in Nat /\ Newest \in Nat
    BY CallTypes
<1>2. CASE pc[c] \in {"root", "tipRoot"} /\ batch[c].latest <= Newest
    BY <1>1, <1>2 DEF OneCall, DownInIteration, Position, RootsAtMost
<1> QED BY <1>2 DEF OneCall, Flags, Throws

\* The frame of a step that moves neither the position nor the blocks.
LEMMA OneCallFrame ==
    ASSUME NEW c \in Loops, OneCall(c), pc'[c] = pc[c], batching' = batching,
           UNCHANGED <<latestProposed, batch>>
    PROVE  /\ UNCHANGED <<chain, deriving, derivateStarting, proposing,
                          sequencerDown, history>>
                 => NotYetStarted(c)' /\ Flags(c)'
           /\ UNCHANGED chain => Position(c)'
           /\ Loops = {c} /\ UNCHANGED <<store, history>> => NoBlockDropped'
<1>1. UNCHANGED chain => Newest' = Newest
    BY DEF chain, Newest
<1>2. ASSUME UNCHANGED <<chain, deriving, derivateStarting, proposing,
                         sequencerDown, history>>
      PROVE  NotYetStarted(c)' /\ Flags(c)'
    BY <1>1, <1>2 DEF OneCall, NotYetStarted, Flags, chain, history
<1>3. ASSUME UNCHANGED chain PROVE Position(c)'
    BY <1>1, <1>3 DEF OneCall, Position, chain
<1>4. ASSUME Loops = {c}, UNCHANGED <<store, history>> PROVE NoBlockDropped'
    BY <1>4 DEF OneCall, NoBlockDropped, history
<1> QED BY <1>2, <1>3, <1>4

\* A pass that ends at a check keeps the invariant of one call.
LEMMA OneCallChecks ==
    ASSUME NEW c, Loops = {c}, IInv, OneCall(c),
           \/ NoNewBlock(c) \/ Recovering(c) \/ InvalidRange(c)
    PROVE  OneCall(c)'
<1> TypeOK /\ StoreOK /\ Held
    BY DEF IInv
<1>1. pc[c] = "sleep" /\ proposing /\ ~ sequencerDown
    BY DEF NoNewBlock, Recovering, InvalidRange, AtChecks, OneCall,
        DownInIteration, Flags
<1>2. pc'[c] = "sleep" /\ batch'[c] = NoBatch
    BY <1>1 DEF NoNewBlock, Recovering, InvalidRange, LoopBack, TypeOK
<1>3. UNCHANGED <<flags, sequencerDown, latestProposed, chain, history>>
    BY DEF NoNewBlock, Recovering, InvalidRange, memory
<1>4. NoBlockDropped'
  <2>1. \A b \in store.blocks : b \in store'.blocks \/ b <= latestProposed
    <3>1. CASE Recovering(c)
        BY <3>1, DeleteUntilCorrect, SMTT(30) DEF Recovering, TypeOK, StoreOK, StoreType
    <3>2. CASE NoNewBlock(c) \/ InvalidRange(c)
        BY <3>2 DEF NoNewBlock, InvalidRange
    <3> QED BY <3>1, <3>2
  <2>2. batch[c].blocks = {}
      BY <1>1 DEF OneCall, NotYetStarted
  <2> QED BY <1>3, <2>1, <2>2 DEF OneCall, NoBlockDropped, history
<1>5. NotYetStarted(c)' /\ Flags(c)'
    BY <1>1, <1>2, <1>3 DEF OneCall, NotYetStarted, Flags, flags, history,
        NoBatch, OnlyRoot
<1>6. Position(c)'
    BY <1>1, <1>2, <1>3 DEF OneCall, Position, Newest, chain, NoBatch, OnlyRoot
<1>7. DownInIteration(c)'
    BY <1>1, <1>2, <1>3 DEF DownInIteration, OneCall
<1> QED BY <1>4, <1>5, <1>6, <1>7 DEF OneCall

\* Taking the blocks moves them from the map to the call, and their root is
\* above the position.
LEMMA OneCallTake ==
    ASSUME NEW c, Loops = {c}, IInv, OneCall(c), TakeBlocks(c)
    PROVE  OneCall(c)'
<1> TypeOK /\ StoreOK /\ Held
    BY DEF IInv
<1>1. pc[c] = "sleep" /\ proposing /\ ~ sequencerDown /\ batch[c].blocks = {}
    BY DEF TakeBlocks, AtChecks, OneCall, DownInIteration, NotYetStarted, Flags
<1>2. /\ pc'[c] = "verify"
      /\ batch'[c].blocks = store.blocks /\ batch'[c].latest = store.latest
    BY DEF TakeBlocks, TypeOK
<1>3. UNCHANGED <<flags, memory, chain, history>> /\ latestProposed < store.latest
    BY DEF TakeBlocks, TypeOK, StoreType
<1>4. derived # {} /\ \A b \in store.blocks : b <= store.latest
    BY DEF TakeBlocks, StoreOK, StoreConsistent, Held, TypeOK, StoreType
<1>5. derivateStarting = {}
    BY <1>4 DEF OneCall, Flags
<1>9. NotYetStarted(c)' /\ Flags(c)'
    BY <1>1, <1>2, <1>3, <1>4, <1>5 DEF OneCall, NotYetStarted, Flags, flags,
        history, memory
<1>6. Position(c)'
    BY <1>1, <1>2, <1>3, <1>4 DEF OneCall, Position, Newest, chain, memory
<1>7. NoBlockDropped'
    BY <1>1, <1>2, <1>3 DEF OneCall, NoBlockDropped, history, memory
<1>8. DownInIteration(c)'
    BY <1>1, <1>2, <1>3 DEF DownInIteration, memory
<1> QED BY <1>6, <1>7, <1>8, <1>9 DEF OneCall

\* The start of the rollup and of the call reads the newest root, below which
\* every submitted root lies.
LEMMA OneCallStart ==
    ASSUME NEW c, Loops = {c}, IInv, OneCall(c),
           \/ StartRollup(c) \/ DerivateStarted(c) \/ ReadOracle(c) \/ Started(c)
    PROVE  NotYetStarted(c)' /\ Flags(c)' /\ Position(c)' /\ NoBlockDropped'
<1> TypeOK /\ c \in Loops
    BY DEF IInv
<1>1. CASE StartRollup(c)
  <2>1. /\ pc[c] = "idle" /\ pc'[c] = "start" /\ batching'
        /\ UNCHANGED <<proposing, store, memory, batch, chain, history>>
        /\ derived = {}
      BY <1>1 DEF StartRollup, TypeOK, OneCall, NotYetStarted
  <2>2. ~ sequencerDown
      BY <2>1 DEF OneCall, DownInIteration
  <2>3. derivateStarting' # {} => ~ deriving'
      BY <1>1, <2>1 DEF StartRollup, OneCall, NotYetStarted
  <2> QED BY <2>1, <2>2, <2>3 DEF OneCall, NotYetStarted, Flags, Position,
              NoBlockDropped, memory, chain, history
<1>2. CASE DerivateStarted(c)
  <2>1. derived = {} /\ derivateStarting' = {}
      BY <1>2 DEF DerivateStarted, OneCall, Flags, TypeOK
  <2>2. pc[c] \notin {"verify", "root", "sent"} /\ ~ sequencerDown /\ pc[c] # "idle"
      BY <1>2, <2>1 DEF DerivateStarted, OneCall, Flags, DownInIteration, NotYetStarted
  <2>3. UNCHANGED <<batching, proposing, store, memory, loopVars, chain, history>>
      BY <1>2 DEF DerivateStarted
  <2> QED BY <2>1, <2>2, <2>3 DEF OneCall, NotYetStarted, Flags, Position,
              NoBlockDropped, memory, loopVars, chain, history, Newest
<1>3. CASE ReadOracle(c)
  <2>1. /\ pc[c] = "start" /\ pc'[c] = "started"
        /\ batch'[c] = OnlyRoot(Newest)
        /\ UNCHANGED <<flags, store, memory, chain, history>>
      BY <1>3 DEF ReadOracle, TypeOK
  <2>2. batch[c].blocks = {} /\ batch'[c].blocks = {} /\ batch'[c].latest = Newest
      BY <2>1 DEF OneCall, NotYetStarted, OnlyRoot
  <2> QED BY <2>1, <2>2 DEF OneCall, NotYetStarted, Flags, Position,
              NoBlockDropped, flags, memory, chain, history, Newest
<1>4. CASE Started(c)
  <2>1. /\ pc[c] = "started" /\ pc'[c] = "sleep" /\ proposing'
        /\ batch'[c] = NoBatch
        /\ UNCHANGED <<batching, deriving, derivateStarting, store,
                       sequencerDown, invalidCount, chain, history>>
      BY <1>4 DEF Started, TypeOK
  <2>2. latestProposed' = Newest /\ pendingRoots = <<>> /\ latestProposed = 0
        /\ batch[c].blocks = {}
      BY <1>4, <2>1 DEF Started, OneCall, NotYetStarted
  <2>3. batch'[c].blocks = {} /\ Newest' = Newest /\ Newest \in Nat
      BY <2>1, CallTypes DEF NoBatch, OnlyRoot, Newest, chain
  <2>4. RootsAtMost(latestProposed', Newest', pendingRoots')
      BY <2>1, <2>2, <2>3 DEF RootsAtMost, chain
  <2>5. Position(c)' /\ NotYetStarted(c)' /\ Flags(c)'
      BY <2>1, <2>3, <2>4 DEF OneCall, Position, NotYetStarted, Flags, history
  <2>6. \A b \in derived : b \in store.blocks
    <3>0. derived \subseteq 1 .. MaxIndex
        BY DEF TypeOK
    <3>1. \A b \in derived : ~ (b <= latestProposed)
        BY <2>2, <3>0
    <3>2. \A l \in Loops : batch[l].blocks = {}
        BY <2>2
    <3> QED BY <3>1, <3>2 DEF OneCall, NoBlockDropped
  <2>7. NoBlockDropped'
      BY <2>1, <2>6 DEF NoBlockDropped, history
  <2> QED BY <2>5, <2>7
<1> QED BY <1>1, <1>2, <1>3, <1>4

\* Submitting the root and remembering it keeps the position at the highest
\* root submitted.
LEMMA OneCallPropose ==
    ASSUME NEW c, Loops = {c}, IInv, OneCall(c),
           Verified(c) \/ SubmitRoot(c) \/ Proposed(c)
    PROVE  NotYetStarted(c)' /\ Flags(c)' /\ Position(c)' /\ NoBlockDropped'
<1> TypeOK /\ c \in Loops
    BY DEF IInv
<1>1. CASE Verified(c)
  <2>1. /\ pc[c] = "verify" /\ pc'[c] = "root"
        /\ UNCHANGED <<batching, derivateStarting, proposing, store,
                       latestProposed, batch, chain, history>>
      BY <1>1 DEF Verified, TypeOK
  <2>2. ~ sequencerDown /\ derived # {} /\ derivateStarting = {}
      BY <2>1 DEF OneCall, DownInIteration, Flags
  <2>3. sequencerDown' => ~ deriving'
      BY <1>1, <2>2 DEF Verified
  <2> QED BY <2>1, <2>2, <2>3 DEF OneCall, NotYetStarted, Flags, Position,
              NoBlockDropped, chain, history, Newest
<1>2. CASE SubmitRoot(c)
  <2>1. /\ pc[c] = "root" /\ pc'[c] = "sent"
        /\ UNCHANGED <<flags, store, memory, batch, outputs, history>>
        /\ pendingRoots' = Append(pendingRoots, batch[c].latest)
      BY <1>2 DEF SubmitRoot, Submit, TypeOK
  <2>2. /\ latestProposed < batch[c].latest
        /\ RootsAtMost(latestProposed, Newest, pendingRoots)
      BY <2>1 DEF OneCall, Position
  <2>3. RootsAtMost(batch'[c].latest, Newest', pendingRoots')
    <3> DEFINE n == batch[c].latest
    <3>1. pendingRoots \in Seq(1 .. MaxIndex) /\ n \in Nat /\ latestProposed \in Nat
        BY CallTypes DEF TypeOK
    <3>2. Newest' = Newest /\ Newest \in Nat /\ batch'[c].latest = n
        BY <2>1, CallTypes DEF Newest
    <3>3. \A k \in 1 .. Len(pendingRoots) : pendingRoots[k] \in Nat /\ pendingRoots[k] <= n
        BY <2>2, <3>1 DEF RootsAtMost
    <3>4. \A k \in 1 .. Len(pendingRoots') : pendingRoots'[k] <= n
      <4>1. /\ Len(pendingRoots') = Len(pendingRoots) + 1
            /\ pendingRoots'[Len(pendingRoots) + 1] = n
            /\ \A k \in 1 .. Len(pendingRoots) : pendingRoots'[k] = pendingRoots[k]
          BY <2>1, <3>1
      <4>2. Len(pendingRoots) \in Nat
          BY <3>1
      <4>3. ASSUME NEW k \in 1 .. Len(pendingRoots') PROVE pendingRoots'[k] <= n
        <5>1. k \in 1 .. Len(pendingRoots) \/ k = Len(pendingRoots) + 1
            BY <4>1, <4>2
        <5>2. n <= n
            BY <3>1
        <5>3. CASE k \in 1 .. Len(pendingRoots)
            BY <5>3, <3>3, <4>1
        <5>4. CASE k = Len(pendingRoots) + 1
            BY <5>4, <5>2, <4>1
        <5> QED BY <5>1, <5>3, <5>4
      <4> QED BY <4>3
    <3>5. Newest <= n
        BY <2>2, <3>1, <3>2 DEF RootsAtMost
    <3> QED BY <3>2, <3>4, <3>5 DEF RootsAtMost
  <2> QED BY <2>1, <2>2, <2>3 DEF OneCall, NotYetStarted, Flags, Position,
              NoBlockDropped, flags, memory, history
<1>3. CASE Proposed(c)
  <2>1. /\ pc[c] = "sent" /\ latestProposed' = batch[c].latest
        /\ batch'[c] = NoBatch
        /\ UNCHANGED <<batching, derivateStarting, proposing, store, chain, history>>
      BY <1>3 DEF Proposed, TypeOK
  <2>2. /\ pc'[c] = "sleep" /\ proposing /\ derivateStarting = {}
        /\ RootsAtMost(latestProposed', Newest, pendingRoots)
        /\ latestProposed < batch[c].latest
      BY <1>3, <2>1 DEF Proposed, LoopBack, TypeOK, OneCall, Flags, Position
  <2>3. ~ sequencerDown'
      BY <1>3, <2>2, DownInIterationStep DEF OneCall, DownInIteration, Next, LoopStep
  <2>4. batch'[c].blocks = {} /\ Newest' = Newest
      BY <2>1 DEF NoBatch, OnlyRoot, Newest, chain
  <2>5. NotYetStarted(c)' /\ Flags(c)' /\ Position(c)'
      BY <2>1, <2>2, <2>3, <2>4 DEF OneCall, NotYetStarted, Flags, Position,
          chain, history
  <2>6. \A b \in derived : b \in store.blocks \/ b <= latestProposed'
      BY <2>1, <2>2, CallTypes DEF OneCall, NoBlockDropped, Position
  <2>7. NoBlockDropped'
      BY <2>1, <2>6 DEF NoBlockDropped, history
  <2> QED BY <2>5, <2>7
<1> QED BY <1>1, <1>2, <1>3

\* The deriver and L1 keep the invariant of one call.
LEMMA OneCallOutside ==
    ASSUME NEW c, Loops = {c}, IInv, OneCall(c),
           \/ \E b \in Index : Deliver(b)
           \/ MineRoot \/ DropRoots \/ UNCHANGED vars
    PROVE  NotYetStarted(c)' /\ Flags(c)' /\ Position(c)' /\ NoBlockDropped'
<1> TypeOK /\ c \in Loops
    BY DEF IInv
<1>1. ASSUME NEW b \in Index, Deliver(b)
      PROVE  NotYetStarted(c)' /\ Flags(c)' /\ Position(c)' /\ NoBlockDropped'
  <2>1. /\ deriving /\ derivateStarting = {} /\ pc[c] # "idle"
        /\ UNCHANGED <<flags, memory, loopVars, chain, forced>>
        /\ derived' = derived \cup {b} /\ store'.blocks = store.blocks \cup {b}
      BY <1>1 DEF Deliver, HandleBlock, OneCall, Flags, NotYetStarted
  <2> QED BY <2>1 DEF OneCall, NotYetStarted, Flags, Position, NoBlockDropped,
              flags, memory, loopVars, chain, Newest
<1>2. CASE MineRoot
  <2>1. UNCHANGED <<flags, store, memory, loopVars, history>> /\ pendingRoots # <<>>
      BY <1>2 DEF MineRoot
  <2>2. \A n \in Nat : RootsAtMost(n, Newest, pendingRoots) =>
                          RootsAtMost(n, Newest', pendingRoots')
    <3>1. /\ Newest' = Newest \/ Newest' = pendingRoots[1]
          /\ 1 \in 1 .. Len(pendingRoots)
        BY <1>2 DEF MineRoot, Newest, TypeOK
    <3>2. \A k \in 1 .. Len(pendingRoots') : /\ k + 1 \in 1 .. Len(pendingRoots)
                                             /\ pendingRoots'[k] = pendingRoots[k + 1]
        BY <1>2 DEF MineRoot, TypeOK
    <3> QED BY <3>1, <3>2 DEF RootsAtMost
  <2>3. pc[c] \notin {"idle", "start", "started"}
      BY <2>1 DEF OneCall, NotYetStarted
  <2> QED BY <2>1, <2>2, <2>3, CallTypes DEF OneCall, NotYetStarted, Flags,
              Position, NoBlockDropped, flags, memory, loopVars, history
<1>3. CASE DropRoots
  <2>1. UNCHANGED <<flags, store, memory, loopVars, outputs, history>>
        /\ pendingRoots' = <<>>
      BY <1>3 DEF DropRoots
  <2> QED BY <2>1 DEF OneCall, NotYetStarted, Flags, Position, NoBlockDropped,
              RootsAtMost, Newest, flags, memory, loopVars, history
<1>4. CASE UNCHANGED vars
    BY <1>4 DEF OneCall, NotYetStarted, Flags, Position, NoBlockDropped, Newest,
        vars, flags, memory, loopVars, chain, history
<1> QED BY <1>1, <1>2, <1>3, <1>4

\* Every step keeps the invariant of one call.
LEMMA OneCallStep ==
    ASSUME NEW c, Loops = {c}, Events \cap {"operator", "crash", "manual"} = {},
           IInv, OneCall(c), [Next]_vars
    PROVE  OneCall(c)'
<1> TypeOK /\ c \in Loops
    BY DEF IInv
<1>1. DownInIteration(c)'
    BY DownInIterationStep DEF OneCall
<1>2. ~ StopRollup /\ ~ Crash /\ \A n \in Index : ~ ProposeLatest(n)
    BY DEF StopRollup, Crash, ProposeLatest
<1>3. ~ Uncaught(c)
    BY OneCallNeverThrows DEF Uncaught
<1>4. /\ ~ WakeDown(c) /\ ~ SubmitTip(c)
      /\ \A n \in Index : ~ ReadTip(c, n)
    BY DEF WakeDown, ReadTip, SubmitTip, OneCall, DownInIteration
<1>5. \/ StartRollup(c) \/ DerivateStarted(c) \/ ReadOracle(c) \/ Started(c)
      \/ NoNewBlock(c) \/ Recovering(c) \/ InvalidRange(c)
      \/ TakeBlocks(c)
      \/ Verified(c) \/ SubmitRoot(c) \/ Proposed(c)
      \/ \E b \in Index : Deliver(b)
      \/ MineRoot \/ DropRoots \/ UNCHANGED vars
    BY <1>2, <1>3, <1>4 DEF Next, LoopStep
<1>6. OneCall(c)' <=> /\ DownInIteration(c)' /\ NotYetStarted(c)' /\ Flags(c)'
                      /\ Position(c)' /\ NoBlockDropped'
    BY DEF OneCall
<1> QED BY <1>1, <1>5, <1>6, OneCallStart, OneCallChecks, OneCallTake,
           OneCallPropose, OneCallOutside

\* The invariant of one call holds at the start.
LEMMA OneCallInit ==
    ASSUME NEW c, Loops = {c}, Init
    PROVE  OneCall(c)
BY DEF Init, OneCall, DownInIteration, NotYetStarted, Flags, Position,
    NoBlockDropped, NoBatch, OnlyRoot

\* The invariant of one call that nothing interrupts.
LEMMA OneCallInvariant ==
    ASSUME NEW c, Loops = {c}, Events \cap {"operator", "crash", "manual"} = {}
    PROVE  Spec => []OneCall(c)
<1>1. Init => OneCall(c)
    BY OneCallInit
<1>2. IInv /\ OneCall(c) /\ [Next]_vars => OneCall(c)'
    BY OneCallStep
<1> QED BY <1>1, <1>2, ProposerInvariant, PTL DEF Spec

\* No root of an uninterrupted call reverts: the call ends only with the
\* process, and every root it submits is above all earlier ones.
THEOREM NoRejectedRoot ==
    ASSUME NEW c, Loops = {c}, Events \cap {"operator", "crash", "manual"} = {}
    PROVE  Spec => []NeverRejected
<1>1. IInv /\ OneCall(c) => NeverRejected
  <2> SUFFICES ASSUME IInv, OneCall(c), pc[c] \in {"verify", "root"}
               PROVE  /\ batch[c].latest > Newest
                      /\ \A k \in 1 .. Len(pendingRoots) :
                            batch[c].latest > pendingRoots[k]
      BY DEF NeverRejected
  <2>1. TypeOK /\ c \in Loops
      BY DEF IInv
  <2>2. \A k \in 1 .. Len(pendingRoots) : pendingRoots[k] \in Nat
      BY <2>1 DEF TypeOK
  <2> QED BY <2>1, <2>2, CallTypes DEF OneCall, Position, RootsAtMost
<1> QED BY <1>1, ProposerInvariant, OneCallInvariant, PTL

\* No block an uninterrupted call takes out of the map is lost.
THEOREM NoLostBlock ==
    ASSUME NEW c, Loops = {c}, Events \cap {"operator", "crash", "manual"} = {}
    PROVE  Spec => []NoBlockDropped
<1>1. OneCall(c) => NoBlockDropped
    BY DEF OneCall
<1> QED BY <1>1, OneCallInvariant, PTL
=============================================================================
