----------------------------- MODULE BlockStore -----------------------------
(***************************************************************************)
(* The block map of DeriverService (nest/deriver/deriver.service.ts): the  *)
(* blocks the deriver has read off L1 and the proposer has not taken yet,  *)
(* with the cached bounds derivatedOldestBlockIndex and                    *)
(* derivatedLatestBlockIndex and the flag deriveInit.  The deriver adds to *)
(* it (HandleBlock); the proposer inspects it (CheckSanity), prunes it     *)
(* (DeleteUntil) and empties it (ClearStore).                              *)
(*                                                                         *)
(* The operators are pure: each takes the store and returns the new one,   *)
(* so that the Proposer and the compositions share one definition.  A      *)
(* block is its index; what it holds is never read by this code.           *)
(***************************************************************************)
EXTENDS Integers, FiniteSets

\* The fields of DeriverService while block indexes are at most max.
StoreType(max) == [blocks : SUBSET (1 .. max), init : BOOLEAN,
                   oldest : 0 .. max, latest : 0 .. max]

\* What a new process starts with.
NoBlocks == [blocks |-> {}, init |-> FALSE, oldest |-> 0, latest |-> 0]

\* handleBlock: the first block after a reset sets both bounds, a later one
\* only widens them.
HandleBlock(st, b) ==
    [blocks |-> st.blocks \cup {b},
     init   |-> TRUE,
     oldest |-> IF st.init /\ st.oldest < b THEN st.oldest ELSE b,
     latest |-> IF st.init /\ st.latest > b THEN st.latest ELSE b]

Untouched(st) == st.oldest = st.latest /\ st.blocks = {}

\* Faulty: looks at the bounds only.
CheckSanityEnds(st) == Untouched(st) \/ {st.oldest, st.latest} \subseteq st.blocks

\* checkSanity: the map has no hole between its bounds.
CheckSanity(st) ==
    \/ Untouched(st)
    \/ /\ st.latest - st.oldest + 1 = Cardinality(st.blocks)
       /\ \A i \in st.oldest .. st.latest : i \in st.blocks

\* The first block that survives DeleteUntil(st, n), which is where the code's
\* second loop stops.
IsFirstAfter(st, n, i) ==
    /\ i \in st.blocks \cap (n + 1 .. st.latest)
    /\ \A j \in n + 1 .. i - 1 : j \notin st.blocks

\* Faulty: throws away the blocks not proposed yet as well.
DeleteEverything(st, n) == [blocks |-> {}, init |-> FALSE, oldest |-> n, latest |-> n]

\* Faulty: leaves the proposed blocks where they are.
DeleteNothing(st, n) == st

\* deleteUntilBlockIndex: removes the blocks oldest .. n; the bounds follow what
\* is left.
DeleteUntil(st, n) ==
    LET rest == st.blocks \ (st.oldest .. n)
    IN  IF Untouched(st) \/ st.oldest > n THEN st
        ELSE IF rest = {}
             THEN [blocks |-> {}, init |-> FALSE, oldest |-> n, latest |-> n]
             ELSE [blocks |-> rest,
                   init   |-> st.init,
                   oldest |-> IF \E i \in rest : IsFirstAfter(st, n, i)
                              THEN CHOOSE i \in rest : IsFirstAfter(st, n, i)
                              ELSE st.oldest,
                   latest |-> st.latest]

\* Faulty: the flag is not reset.
ClearStoreKeepsInit(st) == [st EXCEPT !.blocks = {}, !.oldest = st.latest]

\* getBlocks, once the copy of the blocks is taken: the map is cleared and the
\* lower bound moves up to the upper one.
ClearStore(st) == [st EXCEPT !.blocks = {}, !.init = FALSE, !.oldest = st.latest]

-----------------------------------------------------------------------------
\* The cached bounds and the flag agree with the map: deriveInit says whether
\* the map holds a block, and the bounds are then the least and the greatest
\* index in it.  The proposer decides by the cache alone (checkDeriveInit,
\* getOldestBlockIndex, getLatestBlockIndex); a stale bound would make it
\* propose a root whose blocks it does not have.
StoreConsistent(st) ==
    /\ st.init <=> st.blocks # {}
    /\ st.init => {st.oldest, st.latest} \subseteq st.blocks
    /\ st.blocks \subseteq st.oldest .. st.latest
    /\ ~ st.init => st.oldest = st.latest
=============================================================================
