--------------------------- MODULE OutputRootScan ---------------------------
(***************************************************************************)
(* The scans of PublicClientManager (nest/evm/public.client.ts) for the    *)
(* newest output root.  L1 is asked for the OutputProposed events of one   *)
(* window of blocks after the other, from the tip back to the deployment   *)
(* of the contract, while L1 goes on.  There are two:                      *)
(*   getLatestOutputRoots           answers with the newest root;          *)
(*   getLatestOutputRootBlockIndex  answers with the lower end of the      *)
(*                                  window the newest root is in, where    *)
(*                                  derivation starts.                     *)
(* A call waits for the events of its window ("asked"), or has its answer. *)
(***************************************************************************)
EXTENDS Integers

CONSTANTS
    RootScans,        \* the calls of getLatestOutputRoots
    PositionScans,    \* the calls of getLatestOutputRootBlockIndex
    RootInterval,     \* blocks between the ends of a window (1000)
    PositionInterval, \* (100)
    Deployed,         \* minimalBlockIndex: L1 block of the contract
    MaxHead           \* bound on the height of L1

Calls == RootScans \cup PositionScans

ASSUME ScanAssumption ==
    /\ RootScans \cap PositionScans = {}
    /\ RootInterval \in Nat \ {0}
    /\ PositionInterval \in Nat \ {0}
    /\ Deployed \in Nat
    /\ MaxHead \in Nat
    /\ Deployed <= MaxHead

VARIABLES
    head,      \* height of L1
    roots,     \* the L1 blocks with an OutputProposed event
    place,     \* where each call is
    to,        \* its toBlockIndex
    from,      \* its fromBlockIndex
    answer,    \* what it returned
    seen       \* history: the height of L1 it started from

scanVars == <<head, roots, place, to, from, answer, seen>>

None == -1     \* undefined

ScanTypeOK ==
    /\ head \in Deployed .. MaxHead
    /\ roots \subseteq Deployed + 1 .. head
    /\ place \in [Calls -> {"idle", "asked", "done"}]
    /\ to \in [Calls -> 0 .. head]
    /\ from \in [Calls -> 0 .. head]
    /\ answer \in [Calls -> {None} \cup 0 .. head]
    /\ seen \in [Calls -> 0 .. head]

-----------------------------------------------------------------------------
Interval(c) == IF c \in RootScans THEN RootInterval ELSE PositionInterval

\* The first window may begin in front of the deployment.
FirstFrom(c) == IF head > Interval(c) THEN head - Interval(c) ELSE 0

\* Faulty: the bound of the window is computed before its end has moved.
NextToLate(c) == from[c] - Interval(c)

NextTo(c) == from[c]

\* Faulty: not cut at the deployment.
NextFromUncut(c) == NextTo(c) - Interval(c)

NextFrom(c) == IF NextTo(c) - Deployed > Interval(c) THEN NextTo(c) - Interval(c)
                                                     ELSE Deployed

\* Faulty: also goes on at the block of the deployment.
GoesOnAtDeployed(t) == t >= Deployed

\* while (toBlockIndex > minimalBlockIndex)
GoesOn(t) == t > Deployed

Logs(c) == {r \in roots : from[c] <= r /\ r <= to[c]}

Answers(c, a) ==
    /\ place' = [place EXCEPT ![c] = "done"]
    /\ answer' = [answer EXCEPT ![c] = a]

\* Faulty: answers with the upper end of the window.
FoundUpperEnd(c, r) == IF c \in RootScans THEN r ELSE to[c]

\* The answer when r is the newest event of the window.
Found(c, r) == IF c \in RootScans THEN r ELSE from[c]

-----------------------------------------------------------------------------
ScanInit ==
    /\ head = Deployed
    /\ roots = {}
    /\ place = [c \in Calls |-> "idle"]
    /\ to = [c \in Calls |-> 0]
    /\ from = [c \in Calls |-> 0]
    /\ answer = [c \in Calls |-> None]
    /\ seen = [c \in Calls |-> 0]

\* L1 gets a block, with or without a root.
MineBlock ==
    /\ head < MaxHead
    /\ head' = head + 1
    /\ roots' \in {roots, roots \cup {head + 1}}
    /\ UNCHANGED <<place, to, from, answer, seen>>

\* getBlockNumber answers; the first window is asked for.
Begin(c) ==
    /\ place[c] = "idle"
    /\ to' = [to EXCEPT ![c] = head]
    /\ from' = [from EXCEPT ![c] = FirstFrom(c)]
    /\ seen' = [seen EXCEPT ![c] = head]
    /\ IF GoesOn(head)
       THEN place' = [place EXCEPT ![c] = "asked"] /\ UNCHANGED answer
       ELSE Answers(c, None)
    /\ UNCHANGED <<head, roots>>

\* The window holds an event: its last one counts.
Hit(c) ==
    /\ place[c] = "asked"
    /\ \E r \in Logs(c) : /\ \A q \in Logs(c) : q <= r
                          /\ Answers(c, Found(c, r))
    /\ UNCHANGED <<head, roots, to, from, seen>>

\* It holds none: on to the next window, or give up.
Miss(c) ==
    /\ place[c] = "asked"
    /\ Logs(c) = {}
    /\ to' = [to EXCEPT ![c] = NextTo(c)]
    /\ from' = [from EXCEPT ![c] = NextFrom(c)]
    /\ IF GoesOn(NextTo(c))
       THEN UNCHANGED <<place, answer>>
       ELSE Answers(c, None)
    /\ UNCHANGED <<head, roots, seen>>

ScanNext == MineBlock \/ \E c \in Calls : Begin(c) \/ Hit(c) \/ Miss(c)

\* L1 answers.
ScanFairness == \A c \in Calls : WF_scanVars(Hit(c) \/ Miss(c))

ScanSpec == ScanInit /\ [][ScanNext]_scanVars
FairScanSpec == ScanSpec /\ ScanFairness

-----------------------------------------------------------------------------
(* What the scans promise.  Both compare with L1 as it was when the scan   *)
(* began; a root mined later may be missed.                                *)

\* The root getLatestOutputRoots returns is on L1, and no newer one was there
\* when it began: no window skips a block, also where the first one reaches
\* behind the deployment and the last one is cut.  It is undefined only
\* without any root, so initialize does not propose the root of block 1 again.
FindsNewestRoot ==
    \A c \in RootScans : place[c] = "done" =>
        \A r \in roots : r <= seen[c] =>
            answer[c] \in roots /\ r <= answer[c] /\ answer[c] <= seen[c]

\* Derivation starts at or before the newest root, and at most one window
\* before it.
StartsBeforeNewestRoot ==
    \A c \in PositionScans : place[c] = "done" =>
        \A r \in roots : r <= seen[c] =>
            /\ answer[c] # None
            /\ \E q \in roots : /\ r <= q
                                /\ answer[c] <= q
                                /\ q <= answer[c] + PositionInterval

\* A scan comes to an end, although L1 goes on.
ScansEnd == \A c \in Calls : place[c] = "asked" ~> place[c] = "done"
=============================================================================
