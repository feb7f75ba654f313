------------------------ MODULE OutputRootScanProofs ------------------------
(***************************************************************************)
(* What holds of the scans for every window length, deployment block and   *)
(* height of L1, and any number of calls at a time.                        *)
(***************************************************************************)
EXTENDS OutputRootScan, TLAPS

USE ScanAssumption

\* Between two windows: all roots the call may answer with lie at or below the
\* upper end, and the window is not longer than the interval.
Window(c) ==
    /\ Deployed < to[c]
    /\ to[c] <= seen[c]
    /\ from[c] <= to[c]
    /\ to[c] <= from[c] + Interval(c)
    /\ \A r \in roots : r <= seen[c] => r <= to[c]

\* The two promises, for one call.
Newest(c) ==
    \A r \in roots : r <= seen[c] =>
        answer[c] \in roots /\ r <= answer[c] /\ answer[c] <= seen[c]

Before(c) ==
    \A r \in roots : r <= seen[c] =>
        /\ answer[c] # None
        /\ \E q \in roots : /\ r <= q
                            /\ answer[c] <= q
                            /\ q <= answer[c] + PositionInterval

Scanned(c) ==
    /\ place[c] = "asked" => Window(c)
    /\ place[c] = "done" /\ c \in RootScans => Newest(c)
    /\ place[c] = "done" /\ c \in PositionScans => Before(c)

ScanIInv == ScanTypeOK /\ \A c \in Calls : Scanned(c)

-----------------------------------------------------------------------------
\* An interval is positive.
LEMMA IntervalType == \A c \in Calls : Interval(c) \in Nat \ {0}
BY DEF Interval, Calls

\* The invariant holds at the start.
LEMMA ScanIInvInit == ScanInit => ScanIInv
BY DEF ScanInit, ScanIInv, ScanTypeOK, Scanned, Calls, None

\* Every step keeps the type, given the windows.
LEMMA ScanTypeStep == ScanIInv /\ [ScanNext]_scanVars => ScanTypeOK'
<1> SUFFICES ASSUME ScanIInv, [ScanNext]_scanVars PROVE ScanTypeOK'
    OBVIOUS
<1> USE DEF ScanIInv, ScanTypeOK, None
<1>1. CASE MineBlock
    BY <1>1 DEF MineBlock
<1>2. ASSUME NEW c \in Calls, Begin(c) PROVE ScanTypeOK'
  <2>1. FirstFrom(c) \in 0 .. head
      BY IntervalType DEF FirstFrom
  <2>2. UNCHANGED <<head, roots>>
      BY <1>2 DEF Begin
  <2>3. /\ place' \in [Calls -> {"idle", "asked", "done"}]
        /\ answer' \in [Calls -> {None} \cup 0 .. head]
      BY <1>2 DEF Begin, Answers
  <2>4. /\ to' \in [Calls -> 0 .. head]
        /\ from' \in [Calls -> 0 .. head]
        /\ seen' \in [Calls -> 0 .. head]
      BY <1>2, <2>1 DEF Begin
  <2> QED BY <2>2, <2>3, <2>4
<1>3. ASSUME NEW c \in Calls, Hit(c) PROVE ScanTypeOK'
  <2>1. PICK r \in Logs(c) : Answers(c, Found(c, r))
      BY <1>3 DEF Hit
  <2>2. Found(c, r) \in 0 .. head
      BY DEF Found, Logs
  <2> QED BY <1>3, <2>1, <2>2 DEF Hit, Answers
<1>4. ASSUME NEW c \in Calls, Miss(c) PROVE ScanTypeOK'
  <2>1. NextTo(c) \in 0 .. head /\ NextFrom(c) \in 0 .. head
      BY IntervalType DEF NextTo, NextFrom
  <2> QED BY <1>4, <2>1 DEF Miss, Answers
<1>5. CASE UNCHANGED scanVars
    BY <1>5 DEF scanVars
<1> QED BY <1>1, <1>2, <1>3, <1>4, <1>5 DEF ScanNext

\* A call that does not move keeps its promise when L1 grows: the new root is
\* above what the call has seen.
LEMMA ScannedFrame ==
    ASSUME NEW c \in Calls, ScanTypeOK, Scanned(c),
           place'[c] = place[c], to'[c] = to[c], from'[c] = from[c],
           answer'[c] = answer[c], seen'[c] = seen[c],
           roots \subseteq roots', roots' \subseteq roots \cup {head + 1}
    PROVE  Scanned(c)'
<1>1. \A r \in roots' : r <= seen[c] => r \in roots
    BY DEF ScanTypeOK
<1> QED BY <1>1 DEF Scanned, Window, Newest, Before, Interval

\* The first window reaches up to the tip.
LEMMA BeginScanned ==
    ASSUME NEW c \in Calls, ScanIInv, Begin(c) PROVE Scanned(c)'
<1> USE DEF ScanIInv, ScanTypeOK
<1>1. /\ to'[c] = head /\ from'[c] = FirstFrom(c) /\ seen'[c] = head
      /\ UNCHANGED <<head, roots>>
    BY DEF Begin
<1>2. CASE GoesOn(head)
  <2>1. place'[c] = "asked"
      BY <1>2 DEF Begin
  <2>2. FirstFrom(c) <= head /\ head <= FirstFrom(c) + Interval(c)
      BY IntervalType DEF FirstFrom
  <2>3. Deployed < head
      BY <1>2 DEF GoesOn
  <2> QED BY <1>1, <2>1, <2>2, <2>3 DEF Scanned, Window, Interval
<1>3. CASE ~ GoesOn(head)
  <2>1. roots' = {}
      BY <1>1, <1>3 DEF GoesOn
  <2> QED BY <1>1, <1>3, <2>1 DEF Scanned, Begin, Answers, Newest, Before
<1> QED BY <1>2, <1>3

\* The newest event of the first window that has one is the newest root.
LEMMA HitScanned ==
    ASSUME NEW c \in Calls, ScanIInv, Hit(c) PROVE Scanned(c)'
<1> USE DEF ScanIInv, ScanTypeOK
<1>1. PICK r \in Logs(c) : /\ \A q \in Logs(c) : q <= r
                           /\ Answers(c, Found(c, r))
    BY DEF Hit
<1>2. /\ place'[c] = "done" /\ answer'[c] = Found(c, r)
      /\ seen' = seen /\ roots' = roots
    BY <1>1 DEF Answers, Hit
<1>3. Window(c)
    BY DEF Hit, Scanned
<1>4. r \in roots /\ from[c] <= r /\ r <= to[c]
    BY DEF Logs
<1>5. \A q \in roots : q <= seen[c] => q <= r
  <2> SUFFICES ASSUME NEW q \in roots, q <= seen[c] PROVE q <= r
      OBVIOUS
  <2>1. q <= to[c]
      BY <1>3 DEF Window
  <2>2. CASE from[c] <= q
      BY <1>1, <2>1, <2>2 DEF Logs
  <2>3. CASE ~ from[c] <= q
      BY <1>4, <2>3
  <2> QED BY <2>2, <2>3
<1>6. CASE c \in RootScans
  <2>1. answer'[c] = r /\ r <= seen[c]
      BY <1>2, <1>3, <1>4, <1>6 DEF Found, Window
  <2>2. Newest(c)'
      BY <1>2, <1>4, <1>5, <2>1 DEF Newest
  <2> QED BY <1>2, <1>6, <2>2 DEF Scanned
<1>7. CASE c \in PositionScans
  <2>1. answer'[c] = from[c] /\ Interval(c) = PositionInterval
      BY <1>2, <1>7 DEF Found, Interval
  <2>2. r <= from[c] + PositionInterval /\ from[c] # None
      BY <1>3, <1>4, <2>1 DEF Window, None
  <2>3. Before(c)'
      BY <1>2, <1>4, <1>5, <2>1, <2>2 DEF Before
  <2> QED BY <1>2, <1>7, <2>3 DEF Scanned
<1> QED BY <1>6, <1>7 DEF Calls

\* A window without an event rules out the blocks down to its lower end, which
\* the next one contains again.
LEMMA MissScanned ==
    ASSUME NEW c \in Calls, ScanIInv, Miss(c) PROVE Scanned(c)'
<1> USE DEF ScanIInv, ScanTypeOK
<1>1. /\ place[c] = "asked" /\ Logs(c) = {}
      /\ to'[c] = from[c] /\ from'[c] = NextFrom(c)
      /\ seen' = seen /\ roots' = roots
    BY DEF Miss, NextTo
<1>2. Window(c)
    BY <1>1 DEF Scanned
<1>3. \A r \in roots : r <= seen[c] => r <= from[c]
    BY <1>1, <1>2 DEF Window, Logs
<1>4. CASE GoesOn(from[c])
  <2>1. place'[c] = "asked"
      BY <1>1, <1>4 DEF Miss, NextTo
  <2>2. NextFrom(c) <= from[c] /\ from[c] <= NextFrom(c) + Interval(c)
      BY <1>4, IntervalType DEF NextFrom, NextTo, GoesOn
  <2>3. Deployed < from[c] /\ from[c] <= seen[c]
      BY <1>2, <1>4 DEF GoesOn, Window
  <2> QED BY <1>1, <1>3, <2>1, <2>2, <2>3 DEF Scanned, Window, Interval
<1>5. CASE ~ GoesOn(from[c])
  <2>1. place'[c] = "done"
      BY <1>5 DEF Miss, NextTo, Answers
  <2>2. \A r \in roots : ~ r <= seen[c]
      BY <1>3, <1>5 DEF GoesOn
  <2> QED BY <1>1, <2>1, <2>2 DEF Scanned, Newest, Before
<1> QED BY <1>4, <1>5

\* A step of one call leaves the others alone.
LEMMA ScannedStep ==
    ASSUME ScanIInv, [ScanNext]_scanVars, NEW d \in Calls PROVE Scanned(d)'
<1> USE DEF ScanIInv
<1>1. CASE MineBlock
    BY <1>1, ScannedFrame DEF MineBlock
<1>2. ASSUME NEW c \in Calls, Begin(c) \/ Hit(c) \/ Miss(c)
      PROVE  Scanned(d)'
  <2>1. CASE c = d
      BY <1>2, <2>1, BeginScanned, HitScanned, MissScanned
  <2>2. CASE c # d
    <3>1. /\ place'[d] = place[d] /\ to'[d] = to[d] /\ from'[d] = from[d]
          /\ answer'[d] = answer[d] /\ seen'[d] = seen[d] /\ roots' = roots
        BY <1>2, <2>2 DEF Begin, Hit, Miss, Answers, ScanTypeOK
    <3> QED BY <3>1, ScannedFrame
  <2> QED BY <2>1, <2>2
<1>3. CASE UNCHANGED scanVars
    BY <1>3, ScannedFrame DEF scanVars
<1> QED BY <1>1, <1>2, <1>3 DEF ScanNext

-----------------------------------------------------------------------------
\* The inductive invariant of the scans.
THEOREM ScanInvariant == ScanSpec => []ScanIInv
<1>1. ScanIInv /\ [ScanNext]_scanVars => ScanIInv'
    BY ScanTypeStep, ScannedStep DEF ScanIInv
<1> QED BY <1>1, ScanIInvInit, PTL DEF ScanSpec

\* The windows of every scan stay between the deployment and the tip.
THEOREM ScanTypeCorrect == ScanSpec => []ScanTypeOK
<1>1. ScanIInv => ScanTypeOK
    BY DEF ScanIInv
<1> QED BY <1>1, ScanInvariant, PTL

\* No scan for the newest root misses one that was there when it began,
\* whatever the tip, the deployment and the length of the windows.
THEOREM NewestRootFound == ScanSpec => []FindsNewestRoot
<1>1. ScanIInv => FindsNewestRoot
    BY DEF ScanIInv, Scanned, Newest, FindsNewestRoot, Calls
<1> QED BY <1>1, ScanInvariant, PTL

\* Derivation never starts after the newest root, nor more than a window
\* before it.
THEOREM PositionBeforeRoot == ScanSpec => []StartsBeforeNewestRoot
<1>1. ScanIInv => StartsBeforeNewestRoot
    BY DEF ScanIInv, Scanned, Before, StartsBeforeNewestRoot, Calls
<1> QED BY <1>1, ScanInvariant, PTL
=============================================================================
