---------------------------- MODULE BridgeProofs ----------------------------
(***************************************************************************)
(* What holds of the bridge for all sets of deposits, withdrawals and      *)
(* requests, all amounts and all bounds.                                   *)
(***************************************************************************)
EXTENDS Bridge, TLAPS, FiniteSetTheorems, WellFoundedInduction

USE BridgeAssumption DEF BridgeAssumption

\* Later outputs are of later blocks.
OutputsRise == \A i \in 1 .. Len(outputs) : outputs[i] <= Newest

\* The portal notes what it pays.
PaymentsNoted == \A w \in Withdrawals : /\ paid[w] <= 1
                                        /\ paid[w] = 1 => w \in finalized

\* What is proved is under a root.
ProvenCovered == \A w \in proven : Covers(Newest, w)

\* A proof that is made names a root that is on L1.
IndexesExist == \A q \in Requests :
    request[q].place = "submit" => request[q].index \in 1 .. Len(outputs)

BridgeIInv == /\ BridgeTypeOK
              /\ OutputsRise
              /\ PaymentsNoted
              /\ ProvenCovered
              /\ IndexesExist

-----------------------------------------------------------------------------
(* Lists of outputs, and what a request can be. *)

\* Append stays within the sequences over a set, and is not empty.
LEMMA AppendType ==
    ASSUME NEW S, NEW s \in Seq(S), NEW x \in S
    PROVE  Append(s, x) \in Seq(S) /\ Append(s, x) # <<>>
OBVIOUS

\* The place of a request tells the rest of it.
LEMMA RequestCases ==
    ASSUME BridgeTypeOK, NEW q \in Requests
    PROVE  /\ request[q].place = "root" => request[q] \in Asked
           /\ request[q].place = "submit" => request[q] \in Ready
<1>1. request[q] \in {NoRequest} \cup Asked \cup Ready
    BY DEF BridgeTypeOK
<1>2. NoRequest.place = "idle"
    BY DEF NoRequest
<1>3. \A r \in Asked : r.place = "root"
    BY DEF Asked
<1>4. \A r \in Ready : r.place = "submit"
    BY DEF Ready
<1>. QED
    BY <1>1, <1>2, <1>3, <1>4

\* There is a newest output, the last of the list.
LEMMA NewestType ==
    ASSUME BridgeTypeOK
    PROVE  /\ Len(outputs) \in Nat \ {0}
           /\ Newest \in 1 .. height
           /\ \A i \in 1 .. Len(outputs) : outputs[i] \in 1 .. height
BY DEF BridgeTypeOK, Newest

-----------------------------------------------------------------------------
\* The invariant holds at the start.
LEMMA BridgeIInvInit == BridgeInit => BridgeIInv
<1> SUFFICES ASSUME BridgeInit PROVE BridgeIInv
    OBVIOUS
<1> USE DEF BridgeInit
<1>1. BridgeTypeOK
  <2>1. outputs \in Seq(1 .. height) /\ outputs # <<>>
      OBVIOUS
  <2>2. /\ locked \in Nat /\ supply \in Nat /\ deposited \subseteq Deposits
        /\ finalized \subseteq proven /\ proven \subseteq Withdrawals
        /\ paid \in [Withdrawals -> Nat]
        /\ height \in 1 .. MaxHeight
        /\ withdrawnAt \in [Withdrawals -> 0 .. height]
        /\ unbacked \in 0 .. MaxUnbacked
      OBVIOUS
  <2>3. fresh \in Seq(Deposits)
      OBVIOUS
  <2>4. watching \in BOOLEAN /\ callbacks \subseteq Seq(Deposits) \ {<<>>}
      OBVIOUS
  <2>5. request \in [Requests -> {NoRequest} \cup Asked \cup Ready]
      OBVIOUS
  <2>6. crashes \in 0 .. MaxCrashes /\ rejections \in 0 .. MaxRejections
      OBVIOUS
  <2>. QED
      BY <2>1, <2>2, <2>3, <2>4, <2>5, <2>6 DEF BridgeTypeOK
<1>2. OutputsRise
    BY DEF OutputsRise, Newest
<1>3. PaymentsNoted /\ ProvenCovered
    BY DEF PaymentsNoted, ProvenCovered
<1>4. IndexesExist
    BY DEF IndexesExist, NoRequest
<1>. QED
    BY <1>1, <1>2, <1>3, <1>4 DEF BridgeIInv

-----------------------------------------------------------------------------
(* Type correctness, an action at a time. *)

\* Every step keeps the type.
LEMMA BridgeTypeStep == BridgeIInv /\ [BridgeNext]_bridgeVars => BridgeTypeOK'
<1> SUFFICES ASSUME BridgeIInv, [BridgeNext]_bridgeVars PROVE BridgeTypeOK'
    OBVIOUS
<1> USE DEF BridgeIInv, BridgeTypeOK, limits
<1>1. ASSUME NEW d \in Deposits, DepositETH(d) PROVE BridgeTypeOK'
  <2>1. locked' \in Nat
      BY <1>1 DEF DepositETH
  <2>2. fresh' \in Seq(Deposits)
      BY <1>1 DEF DepositETH
  <2>. QED
      BY <1>1, <2>1, <2>2 DEF DepositETH, onL3
<1>2. CASE Watch
    BY <1>2 DEF Watch, onL1, onPortal, onL3
<1>3. CASE CallBack
    BY <1>3, SMTT(30) DEF CallBack, onL1, onPortal, onL3
<1>4. ASSUME NEW ds \in callbacks, Mint(ds) PROVE BridgeTypeOK'
  <2>1. ds \in Seq(Deposits) /\ ds # <<>>
      BY <1>4
  <2>2. Tail(ds) \in Seq(Deposits) /\ Head(ds) \in Deposits
      BY <2>1
  <2>3. callbacks' \subseteq Seq(Deposits) \ {<<>>}
      BY <1>4, <2>2 DEF Mint, Rest
  <2>4. supply' \in Nat
    <3>1. Amount[Head(ds)] \in Nat
        BY <2>2
    <3>. QED
        BY <1>4, <3>1 DEF Mint
  <2>. QED
      BY <1>4, <2>3, <2>4 DEF Mint, onL1, onPortal
<1>5. CASE MintOnRequest
    BY <1>5 DEF MintOnRequest, onL1, onPortal, watcher
<1>6. CASE BridgeCrash
  <2>1. \A ds \in callbacks : Amount[Head(ds)] \in Nat
    <3>1. ASSUME NEW ds \in callbacks PROVE Head(ds) \in Deposits
        OBVIOUS
    <3>. QED
        BY <3>1
  <2>2. supply' \in Nat
      BY <1>6, <2>1, SMTT(30) DEF BridgeCrash
  <2>3. request' \in [Requests -> {NoRequest} \cup Asked \cup Ready]
      BY <1>6 DEF BridgeCrash
  <2>4. /\ watching' \in BOOLEAN
        /\ callbacks' \subseteq Seq(Deposits) \ {<<>>}
      BY <1>6 DEF BridgeCrash
  <2>5. fresh' \in Seq(Deposits)
      BY <1>6 DEF BridgeCrash
  <2>6. crashes' \in 0 .. MaxCrashes
      BY <1>6 DEF BridgeCrash
  <2>. QED
      BY <1>6, <2>2, <2>3, <2>4, <2>5, <2>6 DEF BridgeCrash, onL1, onPortal
<1>7. ASSUME NEW w \in Withdrawals, WithdrawETH(w) PROVE BridgeTypeOK'
  <2>1. /\ height < MaxHeight /\ height' = height + 1 /\ Amount[w] <= supply
        /\ supply' = supply - Amount[w]
        /\ withdrawnAt' = [withdrawnAt EXCEPT ![w] = height + 1]
        /\ UNCHANGED <<onL1, onPortal, unbacked, watcher, request, crashes, rejections>>
      BY <1>7 DEF WithdrawETH
  <2>2. height \in 1 .. MaxHeight /\ height' \in 1 .. MaxHeight
      BY <2>1
  <2>3. supply' \in Nat
    <3>1. Amount[w] \in Nat /\ supply \in Nat
        OBVIOUS
    <3>. QED
        BY <2>1, <3>1
  <2>4. withdrawnAt' \in [Withdrawals -> 0 .. height']
      BY <2>1, <2>2, SMTT(30)
  <2>5. outputs' \in Seq(1 .. height') /\ outputs' # <<>>
      BY <2>1, <2>2 DEF onL1
  <2>. QED
      BY <2>1, <2>2, <2>3, <2>4, <2>5 DEF onL1, onPortal, watcher
<1>8. ASSUME NEW n \in 1 .. height, ProposeL2Output(n) PROVE BridgeTypeOK'
  <2>1. outputs' \in Seq(1 .. height) /\ outputs' # <<>>
    <3>1. outputs \in Seq(1 .. height) /\ outputs' = Append(outputs, n)
        BY <1>8 DEF ProposeL2Output
    <3>. QED
        BY <3>1, AppendType
  <2>. QED
      BY <1>8, <2>1 DEF ProposeL2Output, onPortal, onL3, watcher
<1>9. ASSUME NEW q \in Requests, ReadRoot(q) PROVE BridgeTypeOK'
  <2>1. request' \in [Requests -> {NoRequest} \cup Asked \cup Ready]
    <3>1. request[q].id \in Withdrawals /\ request[q].kind \in {"prove", "finalize"}
        BY <1>9, RequestCases DEF ReadRoot, Asked
    <3>2. Len(outputs) \in Nat
        BY NewestType
    <3>3. [place |-> "submit", kind |-> request[q].kind, id |-> request[q].id,
           index |-> Len(outputs)] \in Ready
        BY <3>1, <3>2 DEF Ready
    <3>. QED
        BY <1>9, <3>3 DEF ReadRoot
  <2>. QED
      BY <1>9, <2>1 DEF ReadRoot, onL1, onPortal, onL3, watcher
<1>10. ASSUME NEW q \in Requests, Submit(q) PROVE BridgeTypeOK'
  <2> DEFINE w == request[q].id
  <2>1. w \in Withdrawals
      BY <1>10, RequestCases DEF Submit, Ready
  <2>2. UNCHANGED <<onL3, watcher, crashes>> /\ request' = [request EXCEPT ![q] = NoRequest]
      BY <1>10 DEF Submit
  <2>3. CASE ProveWithdrawal(w, request[q].index)
      BY <2>1, <2>2, <2>3 DEF ProveWithdrawal, onPortal, onL3, watcher
  <2>4. CASE FinalizeWithdrawal(w)
    <3>1. /\ locked' \in Nat
          /\ paid' \in [Withdrawals -> Nat]
          /\ finalized' \subseteq proven
          /\ rejections' \in 0 .. MaxRejections
      <4>1. Amount[w] \in Nat
          BY <2>1
      <4>2. CASE ~ MayFinalize(w)
          BY <2>4, <4>2 DEF FinalizeWithdrawal, onPortal
      <4>3. CASE MayFinalize(w)
        <5>1. w \in proven
            BY <4>3 DEF MayFinalize
        <5>2. finalized' \subseteq proven
            BY <2>4, <4>3, <5>1 DEF FinalizeWithdrawal, Done
        <5>3. locked' \in Nat
            BY <2>4, <4>1, <4>3, SMTT(30) DEF FinalizeWithdrawal, Done
        <5>4. paid' \in [Withdrawals -> Nat]
          <6>1. paid' = paid \/ paid' = [paid EXCEPT ![w] = @ + 1]
              BY <2>4, <4>3 DEF FinalizeWithdrawal, Done
          <6>2. paid \in [Withdrawals -> Nat] /\ paid[w] + 1 \in Nat
              BY <2>1
          <6>. QED
              BY <6>1, <6>2
        <5>5. rejections' \in 0 .. MaxRejections
            BY <2>4, <4>3 DEF FinalizeWithdrawal, Done
        <5>. QED
            BY <5>2, <5>3, <5>4, <5>5
      <4>. QED
          BY <4>2, <4>3
    <3>. QED
        BY <2>2, <2>4, <3>1 DEF FinalizeWithdrawal, onL1, onL3, watcher
  <2>. QED
      BY <1>10, <2>3, <2>4 DEF Submit
<1>11. ASSUME NEW q \in Requests, NEW w \in Withdrawals,
              NEW kind \in {"prove", "finalize"}, Ask(q, w, kind)
       PROVE  BridgeTypeOK'
    BY <1>11 DEF Ask, Asked, onL1, onPortal, onL3, watcher
<1>12. CASE UNCHANGED bridgeVars
    BY <1>12 DEF bridgeVars, onL1, onPortal, onL3, watcher
<1>. QED
    BY <1>1, <1>2, <1>3, <1>4, <1>5, <1>6, <1>7, <1>8, <1>9, <1>10, <1>11, <1>12
    DEF BridgeNext

-----------------------------------------------------------------------------
(* The rest of the invariant: most actions leave alone what it is about.   *)

\* A step that only lets L3 grow, adds proofs to L1 under its newest root and
\* drops requests keeps it.
Harmless ==
    /\ UNCHANGED <<outputs, proven, finalized, paid>>
    /\ \A w \in Withdrawals : Covers(Newest, w) => withdrawnAt'[w] = withdrawnAt[w]
    /\ \A q \in Requests : request'[q].place = "submit" => request'[q] = request[q]

\* A harmless step keeps the invariant, the type aside.
LEMMA HarmlessStep ==
    ASSUME BridgeIInv, Harmless
    PROVE  OutputsRise' /\ PaymentsNoted' /\ ProvenCovered' /\ IndexesExist'
<1> USE DEF BridgeIInv, Harmless
<1>1. OutputsRise' /\ PaymentsNoted'
    BY DEF OutputsRise, PaymentsNoted, Newest
<1>2. ProvenCovered'
    BY DEF ProvenCovered, Covers, Newest, BridgeTypeOK
<1>3. IndexesExist'
    BY DEF IndexesExist
<1>. QED
    BY <1>1, <1>2, <1>3

\* Every step keeps the rest of the invariant.
LEMMA BridgeSafeStep ==
    BridgeIInv /\ [BridgeNext]_bridgeVars =>
        OutputsRise' /\ PaymentsNoted' /\ ProvenCovered' /\ IndexesExist'
<1> DEFINE Goal == OutputsRise' /\ PaymentsNoted' /\ ProvenCovered' /\ IndexesExist'
<1> SUFFICES ASSUME BridgeIInv, [BridgeNext]_bridgeVars PROVE Goal
    OBVIOUS
<1> USE DEF BridgeIInv
<1>0. NoRequest.place # "submit"
    BY DEF NoRequest
<1>1. ASSUME NEW d \in Deposits, DepositETH(d) PROVE Goal
    BY <1>1, HarmlessStep DEF DepositETH, Harmless, onL3
<1>2. CASE Watch
    BY <1>2, HarmlessStep DEF Watch, Harmless, onL1, onPortal, onL3
<1>3. CASE CallBack
    BY <1>3, HarmlessStep DEF CallBack, Harmless, onL1, onPortal, onL3
<1>4. ASSUME NEW ds \in callbacks, Mint(ds) PROVE Goal
    BY <1>4, HarmlessStep DEF Mint, Harmless, onL1, onPortal
<1>5. CASE MintOnRequest
    BY <1>5, HarmlessStep DEF MintOnRequest, Harmless, onL1, onPortal
<1>6. CASE BridgeCrash
    BY <1>0, <1>6, HarmlessStep DEF BridgeCrash, Harmless, onL1, onPortal
<1>7. ASSUME NEW w \in Withdrawals, WithdrawETH(w) PROVE Goal
    BY <1>7, HarmlessStep
    DEF WithdrawETH, Harmless, Covers, BridgeTypeOK, onL1, onPortal
<1>8. ASSUME NEW n \in 1 .. height, ProposeL2Output(n) PROVE Goal
  <2>1. /\ Len(outputs') = Len(outputs) + 1
        /\ Newest' = n
        /\ \A i \in 1 .. Len(outputs) : outputs'[i] = outputs[i]
      BY <1>8, NewestType DEF ProposeL2Output, Newest, BridgeTypeOK
  <2>2. UNCHANGED <<proven, finalized, paid, withdrawnAt, request>> /\ n > Newest
      BY <1>8 DEF ProposeL2Output, onPortal, onL3
  <2>3. OutputsRise'
    <3>1. ASSUME NEW i \in 1 .. Len(outputs') PROVE outputs'[i] <= Newest'
      <4>1. CASE i = Len(outputs')
          BY <2>1, <2>2, <4>1, NewestType DEF Newest
      <4>2. CASE i \in 1 .. Len(outputs)
          BY <2>1, <2>2, <4>2, NewestType DEF OutputsRise
      <4>. QED
          BY <2>1, <4>1, <4>2, NewestType
    <3>. QED
        BY <3>1 DEF OutputsRise
  <2>4. PaymentsNoted'
      BY <2>2 DEF PaymentsNoted
  <2>5. ProvenCovered'
      BY <2>1, <2>2, NewestType, SMTT(30) DEF ProvenCovered, Covers, BridgeTypeOK
  <2>6. IndexesExist'
      BY <2>1, <2>2, NewestType DEF IndexesExist
  <2>. QED
      BY <2>3, <2>4, <2>5, <2>6
<1>9. ASSUME NEW q \in Requests, ReadRoot(q) PROVE Goal
  <2>1. UNCHANGED <<outputs, proven, finalized, paid, withdrawnAt>>
      BY <1>9 DEF ReadRoot, onL1, onPortal, onL3
  <2>2. OutputsRise' /\ PaymentsNoted'
      BY <2>1 DEF OutputsRise, PaymentsNoted, Newest
  <2>3. ProvenCovered'
      BY <2>1 DEF ProvenCovered, Covers, Newest
  <2>4. request[q] \in Asked
      BY <1>9, RequestCases DEF ReadRoot
  <2>5. request'[q].place = "submit" => request'[q].index = Len(outputs)
      BY <1>0, <1>9, <2>4 DEF ReadRoot, BridgeTypeOK
  <2>6. \A p \in Requests \ {q} : request'[p] = request[p]
      BY <1>9 DEF ReadRoot, BridgeTypeOK
  <2>7. IndexesExist'
      BY <2>1, <2>5, <2>6, NewestType DEF IndexesExist
  <2>. QED
      BY <2>2, <2>3, <2>7
<1>10. ASSUME NEW q \in Requests, Submit(q) PROVE Goal
  <2> DEFINE w == request[q].id
  <2>1. w \in Withdrawals /\ request[q].index \in 1 .. Len(outputs)
      BY <1>10, RequestCases DEF Submit, Ready, IndexesExist
  <2>2. UNCHANGED <<outputs, withdrawnAt>>
      BY <1>10 DEF Submit, ProveWithdrawal, FinalizeWithdrawal, onL1, onL3
  <2>3. OutputsRise'
      BY <2>2 DEF OutputsRise, Newest
  <2>4. IndexesExist'
      BY <1>0, <1>10, <2>2 DEF Submit, IndexesExist, BridgeTypeOK
  <2>5. CASE ProveWithdrawal(w, request[q].index)
    <3>1. PaymentsNoted'
        BY <2>5 DEF ProveWithdrawal, PaymentsNoted, onPortal
    <3>2. Covers(outputs[request[q].index], w) => Covers(Newest, w)
      <4>1. outputs[request[q].index] <= Newest
          BY <2>1 DEF OutputsRise
      <4>2. outputs[request[q].index] \in Nat /\ Newest \in Nat
        <5>1. height \in Nat
            BY DEF BridgeTypeOK
        <5>. QED
            BY <2>1, <5>1, NewestType
      <4>3. withdrawnAt[w] \in Nat
          BY <2>1 DEF BridgeTypeOK
      <4>. HIDE DEF w
      <4>. QED
          BY <4>1, <4>2, <4>3 DEF Covers
    <3>3. ProvenCovered'
        BY <2>2, <2>5, <3>2 DEF ProveWithdrawal, ProvenCovered, Covers, Newest
    <3>. QED
        BY <2>3, <2>4, <3>1, <3>3
  <2>6. CASE FinalizeWithdrawal(w)
    <3>1. ProvenCovered'
        BY <2>2, <2>6 DEF FinalizeWithdrawal, ProvenCovered, Covers, Newest, onL1
    <3>2. PaymentsNoted'
        BY <2>1, <2>6, SMTT(30)
        DEF FinalizeWithdrawal, PaymentsNoted, MayFinalize, Done, onPortal, BridgeTypeOK
    <3>. QED
        BY <2>3, <2>4, <3>1, <3>2
  <2>. QED
      BY <1>10, <2>5, <2>6 DEF Submit
<1>11. ASSUME NEW q \in Requests, NEW w \in Withdrawals,
              NEW kind \in {"prove", "finalize"}, Ask(q, w, kind)
       PROVE  Goal
    BY <1>11, HarmlessStep DEF Ask, Harmless, BridgeTypeOK, onL1, onPortal, onL3
<1>12. CASE UNCHANGED bridgeVars
    BY <1>12, HarmlessStep DEF Harmless, bridgeVars, onL1, onPortal, onL3
<1>. QED
    BY <1>1, <1>2, <1>3, <1>4, <1>5, <1>6, <1>7, <1>8, <1>9, <1>10, <1>11, <1>12
    DEF BridgeNext

-----------------------------------------------------------------------------
(* The theorems. *)

\* The invariant holds in every reachable state of the bridge.
THEOREM BridgeInvariant == BridgeSpec => []BridgeIInv
<1>1. BridgeIInv /\ [BridgeNext]_bridgeVars => BridgeIInv'
    BY BridgeTypeStep, BridgeSafeStep DEF BridgeIInv
<1>. QED
    BY <1>1, BridgeIInvInit, PTL DEF BridgeSpec

\* Every reachable state of portal, oracle, L3, watcher and requests has its
\* type (LibplanetPortal.sol, app.service.ts, evm.service.ts).
THEOREM BridgeTypeCorrect == BridgeSpec => []BridgeTypeOK
<1>1. BridgeIInv => BridgeTypeOK
    BY DEF BridgeIInv
<1>. QED
    BY <1>1, BridgeInvariant, PTL

\* A withdrawal is paid at most once, and only under an output root that covers
\* its block (proveWithdrawalTransaction and finalizeWithdrawalTransaction of
\* LibplanetPortal.sol), with any number of requests that overlap.
THEOREM PaymentsSound == BridgeSpec => []PaidOnceAndCommitted
<1>1. BridgeIInv => PaidOnceAndCommitted
    BY DEF BridgeIInv, BridgeTypeOK, PaymentsNoted, ProvenCovered, Covers,
           PaidOnceAndCommitted
<1>. QED
    BY <1>1, BridgeInvariant, PTL

-----------------------------------------------------------------------------
(* Finite sets.  What follows is about sums over them: the library's theorem *)
(* of induction takes an operator, so a property is given by the set of what  *)
(* has it.                                                                   *)

\* The order of the naturals, in the form the well-foundedness facts take.
LEMMA NatWellFounded == IsWellFoundedOn({p \in Nat \X Nat : p[1] < p[2]}, Nat)
<1>1. OpToRel(<, Nat) = {p \in Nat \X Nat : p[1] < p[2]}
    BY DEF OpToRel
<1>. QED BY <1>1, NatLessThanWellFounded

\* A property of finite sets, given by the sets C that have it, holds of all of
\* them when it holds of a set all of whose proper subsets have it.
LEMMA FiniteSubsets ==
    ASSUME NEW D, NEW C,
           \A S \in SUBSET D :
               IsFiniteSet(S) /\ (\A s \in SUBSET S : s # S => s \in C) => S \in C
    PROVE  \A S \in SUBSET D : IsFiniteSet(S) => S \in C
<1> DEFINE R == {p \in Nat \X Nat : p[1] < p[2]}
           Bad(n) == \E S \in SUBSET D : IsFiniteSet(S) /\ Cardinality(S) = n /\ S \notin C
           T == {n \in Nat : Bad(n)}
<1> SUFFICES ASSUME NEW S \in SUBSET D, IsFiniteSet(S), S \notin C PROVE FALSE
    OBVIOUS
<1>1. Cardinality(S) \in T
    BY FS_CardinalityType
<1>2. PICK n \in T : \A m \in T : <<m, n>> \notin R
  <2>1. T \subseteq Nat /\ T # {}
      BY <1>1
  <2>. HIDE DEF R, T
  <2>. QED
      BY <2>1, NatWellFounded, WFMin DEF R
<1>3. \A m \in T : ~ (m < n)
  <2>1. n \in Nat /\ T \subseteq Nat
      OBVIOUS
  <2>. HIDE DEF T
  <2>. QED
      BY <1>2, <2>1
<1>4. PICK X \in SUBSET D : IsFiniteSet(X) /\ Cardinality(X) = n /\ X \notin C
    OBVIOUS
<1>5. PICK s \in SUBSET X : s # X /\ s \notin C
    BY <1>4
<1>6. IsFiniteSet(s) /\ Cardinality(s) < Cardinality(X) /\ Cardinality(s) \in Nat
  <2>1. IsFiniteSet(s) /\ Cardinality(s) <= Cardinality(X)
        /\ (Cardinality(X) = Cardinality(s) => X = s)
      BY <1>4, FS_Subset
  <2>2. Cardinality(s) \in Nat /\ Cardinality(X) \in Nat
      BY <1>4, <2>1, FS_CardinalityType
  <2>. QED
      BY <1>5, <2>1, <2>2
<1>7. Cardinality(s) \in T
    BY <1>5, <1>6
<1>. QED
    BY <1>3, <1>4, <1>6, <1>7

-----------------------------------------------------------------------------
(* Sums of amounts. *)

Parties == Deposits \cup Withdrawals

TotalOf(S) == MapThenSumSet(LAMBDA w : Amount[w], S)

Pick(S) == CHOOSE x \in S : TRUE

\* g sums up the subsets of S, an element at a time.
Sums(g, S) ==
    g = [s \in SUBSET S |-> IF s = {} THEN 0 ELSE Amount[Pick(s)] + g[s \ {Pick(s)}]]

SumStep(g, s) == IF s = {} THEN 0 ELSE Amount[Pick(s)] + g[s \ {Pick(s)}]

\* A set that is not empty has the element picked from it.
LEMMA Picked == \A S : S # {} => Pick(S) \in S
BY DEF Pick

\* A function that sums up the subsets of S does so for each of them.
LEMMA SumsAt == \A g, S : Sums(g, S) => \A s \in SUBSET S : g[s] = SumStep(g, s)
<1> SUFFICES ASSUME NEW g, NEW S, Sums(g, S), NEW s \in SUBSET S
             PROVE  g[s] = SumStep(g, s)
    OBVIOUS
<1>. QED
    BY DEF Sums, SumStep

\* Two functions that sum up agree on the finite sets both are about.
Agree(s) ==
    \A S, T, g, h : s \subseteq S /\ s \subseteq T /\ Sums(g, S) /\ Sums(h, T) => g[s] = h[s]

\* So their values do not depend on which of them is chosen.
LEMMA SumsUnique == \A s \in SUBSET Parties : IsFiniteSet(s) => Agree(s)
<1> DEFINE C == {s \in SUBSET Parties : Agree(s)}
<1>1. ASSUME NEW s \in SUBSET Parties,
             \A r \in SUBSET s : r # s => r \in C
      PROVE  Agree(s)
  <2>1. ASSUME NEW S, NEW T, NEW g, NEW h,
               s \subseteq S, s \subseteq T, Sums(g, S), Sums(h, T)
        PROVE  g[s] = h[s]
    <3>1. g[s] = SumStep(g, s) /\ h[s] = SumStep(h, s)
        BY <2>1, SumsAt
    <3>2. CASE s # {}
      <4> DEFINE r == s \ {Pick(s)}
      <4>1. r \in SUBSET s /\ r # s
          BY <3>2, Picked
      <4>2. Agree(r) /\ r \subseteq S /\ r \subseteq T
          BY <1>1, <2>1, <4>1
      <4>3. g[r] = h[r]
          BY <2>1, <4>2, SMTT(30) DEF Agree
      <4>. QED
          BY <3>1, <3>2, <4>3 DEF SumStep
    <3>. QED
        BY <3>1, <3>2 DEF SumStep
  <2>. QED
      BY <2>1 DEF Agree
<1>2. \A s \in SUBSET Parties :
          IsFiniteSet(s) /\ (\A r \in SUBSET s : r # s => r \in C) => s \in C
    BY <1>1
<1>. HIDE DEF C
<1>3. \A s \in SUBSET Parties : IsFiniteSet(s) => s \in C
    BY <1>2, FiniteSubsets
<1>. QED
    BY <1>3 DEF C

\* There is such a function for every finite set.
LEMMA SumsExist ==
    \A S \in SUBSET Parties : IsFiniteSet(S) => \E g : Sums(g, S)
<1> DEFINE C == {S \in SUBSET Parties : \E g : Sums(g, S)}
<1>1. ASSUME NEW S \in SUBSET Parties, IsFiniteSet(S),
             \A s \in SUBSET S : s # S => s \in C
      PROVE  \E g : Sums(g, S)
  <2> DEFINE G(s) == CHOOSE g : Sums(g, s)
             Less(s) == s \ {Pick(s)}
             val(s) == IF s = {} THEN 0 ELSE Amount[Pick(s)] + G(Less(s))[Less(s)]
             h == [s \in SUBSET S |-> val(s)]
  <2>1. \A s \in SUBSET S : s # {} => Less(s) \in SUBSET S /\ Less(s) # S
      BY Picked
  <2>2. \A s \in SUBSET S : s # S => Sums(G(s), s)
    <3> SUFFICES ASSUME NEW s \in SUBSET S, s # S PROVE Sums(G(s), s)
        OBVIOUS
    <3>1. \E g : Sums(g, s)
        BY <1>1
    <3>. QED
        BY <3>1
  <2>3. ASSUME NEW s \in SUBSET S, s # {}
        PROVE  h[Less(s)] = G(Less(s))[Less(s)]
    <3> DEFINE r == Less(s)
               q == Less(r)
    <3>1. r \in SUBSET S /\ r # S
        BY <2>1, <2>3
    <3>2. Sums(G(r), r)
        BY <2>2, <3>1
    <3>3. G(r)[r] = SumStep(G(r), r)
        BY <3>2, SumsAt
    <3>4. h[r] = val(r)
        BY <3>1
    <3>5. CASE r # {}
      <4>1. q \in SUBSET S /\ q # S /\ q \subseteq r
          BY <2>1, <3>1, <3>5
      <4>2. Sums(G(q), q)
          BY <2>2, <4>1
      <4>3. IsFiniteSet(q) /\ q \in SUBSET Parties
          BY <1>1, <4>1, FS_Subset
      <4>4. Agree(q)
          BY <4>3, SumsUnique
      <4>5. q \subseteq q
          OBVIOUS
      <4>6. G(r)[q] = G(q)[q]
        <5>. HIDE DEF G, q, r
        <5>. QED
            BY <3>2, <4>1, <4>2, <4>4, <4>5 DEF Agree
      <4>7. SumStep(G(r), r) = Amount[Pick(r)] + G(r)[q]
          BY <3>5 DEF SumStep
      <4>8. val(r) = Amount[Pick(r)] + G(q)[q]
          BY <3>5
      <4>. HIDE DEF G, q, r, val, h
      <4>. QED
          BY <3>3, <3>4, <4>6, <4>7, <4>8 DEF r
    <3>6. CASE r = {}
      <4>1. SumStep(G(r), r) = 0 /\ val(r) = 0
          BY <3>6 DEF SumStep
      <4>. HIDE DEF G, val, h, r
      <4>. QED
          BY <3>3, <3>4, <4>1 DEF r
    <3>. QED
        BY <3>5, <3>6
  <2>4. \A s \in SUBSET S : val(s) = SumStep(h, s)
    <3> SUFFICES ASSUME NEW s \in SUBSET S PROVE val(s) = SumStep(h, s)
        OBVIOUS
    <3>1. CASE s = {}
        BY <3>1 DEF SumStep
    <3>2. CASE s # {}
      <4>1. h[Less(s)] = G(Less(s))[Less(s)]
          BY <2>3, <3>2
      <4>2. SumStep(h, s) = Amount[Pick(s)] + h[Less(s)]
          BY <3>2 DEF SumStep
      <4>3. val(s) = Amount[Pick(s)] + G(Less(s))[Less(s)]
          BY <3>2
      <4>. QED
          BY <4>1, <4>2, <4>3
    <3>. QED
        BY <3>1, <3>2
  <2>5. h = [s \in SUBSET S |-> SumStep(h, s)]
    <3>1. h = [s \in SUBSET S |-> val(s)]
        OBVIOUS
    <3>. HIDE DEF val, h
    <3>. QED
        BY <2>4, <3>1
  <2>6. Sums(h, S)
    <3>. HIDE DEF h
    <3>. QED
        BY <2>5 DEF Sums, SumStep
  <2>. QED
      BY <2>6
<1>2. \A S \in SUBSET Parties :
          IsFiniteSet(S) /\ (\A s \in SUBSET S : s # S => s \in C) => S \in C
    BY <1>1
<1>. HIDE DEF C
<1>3. \A S \in SUBSET Parties : IsFiniteSet(S) => S \in C
    BY <1>2, FiniteSubsets
<1>. QED
    BY <1>3 DEF C

\* The total of a finite set is that of an element and of the others.
LEMMA TotalPicked ==
    \A S \in SUBSET Parties : IsFiniteSet(S) =>
        TotalOf(S) = IF S = {} THEN 0 ELSE Amount[Pick(S)] + TotalOf(S \ {Pick(S)})
<1> SUFFICES ASSUME NEW S \in SUBSET Parties, IsFiniteSet(S)
             PROVE  TotalOf(S) = IF S = {} THEN 0
                                 ELSE Amount[Pick(S)] + TotalOf(S \ {Pick(S)})
    OBVIOUS
<1> DEFINE G(s) == CHOOSE g : Sums(g, s)
           r == S \ {Pick(S)}
<1>1. \A s : TotalOf(s) = G(s)[s]
    BY DEF TotalOf, MapThenSumSet, MapThenFoldSet, Sums, Pick
<1>2. Sums(G(S), S)
    BY SumsExist
<1>3. G(S)[S] = SumStep(G(S), S)
    BY <1>2, SumsAt
<1>4. IsFiniteSet(r) /\ r \subseteq S /\ r \in SUBSET Parties
    BY FS_Subset
<1>5. Sums(G(r), r)
    BY <1>4, SumsExist
<1>6. Agree(r)
    BY <1>4, SumsUnique
<1>7. G(S)[r] = G(r)[r]
  <2>. HIDE DEF G, r
  <2>. QED
      BY <1>2, <1>4, <1>5, <1>6 DEF Agree
<1>8. SumStep(G(S), S) = IF S = {} THEN 0 ELSE Amount[Pick(S)] + G(S)[r]
    BY DEF SumStep
<1>. HIDE DEF G
<1>. QED
    BY <1>1, <1>3, <1>7, <1>8

\* It is a number.
LEMMA TotalType == \A S \in SUBSET Parties : IsFiniteSet(S) => TotalOf(S) \in Nat
<1> DEFINE C == {S \in SUBSET Parties : TotalOf(S) \in Nat}
<1>1. ASSUME NEW S \in SUBSET Parties, IsFiniteSet(S),
             \A s \in SUBSET S : s # S => s \in C
      PROVE  TotalOf(S) \in Nat
  <2>1. CASE S = {}
    <3>1. TotalOf({}) = 0
        BY TotalPicked, FS_EmptySet
    <3>. QED
        BY <2>1, <3>1
  <2>2. CASE S # {}
    <3>1. Pick(S) \in S
        BY <2>2, Picked
    <3>2. TotalOf(S \ {Pick(S)}) \in Nat
        BY <1>1, <3>1
    <3>3. Amount[Pick(S)] \in Nat
        BY <3>1 DEF Parties
    <3>. QED
        BY <1>1, <2>2, <3>2, <3>3, TotalPicked
  <2>. QED
      BY <2>1, <2>2
<1>2. \A S \in SUBSET Parties :
          IsFiniteSet(S) /\ (\A s \in SUBSET S : s # S => s \in C) => S \in C
    BY <1>1
<1>. HIDE DEF C
<1>3. \A S \in SUBSET Parties : IsFiniteSet(S) => S \in C
    BY <1>2, FiniteSubsets
<1>. QED
    BY <1>3 DEF C

\* Whichever element comes last: the order in which a sum is taken does not
\* matter.
LEMMA TotalAdds ==
    \A S \in SUBSET Parties : IsFiniteSet(S) =>
        \A x \in Parties \ S : TotalOf(S \cup {x}) = Amount[x] + TotalOf(S)
<1> DEFINE Adds(S) == \A x \in Parties \ S : TotalOf(S \cup {x}) = Amount[x] + TotalOf(S)
           C == {S \in SUBSET Parties : Adds(S)}
<1>1. ASSUME NEW S \in SUBSET Parties, IsFiniteSet(S),
             \A s \in SUBSET S : s # S => s \in C
      PROVE  Adds(S)
  <2> SUFFICES ASSUME NEW x \in Parties \ S
               PROVE  TotalOf(S \cup {x}) = Amount[x] + TotalOf(S)
      OBVIOUS
  <2> DEFINE T == S \cup {x}
             y == Pick(T)
  <2>1. T \in SUBSET Parties /\ T # {} /\ IsFiniteSet(T)
      BY <1>1, FS_AddElement
  <2>2. y \in T
      BY <2>1, Picked
  <2>3. TotalOf(T) = Amount[y] + TotalOf(T \ {y})
      BY <2>1, TotalPicked
  <2>. HIDE DEF y
  <2>4. CASE y = x
    <3>1. T \ {y} = S
        BY <2>4
    <3>. QED
        BY <2>3, <2>4, <3>1
  <2>5. CASE y # x
    <3> DEFINE r == S \ {y}
    <3>1. y \in S /\ r \in SUBSET S /\ r # S /\ T \ {y} = r \cup {x} /\ S = r \cup {y}
        BY <2>2, <2>5
    <3>2. Adds(r)
        BY <1>1, <3>1
    <3>3. x \in Parties \ r /\ y \in Parties \ r
        BY <3>1
    <3>4. TotalOf(T \ {y}) = Amount[x] + TotalOf(r) /\ TotalOf(S) = Amount[y] + TotalOf(r)
        BY <3>1, <3>2, <3>3
    <3>5. IsFiniteSet(r) /\ r \in SUBSET Parties
        BY <1>1, <3>1, FS_Subset
    <3>6. TotalOf(r) \in Nat
        BY <3>5, TotalType
    <3>7. Amount[x] \in Nat /\ Amount[y] \in Nat
        BY <3>3 DEF Parties
    <3>. QED
        BY <2>3, <3>4, <3>6, <3>7
  <2>. QED
      BY <2>4, <2>5
<1>2. \A S \in SUBSET Parties :
          IsFiniteSet(S) /\ (\A s \in SUBSET S : s # S => s \in C) => S \in C
    BY <1>1
<1>. HIDE DEF C
<1>3. \A S \in SUBSET Parties : IsFiniteSet(S) => S \in C
    BY <1>2, FiniteSubsets
<1>. QED
    BY <1>3 DEF C

\* Taking an element out.
LEMMA TotalRemoves ==
    ASSUME NEW S \in SUBSET Parties, IsFiniteSet(S), NEW x \in S
    PROVE  /\ TotalOf(S) = Amount[x] + TotalOf(S \ {x})
           /\ TotalOf(S \ {x}) \in Nat /\ TotalOf(S) \in Nat /\ Amount[x] \in Nat
<1>1. /\ IsFiniteSet(S \ {x}) /\ S \ {x} \in SUBSET Parties
      /\ (S \ {x}) \cup {x} = S /\ x \in Parties \ (S \ {x})
    BY FS_Subset
<1>2. TotalOf((S \ {x}) \cup {x}) = Amount[x] + TotalOf(S \ {x})
    BY <1>1, TotalAdds
<1>3. Amount[x] \in Nat
    BY DEF Parties
<1>. QED
    BY <1>1, <1>2, <1>3, TotalType

-----------------------------------------------------------------------------
(* Events on their way to a mint. *)

Listed(ds) == {ds[i] : i \in 1 .. Len(ds)}

\* No event twice in a list.
Once(ds) == \A i, j \in 1 .. Len(ds) : ds[i] = ds[j] => i = j

Pending == Listed(fresh) \cup UNION {Listed(ds) : ds \in callbacks}

Made == {w \in Withdrawals : withdrawnAt[w] # 0}

Outstanding == {w \in Made : paid[w] = 0}

\* No event is on its way twice, in one list or in two.
EventsOnce ==
    /\ Listed(fresh) \subseteq deposited /\ Once(fresh)
    /\ \A ds \in callbacks : /\ Listed(ds) \subseteq deposited
                             /\ Once(ds)
                             /\ Listed(ds) \cap Listed(fresh) = {}
    /\ \A ds, es \in callbacks : ds # es => Listed(ds) \cap Listed(es) = {}

\* The WETH there is, what is yet to be minted and what is yet to be paid have
\* their ether in the portal.
Backed == supply + TotalOf(Pending) + TotalOf(Outstanding) <= locked + unbacked

SolvencyIInv == /\ EventsOnce
                /\ IsFiniteSet(deposited)
                /\ IsFiniteSet(Made)
                /\ Backed

\* An event at the end of a list.
LEMMA ListedAppend ==
    ASSUME NEW S, NEW ds \in Seq(S), NEW d \in S
    PROVE  /\ Listed(Append(ds, d)) = Listed(ds) \cup {d}
           /\ Once(ds) /\ d \notin Listed(ds) => Once(Append(ds, d))
<1>1. /\ Len(Append(ds, d)) = Len(ds) + 1 /\ Len(ds) \in Nat
      /\ \A i \in 1 .. Len(ds) : Append(ds, d)[i] = ds[i]
      /\ Append(ds, d)[Len(ds) + 1] = d
    OBVIOUS
<1>2. 1 .. Len(ds) + 1 = 1 .. Len(ds) \cup {Len(ds) + 1}
    BY <1>1
<1>3. Listed(Append(ds, d)) = Listed(ds) \cup {d}
    BY <1>1, <1>2 DEF Listed
<1>4. Once(ds) /\ d \notin Listed(ds) => Once(Append(ds, d))
    BY <1>1, <1>2 DEF Listed, Once
<1>. QED
    BY <1>3, <1>4

\* The first event of a list, and the others.
LEMMA ListedTail ==
    ASSUME NEW S, NEW ds \in Seq(S), ds # <<>>
    PROVE  /\ Listed(ds) = {Head(ds)} \cup Listed(Tail(ds))
           /\ Once(ds) => Once(Tail(ds)) /\ Head(ds) \notin Listed(Tail(ds))
<1>1. /\ Len(Tail(ds)) = Len(ds) - 1 /\ Len(ds) \in Nat \ {0}
      /\ \A i \in 1 .. Len(ds) - 1 : Tail(ds)[i] = ds[i + 1]
      /\ Head(ds) = ds[1]
    OBVIOUS
<1>2. Listed(ds) = {Head(ds)} \cup Listed(Tail(ds))
  <2>1. \A i \in 2 .. Len(ds) : ds[i] = Tail(ds)[i - 1] /\ i - 1 \in 1 .. Len(Tail(ds))
      BY <1>1
  <2>2. \A i \in 1 .. Len(Tail(ds)) : Tail(ds)[i] = ds[i + 1] /\ i + 1 \in 2 .. Len(ds)
      BY <1>1
  <2>3. 1 .. Len(ds) = {1} \cup 2 .. Len(ds)
      BY <1>1
  <2>4. \A i \in 1 .. Len(ds) : ds[i] \in {Head(ds)} \cup Listed(Tail(ds))
      BY <1>1, <2>1, <2>3 DEF Listed
  <2>5. \A x \in Listed(Tail(ds)) : x \in Listed(ds)
      BY <2>2, <2>3 DEF Listed
  <2>6. Head(ds) \in Listed(ds)
      BY <1>1 DEF Listed
  <2>. QED
      BY <2>4, <2>5, <2>6 DEF Listed
<1>3. Once(ds) => Once(Tail(ds))
    BY <1>1 DEF Once
<1>4. Once(ds) => Head(ds) \notin Listed(Tail(ds))
    BY <1>1 DEF Once, Listed
<1>. QED
    BY <1>2, <1>3, <1>4

\* The sums are over finite sets of deposits and withdrawals, so they are numbers.
LEMMA PendingFinite ==
    ASSUME BridgeTypeOK, SolvencyIInv
    PROVE  /\ Pending \in SUBSET Parties /\ IsFiniteSet(Pending)
           /\ Pending \subseteq deposited
           /\ Outstanding \in SUBSET Parties /\ IsFiniteSet(Outstanding)
           /\ TotalOf(Pending) \in Nat /\ TotalOf(Outstanding) \in Nat
<1>1. Pending \subseteq deposited
    BY DEF SolvencyIInv, EventsOnce, Pending
<1>2. deposited \subseteq Parties
    BY DEF BridgeTypeOK, Parties
<1>3. Outstanding \subseteq Made /\ Made \subseteq Parties
    BY DEF Outstanding, Made, Parties
<1>4. IsFiniteSet(Pending) /\ IsFiniteSet(Outstanding)
    BY <1>1, <1>3, FS_Subset DEF SolvencyIInv
<1>. QED
    BY <1>1, <1>2, <1>3, <1>4, TotalType

-----------------------------------------------------------------------------
\* The invariant holds at the start.
LEMMA SolvencyInit == BridgeInit => SolvencyIInv
<1> SUFFICES ASSUME BridgeInit PROVE SolvencyIInv
    OBVIOUS
<1>1. Listed(fresh) = {} /\ Once(fresh)
    BY DEF BridgeInit, Listed, Once
<1>2. callbacks = {} /\ deposited = {}
    BY DEF BridgeInit
<1>3. Made = {}
    BY DEF BridgeInit, Made
<1>4. Pending = {} /\ Outstanding = {}
    BY <1>1, <1>2, <1>3 DEF Pending, Outstanding
<1>5. TotalOf({}) = 0
    BY TotalPicked, FS_EmptySet
<1>6. Backed
    BY <1>4, <1>5 DEF BridgeInit, Backed
<1>. QED
    BY <1>1, <1>2, <1>3, <1>6, FS_EmptySet DEF SolvencyIInv, EventsOnce

\* What the sums are made of stays.
Unmoved ==
    UNCHANGED <<locked, deposited, withdrawnAt, paid, supply, unbacked, fresh, callbacks>>

\* A step that moves none of it keeps the invariant.
LEMMA UnmovedStep == SolvencyIInv /\ Unmoved => SolvencyIInv'
BY DEF SolvencyIInv, Unmoved, EventsOnce, Made, Backed, Pending, Outstanding

\* A deposit brings the ether for what will be minted for it.
LEMMA DepositSolvent ==
    ASSUME BridgeTypeOK, SolvencyIInv, NEW d \in Deposits, DepositETH(d)
    PROVE  SolvencyIInv'
<1>1. /\ d \notin deposited /\ deposited' = deposited \cup {d}
      /\ locked' = locked + Amount[d]
      /\ UNCHANGED <<paid, withdrawnAt, supply, unbacked, callbacks, watching>>
    BY DEF DepositETH, onL3
<1>2. Amount[d] \in Nat /\ d \in Parties
    BY DEF Parties
<1>3. /\ fresh \in Seq(Deposits)
      /\ locked \in Nat /\ supply \in Nat /\ unbacked \in Nat
    BY DEF BridgeTypeOK
<1>4. IsFiniteSet(deposited') /\ Made' = Made /\ Outstanding' = Outstanding
    BY <1>1, FS_AddElement DEF Made, Outstanding, SolvencyIInv
<1>5. /\ Pending \in SUBSET Parties /\ IsFiniteSet(Pending) /\ Pending \subseteq deposited
      /\ TotalOf(Pending) \in Nat /\ TotalOf(Outstanding) \in Nat
    BY PendingFinite
<1>6. CASE watching
  <2>1. fresh' = Append(fresh, d)
      BY <1>6 DEF DepositETH
  <2>2. Listed(fresh') = Listed(fresh) \cup {d}
      BY <1>3, <2>1, ListedAppend
  <2>3. Once(fresh')
      BY <1>1, <1>3, <2>1, ListedAppend DEF SolvencyIInv, EventsOnce
  <2>4. EventsOnce'
      BY <1>1, <2>2, <2>3 DEF SolvencyIInv, EventsOnce
  <2>5. Pending' = Pending \cup {d} /\ d \in Parties \ Pending
      BY <1>1, <1>2, <1>5, <2>2 DEF Pending
  <2>6. TotalOf(Pending') = Amount[d] + TotalOf(Pending)
      BY <1>5, <2>5, TotalAdds
  <2>7. supply + (Amount[d] + TotalOf(Pending)) + TotalOf(Outstanding)
          <= locked + Amount[d] + unbacked
      BY <1>2, <1>3, <1>5, SMTT(30) DEF SolvencyIInv, Backed
  <2>8. Backed'
      BY <1>1, <1>4, <2>6, <2>7 DEF Backed
  <2>. QED
      BY <1>4, <2>4, <2>8 DEF SolvencyIInv
<1>7. CASE ~ watching
  <2>1. fresh' = fresh
      BY <1>7 DEF DepositETH
  <2>2. EventsOnce'
      BY <1>1, <2>1 DEF SolvencyIInv, EventsOnce
  <2>3. Pending' = Pending
      BY <1>1, <2>1 DEF Pending
  <2>4. supply + TotalOf(Pending) + TotalOf(Outstanding) <= locked + Amount[d] + unbacked
      BY <1>2, <1>3, <1>5 DEF SolvencyIInv, Backed
  <2>5. Backed'
      BY <1>1, <1>4, <2>3, <2>4 DEF Backed
  <2>. QED
      BY <1>4, <2>2, <2>5 DEF SolvencyIInv
<1>. QED
    BY <1>6, <1>7

\* A callback takes the events over.
LEMMA CallBackSolvent ==
    ASSUME BridgeTypeOK, SolvencyIInv, CallBack
    PROVE  SolvencyIInv'
<1>1. /\ callbacks' = callbacks \cup {fresh} /\ fresh' = <<>>
      /\ UNCHANGED <<locked, deposited, paid, withdrawnAt, supply, unbacked>>
    BY DEF CallBack, onL1, onPortal, onL3
<1>2. Listed(fresh') = {} /\ Once(fresh')
    BY <1>1 DEF Listed, Once
<1>3. EventsOnce'
    BY <1>1, <1>2 DEF SolvencyIInv, EventsOnce
<1>4. Pending' = Pending
    BY <1>1, <1>2 DEF Pending
<1>5. Made' = Made /\ Outstanding' = Outstanding
    BY <1>1 DEF Made, Outstanding
<1>. QED
    BY <1>1, <1>3, <1>4, <1>5 DEF SolvencyIInv, Backed

\* A mint takes the first event off its list, and adds its amount at most.
LEMMA MintSolvent ==
    ASSUME BridgeTypeOK, SolvencyIInv, NEW ds \in callbacks, Mint(ds)
    PROVE  SolvencyIInv'
<1> DEFINE d == Head(ds)
<1>1. /\ supply' \in {supply, supply + Amount[d]}
      /\ callbacks' = (callbacks \ {ds}) \cup Rest(ds)
      /\ UNCHANGED <<locked, deposited, paid, withdrawnAt, unbacked, fresh>>
    BY DEF Mint, onL1, onPortal
<1>2. ds \in Seq(Deposits) /\ ds # <<>> /\ d \in Deposits
    BY DEF BridgeTypeOK
<1>3. /\ Listed(ds) = {d} \cup Listed(Tail(ds))
      /\ Once(Tail(ds)) /\ d \notin Listed(Tail(ds))
  <2>1. Once(ds)
      BY DEF SolvencyIInv, EventsOnce
  <2>. QED
      BY <1>2, <2>1, ListedTail
<1>4. Rest(ds) = {Tail(ds)} \/ (Rest(ds) = {} /\ Listed(Tail(ds)) = {})
  <2>1. Listed(<<>>) = {}
      BY DEF Listed
  <2>. QED
      BY <2>1 DEF Rest
<1>5. \A es \in Rest(ds) : es = Tail(ds)
    BY DEF Rest
<1>. HIDE DEF d
<1>6. EventsOnce'
  <2>1. \A es \in callbacks' : /\ Listed(es) \subseteq deposited
                               /\ Once(es)
                               /\ Listed(es) \cap Listed(fresh) = {}
    <3>1. /\ Listed(Tail(ds)) \subseteq deposited
          /\ Listed(Tail(ds)) \cap Listed(fresh) = {}
        BY <1>3 DEF SolvencyIInv, EventsOnce
    <3>. QED
        BY <1>1, <1>3, <1>5, <3>1 DEF SolvencyIInv, EventsOnce
  <2>2. \A es \in callbacks \ {ds} : Listed(es) \cap Listed(Tail(ds)) = {}
      BY <1>3 DEF SolvencyIInv, EventsOnce
  <2>3. \A es, fs \in callbacks' : es # fs => Listed(es) \cap Listed(fs) = {}
    <3> SUFFICES ASSUME NEW es \in callbacks', NEW fs \in callbacks', es # fs
                 PROVE  Listed(es) \cap Listed(fs) = {}
        OBVIOUS
    <3>1. CASE es \in callbacks \ {ds} /\ fs \in callbacks \ {ds}
        BY <3>1 DEF SolvencyIInv, EventsOnce
    <3>2. CASE es \in Rest(ds)
        BY <1>1, <1>5, <2>2, <3>2
    <3>3. CASE fs \in Rest(ds)
        BY <1>1, <1>5, <2>2, <3>3
    <3>. QED
        BY <1>1, <3>1, <3>2, <3>3
  <2>. QED
      BY <1>1, <2>1, <2>3 DEF SolvencyIInv, EventsOnce
<1>7. Pending' = Pending \ {d} /\ d \in Pending
  <2>1. d \in Pending
      BY <1>3 DEF Pending
  <2>2. \A es \in callbacks \ {ds} : d \notin Listed(es)
      BY <1>3 DEF SolvencyIInv, EventsOnce
  <2>3. d \notin Listed(fresh)
      BY <1>3 DEF SolvencyIInv, EventsOnce
  <2>4. \A x : x \in Pending <=> \/ x \in Listed(fresh)
                                 \/ \E es \in callbacks \ {ds} : x \in Listed(es)
                                 \/ x = d \/ x \in Listed(Tail(ds))
      BY <1>3 DEF Pending
  <2>5. \A x : x \in Pending' <=> \/ x \in Listed(fresh)
                                  \/ \E es \in callbacks \ {ds} : x \in Listed(es)
                                  \/ x \in Listed(Tail(ds))
    <3>1. \A x : x \in Pending' <=> x \in Listed(fresh) \/ \E es \in callbacks' : x \in Listed(es)
        BY <1>1 DEF Pending
    <3>. QED
        BY <1>1, <1>4, <3>1
  <2>. QED
      BY <1>3, <2>1, <2>2, <2>3, <2>4, <2>5
<1>8. Made' = Made /\ Outstanding' = Outstanding
    BY <1>1 DEF Made, Outstanding
<1>9. Backed'
  <2>1. /\ TotalOf(Pending) = Amount[d] + TotalOf(Pending \ {d})
        /\ TotalOf(Pending \ {d}) \in Nat /\ TotalOf(Outstanding) \in Nat
        /\ Amount[d] \in Nat
      BY <1>7, PendingFinite, TotalRemoves
  <2>2. locked \in Nat /\ supply \in Nat /\ unbacked \in Nat
      BY DEF BridgeTypeOK
  <2>3. supply + TotalOf(Pending) + TotalOf(Outstanding) <= locked + unbacked
      BY DEF SolvencyIInv, Backed
  <2>4. supply' + TotalOf(Pending \ {d}) + TotalOf(Outstanding) <= locked + unbacked
      BY <1>1, <2>1, <2>2, <2>3
  <2>. QED
      BY <1>1, <1>7, <1>8, <2>4 DEF Backed
<1>. QED
    BY <1>1, <1>6, <1>8, <1>9 DEF SolvencyIInv

\* The process ends: events that were on their way are minted no more, but for
\* one of them.
LEMMA CrashSolvent ==
    ASSUME BridgeTypeOK, SolvencyIInv, BridgeCrash
    PROVE  SolvencyIInv'
<1>1. /\ fresh' = <<>> /\ callbacks' = {}
      /\ supply' \in {supply} \cup {supply + Amount[Head(ds)] : ds \in callbacks}
      /\ UNCHANGED <<locked, deposited, paid, withdrawnAt, unbacked>>
    BY DEF BridgeCrash, onL1, onPortal
<1>2. Listed(fresh') = {} /\ Once(fresh')
    BY <1>1 DEF Listed, Once
<1>3. EventsOnce'
    BY <1>1, <1>2 DEF EventsOnce
<1>4. Pending' = {}
    BY <1>1, <1>2 DEF Pending
<1>5. Made' = Made /\ Outstanding' = Outstanding
    BY <1>1 DEF Made, Outstanding
<1>6. TotalOf({}) = 0
    BY TotalPicked, FS_EmptySet
<1>7. supply' <= supply + TotalOf(Pending) /\ supply' \in Nat
  <2>1. supply \in Nat /\ TotalOf(Pending) \in Nat
      BY PendingFinite DEF BridgeTypeOK
  <2>2. ASSUME NEW ds \in callbacks
        PROVE  Amount[Head(ds)] \in Nat /\ Amount[Head(ds)] <= TotalOf(Pending)
    <3>1. ds \in Seq(Deposits) /\ ds # <<>>
        BY DEF BridgeTypeOK
    <3>2. Head(ds) \in Listed(ds)
        BY <3>1, ListedTail
    <3>3. Head(ds) \in Pending
        BY <3>2 DEF Pending
    <3>4. /\ TotalOf(Pending) = Amount[Head(ds)] + TotalOf(Pending \ {Head(ds)})
          /\ TotalOf(Pending \ {Head(ds)}) \in Nat /\ Amount[Head(ds)] \in Nat
        BY <3>3, PendingFinite, TotalRemoves
    <3>. QED
        BY <3>4
  <2>. QED
      BY <1>1, <2>1, <2>2
<1>8. Backed'
  <2>1. TotalOf(Pending) \in Nat /\ TotalOf(Outstanding) \in Nat
      BY PendingFinite
  <2>2. locked \in Nat /\ supply \in Nat /\ unbacked \in Nat
      BY DEF BridgeTypeOK
  <2>3. supply' + 0 + TotalOf(Outstanding) <= locked + unbacked
      BY <1>7, <2>1, <2>2 DEF SolvencyIInv, Backed
  <2>. QED
      BY <1>1, <1>4, <1>5, <1>6, <2>3 DEF Backed
<1>. QED
    BY <1>1, <1>3, <1>5, <1>8 DEF SolvencyIInv

\* A withdrawal burns what it will be paid.
LEMMA WithdrawSolvent ==
    ASSUME BridgeTypeOK, SolvencyIInv, NEW w \in Withdrawals, WithdrawETH(w)
    PROVE  SolvencyIInv'
<1>1. /\ withdrawnAt[w] = 0 /\ Amount[w] <= supply
      /\ supply' = supply - Amount[w]
      /\ withdrawnAt' = [withdrawnAt EXCEPT ![w] = height + 1]
      /\ UNCHANGED <<locked, deposited, paid, unbacked, fresh, callbacks>>
    BY DEF WithdrawETH, onL1, onPortal, watcher
<1>2. Made' = Made \cup {w} /\ w \notin Made
    BY <1>1, SMTT(30) DEF Made, BridgeTypeOK
<1>3. IsFiniteSet(Made')
    BY <1>2, FS_AddElement DEF SolvencyIInv
<1>4. EventsOnce' /\ Pending' = Pending
    BY <1>1 DEF EventsOnce, Pending, SolvencyIInv
<1>5. /\ TotalOf(Pending) \in Nat /\ TotalOf(Outstanding) \in Nat
      /\ Outstanding \in SUBSET Parties /\ IsFiniteSet(Outstanding)
    BY PendingFinite
<1>6. /\ locked \in Nat /\ supply \in Nat /\ unbacked \in Nat
      /\ Amount[w] \in Nat /\ w \in Parties
    BY DEF BridgeTypeOK, Parties
<1>7. supply + TotalOf(Pending) + TotalOf(Outstanding) <= locked + unbacked
    BY DEF SolvencyIInv, Backed
<1>8. Backed'
  <2>1. CASE paid[w] = 0
    <3>1. Outstanding' = Outstanding \cup {w} /\ w \notin Outstanding
        BY <1>1, <1>2, <2>1 DEF Outstanding
    <3>2. TotalOf(Outstanding') = Amount[w] + TotalOf(Outstanding)
        BY <1>5, <1>6, <3>1, TotalAdds
    <3>3. (supply - Amount[w]) + TotalOf(Pending) + (Amount[w] + TotalOf(Outstanding))
            <= locked + unbacked
        BY <1>5, <1>6, <1>7
    <3>. QED
        BY <1>1, <1>4, <3>2, <3>3 DEF Backed
  <2>2. CASE paid[w] # 0
    <3>1. Outstanding' = Outstanding
        BY <1>1, <1>2, <2>2 DEF Outstanding
    <3>2. (supply - Amount[w]) + TotalOf(Pending) + TotalOf(Outstanding) <= locked + unbacked
        BY <1>5, <1>6, <1>7
    <3>. QED
        BY <1>1, <1>4, <3>1, <3>2 DEF Backed
  <2>. QED
      BY <2>1, <2>2
<1>. QED
    BY <1>1, <1>3, <1>4, <1>8 DEF SolvencyIInv

\* A payment takes the ether of its withdrawal.
LEMMA FinalizeSolvent ==
    ASSUME BridgeIInv, SolvencyIInv, NEW w \in Withdrawals, FinalizeWithdrawal(w),
           UNCHANGED <<onL3, watcher>>
    PROVE  SolvencyIInv'
<1> USE DEF BridgeIInv
<1>1. UNCHANGED <<deposited, withdrawnAt, supply, unbacked, fresh, callbacks>>
    BY DEF FinalizeWithdrawal, onL1, onL3, watcher
<1>2. CASE UNCHANGED <<locked, paid>>
    BY <1>1, <1>2, UnmovedStep DEF Unmoved
<1>3. CASE /\ MayFinalize(w) /\ locked >= Amount[w]
           /\ locked' = locked - Amount[w] /\ paid' = [paid EXCEPT ![w] = @ + 1]
  <2>1. w \in Outstanding
    <3>1. paid[w] = 0
        BY <1>3 DEF MayFinalize, PaymentsNoted, BridgeTypeOK
    <3>2. withdrawnAt[w] # 0
        BY <1>3 DEF MayFinalize, ProvenCovered, Covers
    <3>. QED
        BY <3>1, <3>2 DEF Outstanding, Made
  <2>2. EventsOnce' /\ Pending' = Pending /\ Made' = Made
      BY <1>1 DEF EventsOnce, Pending, Made, SolvencyIInv
  <2>3. Outstanding' = Outstanding \ {w}
    <3>1. paid'[w] # 0 /\ \A v \in Withdrawals \ {w} : paid'[v] = paid[v]
        BY <1>3 DEF BridgeTypeOK
    <3>. QED
        BY <2>2, <3>1 DEF Outstanding, Made
  <2>4. /\ TotalOf(Outstanding) = Amount[w] + TotalOf(Outstanding \ {w})
        /\ TotalOf(Outstanding \ {w}) \in Nat /\ TotalOf(Pending) \in Nat
        /\ Amount[w] \in Nat
      BY <2>1, PendingFinite, TotalRemoves
  <2>5. locked \in Nat /\ supply \in Nat /\ unbacked \in Nat
      BY DEF BridgeTypeOK
  <2>6. supply + TotalOf(Pending) + TotalOf(Outstanding) <= locked + unbacked
      BY DEF SolvencyIInv, Backed
  <2>7. supply + TotalOf(Pending) + TotalOf(Outstanding \ {w})
          <= (locked - Amount[w]) + unbacked
      BY <2>4, <2>5, <2>6
  <2>8. Backed'
      BY <1>1, <1>3, <2>2, <2>3, <2>7 DEF Backed
  <2>. QED
      BY <1>1, <2>2, <2>8 DEF SolvencyIInv
<1>. QED
    BY <1>2, <1>3 DEF FinalizeWithdrawal, onPortal

\* Every step keeps it.
LEMMA SolvencyStep == BridgeIInv /\ SolvencyIInv /\ [BridgeNext]_bridgeVars => SolvencyIInv'
<1> SUFFICES ASSUME BridgeIInv, SolvencyIInv, [BridgeNext]_bridgeVars PROVE SolvencyIInv'
    OBVIOUS
<1>0. BridgeTypeOK
    BY DEF BridgeIInv
<1>1. ASSUME NEW d \in Deposits, DepositETH(d) PROVE SolvencyIInv'
    BY <1>0, <1>1, DepositSolvent
<1>2. CASE Watch
    BY <1>2, UnmovedStep DEF Watch, Unmoved, onL1, onPortal, onL3
<1>3. CASE CallBack
    BY <1>0, <1>3, CallBackSolvent
<1>4. ASSUME NEW ds \in callbacks, Mint(ds) PROVE SolvencyIInv'
    BY <1>0, <1>4, MintSolvent
<1>5. CASE MintOnRequest
  <2>1. /\ unbacked' = unbacked + 1 /\ supply' = supply + 1
        /\ UNCHANGED <<locked, deposited, paid, withdrawnAt, fresh, callbacks>>
      BY <1>5 DEF MintOnRequest, onL1, onPortal, watcher
  <2>2. EventsOnce' /\ Pending' = Pending /\ Made' = Made /\ Outstanding' = Outstanding
      BY <2>1 DEF EventsOnce, Pending, Made, Outstanding, SolvencyIInv
  <2>3. TotalOf(Pending) \in Nat /\ TotalOf(Outstanding) \in Nat
      BY <1>0, PendingFinite
  <2>4. locked \in Nat /\ supply \in Nat /\ unbacked \in Nat
      BY <1>0 DEF BridgeTypeOK
  <2>5. supply + 1 + TotalOf(Pending) + TotalOf(Outstanding) <= locked + (unbacked + 1)
      BY <2>3, <2>4 DEF SolvencyIInv, Backed
  <2>6. Backed'
      BY <2>1, <2>2, <2>5 DEF Backed
  <2>. QED
      BY <2>1, <2>2, <2>6 DEF SolvencyIInv
<1>6. CASE BridgeCrash
    BY <1>0, <1>6, CrashSolvent
<1>7. ASSUME NEW w \in Withdrawals, WithdrawETH(w) PROVE SolvencyIInv'
    BY <1>0, <1>7, WithdrawSolvent
<1>8. ASSUME NEW n \in 1 .. height, ProposeL2Output(n) PROVE SolvencyIInv'
    BY <1>8, UnmovedStep DEF ProposeL2Output, Unmoved, onPortal, onL3, watcher
<1>9. ASSUME NEW q \in Requests, ReadRoot(q) PROVE SolvencyIInv'
    BY <1>9, UnmovedStep DEF ReadRoot, Unmoved, onL1, onPortal, onL3, watcher
<1>10. ASSUME NEW q \in Requests, Submit(q) PROVE SolvencyIInv'
  <2>1. request[q].id \in Withdrawals
      BY <1>0, <1>10, RequestCases DEF Submit, Ready
  <2>2. CASE ProveWithdrawal(request[q].id, request[q].index)
      BY <1>10, <2>2, UnmovedStep
      DEF Submit, ProveWithdrawal, Unmoved, onPortal, onL3, watcher
  <2>3. CASE FinalizeWithdrawal(request[q].id)
    <3>1. UNCHANGED <<onL3, watcher>>
        BY <1>10 DEF Submit
    <3>. QED
        BY <2>1, <2>3, <3>1, FinalizeSolvent
  <2>. QED
      BY <1>10, <2>2, <2>3 DEF Submit
<1>11. ASSUME NEW q \in Requests, NEW w \in Withdrawals,
              NEW kind \in {"prove", "finalize"}, Ask(q, w, kind)
       PROVE  SolvencyIInv'
    BY <1>11, UnmovedStep DEF Ask, Unmoved, onL1, onPortal, onL3, watcher
<1>12. CASE UNCHANGED bridgeVars
    BY <1>12, UnmovedStep DEF Unmoved, bridgeVars, onL1, onPortal, onL3, watcher
<1>. QED
    BY <1>1, <1>2, <1>3, <1>4, <1>5, <1>6, <1>7, <1>8, <1>9, <1>10, <1>11, <1>12
    DEF BridgeNext

\* Whatever is deposited, minted, withdrawn and paid, in whatever amounts, and
\* however often the process ends, the portal holds the ether for all WETH and all
\* withdrawals not paid yet, but for what was minted on request.
THEOREM PortalSolvent == BridgeSpec => []Solvent
<1>1. BridgeIInv /\ SolvencyIInv => Solvent
  <2> SUFFICES ASSUME BridgeIInv, SolvencyIInv PROVE Solvent
      OBVIOUS
  <2>1. BridgeTypeOK
      BY DEF BridgeIInv
  <2>2. TotalOf(Pending) \in Nat /\ TotalOf(Outstanding) \in Nat
      BY <2>1, PendingFinite
  <2>3. locked \in Nat /\ supply \in Nat /\ unbacked \in Nat
      BY <2>1 DEF BridgeTypeOK
  <2>4. supply + TotalOf(Outstanding) <= locked + unbacked
      BY <2>2, <2>3 DEF SolvencyIInv, Backed
  <2>5. Outstanding = {w \in Withdrawals : withdrawnAt[w] # 0 /\ paid[w] = 0}
      BY DEF Outstanding, Made
  <2>. QED
      BY <2>4, <2>5 DEF Solvent, TotalOf
<1>2. BridgeSpec => []SolvencyIInv
    BY SolvencyInit, SolvencyStep, BridgeInvariant, PTL DEF BridgeSpec
<1>. QED
    BY <1>1, <1>2, BridgeInvariant, PTL
=============================================================================
