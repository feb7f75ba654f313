------------------------------- MODULE Bridge -------------------------------
(***************************************************************************)
(* Ether between L1 and L3: LibplanetPortal and LibplanetBridge on L1      *)
(* (bridge/contracts), the deposit watcher of AppService, and the requests *)
(* of EvmService that prove and finalize withdrawals.                      *)
(*                                                                         *)
(* A deposit emits an event; the watcher mints WETH on L3 for each event   *)
(* it is shown, one list of events per callback, callbacks not waiting for *)
(* each other.  A withdrawal burns WETH in a block of L3; once an output   *)
(* root covers that block the withdrawal can be proved to the portal, and  *)
(* then finalized, which pays it.                                          *)
(*                                                                         *)
(* Hashes and proofs are sound: a proof against the root of block n        *)
(* verifies exactly for the withdrawals up to n.  Roots come from anywhere *)
(* and go up, as LibplanetOutputOracle demands.                            *)
(***************************************************************************)
EXTENDS Integers, Sequences, FiniteSetsExt

CONSTANTS
    Deposits,       \* the deposits that may be made
    Withdrawals,    \* the withdrawals that may be made
    Requests,       \* the HTTP requests under way at a time
    Amount,         \* of each deposit and withdrawal
    MaxHeight,      \* bound on the height of L3
    MaxUnbacked,    \* bound on the WETH minted without a deposit
    MaxCrashes,     \* bound on the ends of the process
    MaxRejections   \* bound on the payments a recipient refuses

ASSUME BridgeAssumption ==
    /\ Amount \in [Deposits \cup Withdrawals -> Nat \ {0}]
    /\ MaxHeight \in Nat \ {0}
    /\ MaxUnbacked \in Nat
    /\ MaxCrashes \in Nat
    /\ MaxRejections \in Nat

VARIABLES
    \* L1
    locked,        \* balance of the portal
    deposited,     \* deposits made
    outputs,       \* L3 blocks of the output roots
    proven,        \* provenWithdrawals
    finalized,     \* finalizedWithdrawals
    paid,          \* history: how often each withdrawal was paid
    \* L3
    height,        \* newest block
    withdrawnAt,   \* the block of each withdrawal, 0 for none
    supply,        \* WETH
    unbacked,      \* history: WETH minted on request
    \* the node
    watching,      \* the events are subscribed to
    fresh,         \* events since the last callback
    callbacks,     \* the lists of events being minted
    request,       \* what each request is doing
    crashes, rejections

onL1       == <<deposited, outputs, proven>>
onPortal   == <<locked, finalized, paid>>
onL3       == <<height, withdrawnAt, supply, unbacked>>
watcher    == <<watching, fresh, callbacks>>
limits     == <<crashes, rejections>>
bridgeVars == <<onL1, onPortal, onL3, watcher, request, limits>>

NoRequest == [place |-> "idle"]
Asked == [place : {"root"}, kind : {"prove", "finalize"}, id : Withdrawals]
Ready == [place : {"submit"}, kind : {"prove", "finalize"}, id : Withdrawals,
          index : Nat]

Newest == outputs[Len(outputs)]

BridgeTypeOK ==
    /\ locked \in Nat /\ supply \in Nat
    /\ deposited \subseteq Deposits
    /\ outputs \in Seq(1 .. height) /\ outputs # <<>>
    /\ finalized \subseteq proven /\ proven \subseteq Withdrawals
    /\ paid \in [Withdrawals -> Nat]
    /\ height \in 1 .. MaxHeight
    /\ withdrawnAt \in [Withdrawals -> 0 .. height]
    /\ unbacked \in 0 .. MaxUnbacked
    /\ watching \in BOOLEAN
    /\ fresh \in Seq(Deposits)
    /\ callbacks \subseteq Seq(Deposits) \ {<<>>}
    /\ request \in [Requests -> {NoRequest} \cup Asked \cup Ready]
    /\ crashes \in 0 .. MaxCrashes /\ rejections \in 0 .. MaxRejections

BridgeInit ==
    /\ locked = 0 /\ deposited = {} /\ outputs = <<1>>
    /\ proven = {} /\ finalized = {} /\ paid = [w \in Withdrawals |-> 0]
    /\ height = 1 /\ withdrawnAt = [w \in Withdrawals |-> 0]
    /\ supply = 0 /\ unbacked = 0
    /\ watching = FALSE /\ fresh = <<>> /\ callbacks = {}
    /\ request = [q \in Requests |-> NoRequest]
    /\ crashes = 0 /\ rejections = 0

-----------------------------------------------------------------------------
(* Deposits. *)

\* depositETH of the bridge, which passes the value on to the portal.  Only who
\* has subscribed hears of it.
DepositETH(d) ==
    /\ d \notin deposited
    /\ deposited' = deposited \cup {d}
    /\ locked' = locked + Amount[d]
    /\ fresh' = IF watching THEN Append(fresh, d) ELSE fresh
    /\ UNCHANGED <<outputs, proven, finalized, paid, onL3, watching, callbacks,
                   request, limits>>

\* register subscribes to the events from now on.
Watch ==
    /\ ~ watching
    /\ watching' = TRUE
    /\ UNCHANGED <<onL1, onPortal, onL3, fresh, callbacks, request, limits>>

\* Faulty: shows the events again the next time.
CallBackAgain ==
    /\ fresh # <<>>
    /\ callbacks' = callbacks \cup {fresh}
    /\ UNCHANGED <<onL1, onPortal, onL3, watching, fresh, request, limits>>

\* onEthDeposited is called; nobody waits for it.
CallBack ==
    /\ fresh # <<>>
    /\ callbacks' = callbacks \cup {fresh}
    /\ fresh' = <<>>
    /\ UNCHANGED <<onL1, onPortal, onL3, watching, request, limits>>

Rest(ds) == IF Tail(ds) = <<>> THEN {} ELSE {Tail(ds)}

\* mintWeth returns: whether the answer was "success" is not looked at.
Mint(ds) ==
    /\ ds \in callbacks
    /\ supply' \in {supply, supply + Amount[Head(ds)]}
    /\ callbacks' = (callbacks \ {ds}) \cup Rest(ds)
    /\ UNCHANGED <<onL1, onPortal, height, withdrawnAt, unbacked, watching, fresh,
                   request, limits>>

\* POST libplanet/mint, which nothing on L1 backs.
MintOnRequest ==
    /\ unbacked < MaxUnbacked
    /\ unbacked' = unbacked + 1
    /\ supply' = supply + 1
    /\ UNCHANGED <<onL1, onPortal, height, withdrawnAt, watcher, request, limits>>

\* The process ends, by a mintWeth that throws among others.  What was being
\* minted may have reached L3, and a transaction already sent stays.
BridgeCrash ==
    /\ crashes < MaxCrashes
    /\ crashes' = crashes + 1
    /\ watching' = FALSE
    /\ fresh' = <<>>
    /\ callbacks' = {}
    /\ supply' \in {supply} \cup {supply + Amount[Head(ds)] : ds \in callbacks}
    /\ \E sent \in SUBSET {q \in Requests : request[q].place = "submit"} :
          request' = [q \in Requests |-> IF q \in sent THEN request[q] ELSE NoRequest]
    /\ UNCHANGED <<onL1, onPortal, height, withdrawnAt, unbacked, rejections>>

-----------------------------------------------------------------------------
(* L3 and the output roots. *)

WithdrawETH(w) ==
    /\ withdrawnAt[w] = 0
    /\ Amount[w] <= supply
    /\ height < MaxHeight
    /\ supply' = supply - Amount[w]
    /\ height' = height + 1
    /\ withdrawnAt' = [withdrawnAt EXCEPT ![w] = height + 1]
    /\ UNCHANGED <<onL1, onPortal, unbacked, watcher, request, limits>>

ProposeL2Output(n) ==
    /\ n > Newest
    /\ outputs' = Append(outputs, n)
    /\ UNCHANGED <<deposited, proven, onPortal, onL3, watcher, request, limits>>

-----------------------------------------------------------------------------
(* The portal.  Each is one transaction; a require that fails changes      *)
(* nothing.                                                                *)

\* The proof of w verifies against the root of block n.
Covers(n, w) == withdrawnAt[w] # 0 /\ withdrawnAt[w] <= n

ProveWithdrawal(w, index) ==
    /\ IF w \notin proven /\ Covers(outputs[index], w)
       THEN proven' = proven \cup {w}
       ELSE UNCHANGED proven
    /\ UNCHANGED <<deposited, outputs, onPortal, rejections>>

\* Faulty: a withdrawal counts as finalized although the payment failed.
DoneAlways(w, success) == finalized' = finalized \cup {w}

\* Faulty: forgets to note what it has paid.
DoneNever(w, success) == finalized' = finalized

\* finalizedWithdrawals[withdrawalHash] = success
Done(w, success) == finalized' = IF success THEN finalized \cup {w} ELSE finalized

\* Faulty: does not ask for a proof.
MayFinalizeUnproven(w) == w \notin finalized

MayFinalize(w) == w \in proven /\ w \notin finalized

\* send fails for want of balance, or when the recipient refuses.
FinalizeWithdrawal(w) ==
    /\ UNCHANGED onL1
    /\ \/ /\ ~ MayFinalize(w)
          /\ UNCHANGED <<onPortal, rejections>>
       \/ /\ MayFinalize(w)
          /\ locked >= Amount[w]
          /\ locked' = locked - Amount[w]
          /\ paid' = [paid EXCEPT ![w] = @ + 1]
          /\ Done(w, TRUE)
          /\ UNCHANGED rejections
       \/ /\ MayFinalize(w)
          /\ \/ locked < Amount[w] /\ UNCHANGED rejections
             \/ rejections < MaxRejections /\ rejections' = rejections + 1
          /\ Done(w, FALSE)
          /\ UNCHANGED <<locked, paid>>

-----------------------------------------------------------------------------
(* proveWithdrawal and finalizeWithdrawal of EvmService. *)

\* L3 has told the block of the withdrawal.
Ask(q, w, kind) ==
    /\ request[q] = NoRequest
    /\ withdrawnAt[w] # 0
    /\ request' = [request EXCEPT ![q] = [place |-> "root", kind |-> kind, id |-> w]]
    /\ UNCHANGED <<onL1, onPortal, onL3, watcher, limits>>

\* L1 has told its newest root: "tx is not commited yet", or a proof is made
\* against that root, which L3 can do at any time later.
ReadRoot(q) ==
    /\ request[q].place = "root"
    /\ request' =
          [request EXCEPT ![q] =
              IF withdrawnAt[@.id] > Newest THEN NoRequest
              ELSE [place |-> "submit", kind |-> @.kind, id |-> @.id,
                    index |-> Len(outputs)]]
    /\ UNCHANGED <<onL1, onPortal, onL3, watcher, limits>>

\* The transaction is mined.
Submit(q) ==
    /\ request[q].place = "submit"
    /\ \/ /\ request[q].kind = "prove"
          /\ ProveWithdrawal(request[q].id, request[q].index)
       \/ /\ request[q].kind = "finalize"
          /\ FinalizeWithdrawal(request[q].id)
    /\ request' = [request EXCEPT ![q] = NoRequest]
    /\ UNCHANGED <<onL3, watcher, crashes>>

-----------------------------------------------------------------------------
BridgeNext ==
    \/ Watch \/ CallBack \/ MintOnRequest \/ BridgeCrash
    \/ \E d \in Deposits : DepositETH(d)
    \/ \E ds \in callbacks : Mint(ds)
    \/ \E w \in Withdrawals : WithdrawETH(w)
    \/ \E n \in 1 .. height : ProposeL2Output(n)
    \/ \E q \in Requests : ReadRoot(q) \/ Submit(q)
    \/ \E q \in Requests, w \in Withdrawals, kind \in {"prove", "finalize"} :
          Ask(q, w, kind)

BridgeSpec == BridgeInit /\ [][BridgeNext]_bridgeVars

\* Roots reach the tip of L3, transactions are mined, and the owner of a
\* withdrawal goes on asking until it is proved and until it is finalized.
BridgeFairness ==
    /\ WF_bridgeVars(ProposeL2Output(height))
    /\ \A q \in Requests : WF_bridgeVars(ReadRoot(q) \/ Submit(q))
    /\ \A w \in Withdrawals :
          /\ SF_bridgeVars(\E q \in Requests : w \notin proven /\ Ask(q, w, "prove"))
          /\ SF_bridgeVars(\E q \in Requests : /\ w \in proven
                                               /\ w \notin finalized
                                               /\ Ask(q, w, "finalize"))

FairBridgeSpec == BridgeSpec /\ BridgeFairness

-----------------------------------------------------------------------------
(* What the bridge promises. *)

\* A withdrawal is paid at most once, and only when its block is under an
\* output root on L1, whatever requests for it overlap and however often its
\* payment has failed before (LibplanetPortal.sol).
PaidOnceAndCommitted ==
    \A w \in Withdrawals : paid[w] > 0 =>
        /\ paid[w] = 1
        /\ withdrawnAt[w] # 0
        /\ withdrawnAt[w] <= Newest

\* The portal holds the ether for all WETH on L3 and all withdrawals not paid
\* yet, but for what was minted on request: no event is minted twice, by
\* overlapping callbacks, crashes and restarts.
Solvent ==
    LET outstanding == {w \in Withdrawals : withdrawnAt[w] # 0 /\ paid[w] = 0}
    IN  supply + MapThenSumSet(LAMBDA w : Amount[w], outstanding) <= locked + unbacked

\* A withdrawal is paid in the end, though a recipient may refuse for a while,
\* roots move on between the reads of a request, and the process restarts;
\* unless WETH was minted that nothing backs.
WithdrawalsPaid ==
    \A w \in Withdrawals : withdrawnAt[w] # 0 ~> (paid[w] > 0 \/ unbacked > 0)
=============================================================================
