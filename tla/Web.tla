-------------------------------- MODULE Web --------------------------------
(***************************************************************************)
(* The pages of the node (public/js/index.js), WebController, WebGateway   *)
(* and the sessions they share.                                            *)
(*                                                                         *)
(* A page is rendered for the private key of a session, and a socket goes  *)
(* with it.  A request over the socket finds the session by the cookie of  *)
(* the socket's handshake, each time it needs the key: the key it acts     *)
(* with and the one whose balances it reports are read seconds apart,      *)
(* while another tab may post a new key, the process may restart and       *)
(* forget every session, and a new session gets a new cookie.              *)
(*                                                                         *)
(* The banner of the newest root, the logs of the three services and the   *)
(* menus are left out: they have no part in this.                          *)
(***************************************************************************)
EXTENDS Sequences, Naturals

CONSTANTS
    Tabs,          \* the tabs of all browsers
    Browsers,      \* each has one cookie jar
    Keys,          \* private keys
    Nobody,        \* no key
    Gone,          \* no session
    Calls,         \* the calls of handlers that may be under way at once
    Kinds,         \* the forms in use
    MaxClicks,     \* bound on the requests
    MaxChanges     \* bound on the posts of a key and the restarts

\* What each handler waits for, in order: the session for the key to act with,
\* outside its try; the transactions, with the proof before and the receipt and
\* the delay behind; the session of the balances' owner; the balances.
onDepositRequested  == <<"key", "send", "owner", "balances">>
onWithdrawRequested == <<"key", "send", "owner", "balances">>
onProveRequested    == <<"send">>
onFinalizeRequested == <<"send", "owner", "balances">>
onBulkRequested     == <<"send">>

\* The forms of the page and their handlers.
Script ==
    [deposit |-> onDepositRequested, withdraw |-> onWithdrawRequested,
     prove |-> onProveRequested, finalize |-> onFinalizeRequested,
     bulk |-> onBulkRequested]

Holders == Keys \cup {Nobody}

ASSUME WebAssumption ==
    /\ Nobody \notin Keys /\ Gone \notin Holders
    /\ Kinds \subseteq DOMAIN Script
    /\ MaxClicks \in Nat /\ MaxChanges \in Nat

VARIABLES
    browserOf,     \* the browser of each tab
    session,       \* what the store has under a browser's cookie
    cookies,       \* browsers with a cookie
    page,          \* what each tab shows
    socket,        \* "closed", "known", or "stranger": opened with no cookie or
                   \* that of a session the store forgot
    loading,       \* the key each next page is being rendered for, or Gone
    calls,         \* the handlers under way
    \* history
    sincePage,     \* keys posted in a tab's browser since its page was read
    sinceLoad,     \* the same of the next pages
    sinceShown,    \* and of the pages on which the calls were clicked
    waiting,       \* forms whose last request has no result yet, on this connection,
                   \* and whether its amount is whole
    clicks, changes

histories == <<sincePage, sinceLoad, sinceShown>>
limits    == <<clicks, changes>>
webVars   == <<browserOf, session, cookies, page, socket, loading, calls, histories,
               waiting, limits>>

NoPage == [up |-> FALSE, address |-> Nobody, balances |-> Nobody]
NoCall == [kind |-> "none"]
Active == {c \in Calls : calls[c] # NoCall}

CallType == [kind : Kinds, tab : Tabs, rest : Seq({"key", "send", "owner", "balances"}),
             whole : BOOLEAN, key : Holders, address : Holders, known : BOOLEAN,
             heard : BOOLEAN]

WebTypeOK ==
    /\ browserOf \in [Tabs -> Browsers]
    /\ session \in [Browsers -> Holders \cup {Gone}]
    /\ cookies \subseteq Browsers
    /\ \A b \in Browsers : session[b] # Gone => b \in cookies
    /\ page \in [Tabs -> [up : BOOLEAN, address : Holders, balances : Holders]]
    /\ socket \in [Tabs -> {"closed", "known", "stranger"}]
    /\ loading \in [Tabs -> Holders \cup {Gone}]
    /\ \A c \in Active : /\ calls[c] \in CallType
                         /\ calls[c].rest # <<>>
                         /\ calls[c].heard => socket[calls[c].tab] # "closed"
    /\ sincePage \in [Tabs -> SUBSET Keys] /\ sinceLoad \in [Tabs -> SUBSET Keys]
    /\ sinceShown \in [Calls -> SUBSET Keys]
    /\ waiting \subseteq Tabs \X Kinds \X BOOLEAN
    /\ clicks \in 0 .. MaxClicks /\ changes \in 0 .. MaxChanges

WebInit ==
    /\ browserOf \in [Tabs -> Browsers]
    /\ session = [b \in Browsers |-> Gone] /\ cookies = {}
    /\ page = [t \in Tabs |-> NoPage]
    /\ socket = [t \in Tabs |-> "closed"]
    /\ loading = [t \in Tabs |-> Gone]
    /\ calls = [c \in Calls |-> NoCall]
    /\ sincePage = [t \in Tabs |-> {}] /\ sinceLoad = [t \in Tabs |-> {}]
    /\ sinceShown = [c \in Calls |-> {}]
    /\ waiting = {} /\ clicks = 0 /\ changes = 0

-----------------------------------------------------------------------------
(* Sessions and pages *)

TabsOf(b)  == {t \in Tabs : browserOf[t] = b}
CallsOf(b) == {c \in Active : browserOf[calls[c].tab] = b}

\* A key that is none takes the session's key away; it makes no session, as
\* express-session saves none that is empty.
Stored(old, key) == IF old = Gone /\ key = Nobody THEN Gone ELSE key

\* The history of those with the key: they are for a page read before.
Posted(since, those, key) ==
    [x \in DOMAIN since |-> IF x \in those THEN since[x] \cup ({key} \cap Keys) ELSE since[x]]

\* POST web/set/address.  A session the store does not have is replaced by a
\* new one under a new cookie, and no socket has that.  The redirect is a Visit.
SetAddress(t, key) ==
    LET b   == browserOf[t]
        new == session[b] = Gone /\ key # Nobody
    IN  /\ page[t].up
        /\ changes < MaxChanges
        /\ changes' = changes + 1
        /\ session' = [session EXCEPT ![b] = Stored(@, key)]
        /\ cookies' = IF new THEN cookies \cup {b} ELSE cookies
        /\ socket' = [u \in Tabs |-> IF new /\ u \in TabsOf(b) /\ socket[u] = "known"
                                     THEN "stranger" ELSE socket[u]]
        /\ calls' = [c \in Calls |-> IF new /\ c \in CallsOf(b)
                                     THEN [calls[c] EXCEPT !.known = FALSE] ELSE calls[c]]
        /\ sincePage' = Posted(sincePage, TabsOf(b), key)
        /\ sinceLoad' = Posted(sinceLoad, {u \in TabsOf(b) : loading[u] # Gone}, key)
        /\ sinceShown' = Posted(sinceShown, CallsOf(b), key)
        /\ UNCHANGED <<browserOf, page, loading, waiting, clicks>>

\* GET web: the session is read when the request comes, what the page shows
\* about it later.
Visit(t) ==
    LET key == session[browserOf[t]]
    IN  /\ loading[t] = Gone
        /\ loading' = [loading EXCEPT ![t] = IF key = Gone THEN Nobody ELSE key]
        /\ UNCHANGED <<browserOf, session, cookies, page, socket, calls, histories,
                       waiting, limits>>

\* Faulty: they are heard on the next socket.
StillHeard(ts) == calls

\* The calls whose socket closes with those of the tabs ts go on unheard.
Unheard(ts) ==
    [c \in Calls |-> IF c \in Active /\ calls[c].tab \in ts
                     THEN [calls[c] EXCEPT !.heard = FALSE] ELSE calls[c]]

\* The next page replaces the one shown, and closes its socket.  An error page
\* comes when a node does not answer.
Replace(t, new) ==
    /\ loading[t] # Gone
    /\ page' = [page EXCEPT ![t] = new]
    /\ socket' = [socket EXCEPT ![t] = "closed"]
    /\ loading' = [loading EXCEPT ![t] = Gone]
    /\ calls' = Unheard({t})
    /\ sincePage' = [sincePage EXCEPT ![t] = sinceLoad[t]]
    /\ sinceLoad' = [sinceLoad EXCEPT ![t] = {}]
    /\ waiting' = {w \in waiting : w[1] # t}
    /\ UNCHANGED <<browserOf, session, cookies, sinceShown, limits>>

Show(t) == Replace(t, [up |-> TRUE, address |-> loading[t], balances |-> loading[t]])
ShowError(t) == Replace(t, NoPage)

\* The handshake has the cookie the browser has then.
Connect(t) ==
    /\ page[t].up /\ socket[t] = "closed"
    /\ socket' = [socket EXCEPT ![t] = IF browserOf[t] \in cookies THEN "known"
                                       ELSE "stranger"]
    /\ UNCHANGED <<browserOf, session, cookies, page, loading, calls, histories,
                   waiting, limits>>

Disconnect(t) ==
    /\ socket[t] # "closed"
    /\ socket' = [socket EXCEPT ![t] = "closed"]
    /\ calls' = Unheard({t})
    /\ waiting' = {w \in waiting : w[1] # t}
    /\ UNCHANGED <<browserOf, session, cookies, page, loading, histories, limits>>

\* The sessions are in memory.
Restart ==
    /\ changes < MaxChanges
    /\ changes' = changes + 1
    /\ session' = [b \in Browsers |-> Gone]
    /\ page' = [t \in Tabs |-> IF loading[t] = Gone THEN page[t] ELSE NoPage]
    /\ socket' = [t \in Tabs |-> "closed"]
    /\ loading' = [t \in Tabs |-> Gone]
    /\ calls' = [c \in Calls |-> NoCall]
    /\ sinceLoad' = [t \in Tabs |-> {}] /\ sinceShown' = [c \in Calls |-> {}]
    /\ waiting' = {}
    /\ UNCHANGED <<browserOf, cookies, sincePage, clicks>>

-----------------------------------------------------------------------------
(* Requests *)

NeedsKey(kind) == Script[kind][1] = "key"

\* The amount of a deposit or a withdrawal is any text that is not empty, one that
\* BigInt reads or not; the other forms have none.
AmountIsWhole(kind) == IF NeedsKey(kind) THEN BOOLEAN ELSE {TRUE}

OfForm(t, kind) == {w \in waiting : w[1] = t /\ w[2] = kind}

\* A click on a form empties its responses.  One on a page that is not connected
\* waits in the socket and is a click after the connection.
Click(t, kind, whole, c) ==
    /\ socket[t] # "closed"
    /\ whole \in AmountIsWhole(kind)
    /\ calls[c] = NoCall
    /\ clicks < MaxClicks
    /\ clicks' = clicks + 1
    /\ calls' = [calls EXCEPT ![c] =
                    [kind |-> kind, tab |-> t, rest |-> Script[kind], whole |-> whole,
                     key |-> Nobody, address |-> page[t].address,
                     known |-> socket[t] = "known", heard |-> TRUE]]
    /\ sinceShown' = [sinceShown EXCEPT ![c] = sincePage[t]]
    /\ waiting' = (waiting \ OfForm(t, kind)) \cup {<<t, kind, whole>>}
    /\ UNCHANGED <<browserOf, session, cookies, page, socket, loading, sincePage,
                   sinceLoad, changes>>

\* Faulty: any session the store has.
SessionOfAnyone(call) ==
    IF \E b \in Browsers : session[b] \in Keys
    THEN session[CHOOSE b \in Browsers : session[b] \in Keys] ELSE Gone

\* getSessionFromSocket
SessionOf(call) == IF call.known THEN session[browserOf[call.tab]] ELSE Gone

At(c, step) == c \in Active /\ Head(calls[c].rest) = step

Ends(c, result) ==
    /\ calls' = [calls EXCEPT ![c] = NoCall]
    /\ sinceShown' = [sinceShown EXCEPT ![c] = {}]
    /\ waiting' = IF result /\ calls[c].heard
                  THEN waiting \ OfForm(calls[c].tab, calls[c].kind) ELSE waiting

\* With key: what the step found.
Proceeds(c, key) ==
    IF Len(calls[c].rest) = 1 THEN Ends(c, TRUE)
    ELSE /\ calls' = [calls EXCEPT ![c].rest = Tail(@), ![c].key = key]
         /\ UNCHANGED <<sinceShown, waiting>>

CallUnchanged ==
    UNCHANGED <<browserOf, session, cookies, socket, loading, sincePage, sinceLoad, limits>>

\* No session, or an amount BigInt does not read: the exception is outside the
\* try and nothing is shown.
ReadKey(c) ==
    /\ At(c, "key")
    /\ LET found == SessionOf(calls[c])
       IN  IF found = Gone \/ ~ calls[c].whole THEN Ends(c, FALSE) ELSE Proceeds(c, found)
    /\ UNCHANGED page /\ CallUnchanged

Work(c) ==
    /\ At(c, "send")
    /\ NeedsKey(calls[c].kind) => calls[c].key # Nobody
    /\ Proceeds(c, calls[c].key)
    /\ UNCHANGED page /\ CallUnchanged

\* updateBalances
ReadOwner(c) ==
    /\ At(c, "owner")
    /\ SessionOf(calls[c]) \in Keys
    /\ Proceeds(c, SessionOf(calls[c]))
    /\ UNCHANGED page /\ CallUnchanged

\* A page without an address has no place for balances.
ShowBalances(c) ==
    LET t == calls[c].tab
    IN  /\ At(c, "balances")
        /\ page' = IF calls[c].heard /\ page[t].address # Nobody
                   THEN [page EXCEPT ![t].balances = calls[c].key] ELSE page
        /\ Proceeds(c, Nobody)
        /\ CallUnchanged

\* Faulty: the balances are read behind the try.
CaughtBefore(c) == Head(calls[c].rest) \notin {"key", "owner"}

Caught(c) == Head(calls[c].rest) # "key"

\* The transaction fails, L1 or L3 does not answer, or there is no key.
Fails(c) ==
    /\ c \in Active
    /\ Head(calls[c].rest) # "key"
    /\ Ends(c, Caught(c))
    /\ UNCHANGED page /\ CallUnchanged

Handler(c) == ReadKey(c) \/ Work(c) \/ ReadOwner(c) \/ ShowBalances(c) \/ Fails(c)

WebNext ==
    \/ \E t \in Tabs : \/ \E key \in Holders : SetAddress(t, key)
                       \/ Visit(t) \/ Show(t) \/ ShowError(t)
                       \/ Connect(t) \/ Disconnect(t)
                       \/ \E kind \in Kinds, whole \in BOOLEAN, c \in Calls : Click(t, kind, whole, c)
    \/ \E c \in Calls : Handler(c)
    \/ Restart

WebSpec == WebInit /\ [][WebNext]_webVars

-----------------------------------------------------------------------------
(* What the pages promise. *)

\* A deposit or a withdrawal is sent with the key of the address its page showed
\* at the click, or with one that was posted in the same browser since that page
\* was read: never with the key of another browser, nor with one the session had
\* before.
ActsForAddressShown ==
    \A c \in Active : calls[c].kind \in {"deposit", "withdraw"} /\ calls[c].key # Nobody
        => calls[c].key = calls[c].address \/ calls[c].key \in sinceShown[c]

\* The balances under an address are its own, or those of a key posted in the same
\* browser since the page was read, though a handler reads the session a second
\* time for them, and answers on a page that may have been replaced.
BalancesOfAddressShown ==
    \A t \in Tabs : page[t].balances = page[t].address \/ page[t].balances \in sincePage[t]

\* The call c is to answer a request of the form.
Answers(c, t, kind) ==
    /\ calls[c].tab = t /\ calls[c].kind = kind
    /\ calls[c].heard /\ calls[c].whole

\* No request with a whole amount is left without a result or an error on its page:
\* while the connection lasts a handler is at it, whatever other requests of the
\* form end without a word, unless the store does not have the session of the
\* connection: then the handler fails before it says one itself.
RequestsAnswered ==
    \A t \in Tabs, kind \in Kinds : <<t, kind, TRUE>> \in waiting =>
        \/ \E c \in Active : Answers(c, t, kind)
        \/ socket[t] = "stranger"
        \/ session[browserOf[t]] = Gone
=============================================================================
