----------------------------- MODULE WebProofs -----------------------------
(***************************************************************************)
(* What holds of the pages for all tabs, browsers, keys and bounds, however *)
(* many handlers are under way.                                            *)
(***************************************************************************)
EXTENDS Web, TLAPS

USE WebAssumption DEF WebAssumption

Step == {"key", "send", "owner", "balances"}

\* What may be left of a handler: its last steps.
Endings ==
    {<<"key", "send", "owner", "balances">>, <<"send", "owner", "balances">>,
     <<"owner", "balances">>, <<"balances">>, <<"send">>}

SessionOfTab(t) == session[browserOf[t]]

\* A handler is at one of its steps.
StepsLeft ==
    /\ calls \in [Calls -> {NoCall} \cup CallType]
    /\ \A c \in Active : calls[c].rest \in Endings

\* Only a page that is shown has a connection, and only on a connection does a
\* request wait.
Connected ==
    /\ \A t \in Tabs : socket[t] # "closed" => page[t].up
    /\ \A w \in waiting : socket[w[1]] # "closed"

\* The key of a session is the one its page shows, or was posted since.
PagesFresh ==
    \A t \in Tabs : page[t].up /\ SessionOfTab(t) \in Keys =>
        SessionOfTab(t) = page[t].address \/ SessionOfTab(t) \in sincePage[t]

\* So it is with the next page.
LoadsFresh ==
    \A t \in Tabs : loading[t] # Gone /\ SessionOfTab(t) \in Keys =>
        SessionOfTab(t) = loading[t] \/ SessionOfTab(t) \in sinceLoad[t]

\* And with a handler: so is the key it has, and the one it may find.
CallsFresh ==
    \A c \in Active :
        LET own == {calls[c].address} \cup sinceShown[c]
        IN  /\ SessionOfTab(calls[c].tab) \in Keys => SessionOfTab(calls[c].tab) \in own
            /\ calls[c].key # Nobody => calls[c].key \in own

\* Balances on their way to a page are those of its address, or of a key posted
\* since.
BalancesOwned ==
    \A c \in Active :
        /\ calls[c].heard
        /\ calls[c].rest = <<"balances">>
        => \/ calls[c].key = page[calls[c].tab].address
           \/ calls[c].key \in sincePage[calls[c].tab]

\* A handler that is heard has the session of its socket.
KnownAlike ==
    \A c \in Active :
        calls[c].heard => (calls[c].known <=> socket[calls[c].tab] = "known")

WebIInv ==
    /\ WebTypeOK
    /\ StepsLeft
    /\ Connected
    /\ PagesFresh
    /\ LoadsFresh
    /\ CallsFresh
    /\ BalancesOwned
    /\ KnownAlike
    /\ BalancesOfAddressShown
    /\ RequestsAnswered

\* An ending and what follows a step of it.
LEMMA EndingsType ==
    ASSUME NEW r \in Endings
    PROVE  /\ r \in Seq(Step) /\ r # <<>> /\ Head(r) \in Step
           /\ Len(r) # 1 => Tail(r) \in Endings /\ Tail(r) # <<>>
           /\ Head(r) = "key" => Len(r) # 1
           /\ Len(r) # 1 /\ Tail(r) = <<"balances">> => Head(r) = "owner"
           /\ Head(r) = "balances" => r = <<"balances">>
<1>1. CASE r = <<"key", "send", "owner", "balances">>
    BY <1>1 DEF Step, Endings
<1>2. CASE r = <<"send", "owner", "balances">>
    BY <1>2 DEF Step, Endings
<1>3. CASE r = <<"owner", "balances">>
    BY <1>3 DEF Step, Endings
<1>4. CASE r = <<"balances">>
    BY <1>4 DEF Step, Endings
<1>5. CASE r = <<"send">>
    BY <1>5 DEF Step, Endings
<1>. QED
    BY <1>1, <1>2, <1>3, <1>4, <1>5 DEF Endings

\* NoCall is not a call.
LEMMA CallsAreNot ==
    ASSUME StepsLeft, NEW c \in Calls
    PROVE  /\ c \in Active <=> calls[c] \in CallType
           /\ c \notin Active <=> calls[c] = NoCall
<1>1. NoCall \notin CallType
  <2>1. \A r \in CallType : r.kind \in Kinds
      BY DEF CallType
  <2>2. NoCall.kind = "none" /\ "none" \notin Kinds
      BY DEF NoCall, Script
  <2>. QED
      BY <2>1, <2>2
<1>. QED
    BY <1>1 DEF StepsLeft, Active

-----------------------------------------------------------------------------
(* The type. *)

\* The invariant holds at the start.
LEMMA WebIInvInit == WebInit => WebIInv
<1> SUFFICES ASSUME WebInit PROVE WebIInv
    OBVIOUS
<1>1. Active = {}
    BY DEF Active, WebInit
<1>2. WebTypeOK
    BY <1>1 DEF WebInit, WebTypeOK, Holders, NoPage
<1>3. StepsLeft
    BY <1>1 DEF WebInit, StepsLeft
<1>4. Connected /\ PagesFresh /\ LoadsFresh
    BY DEF WebInit, Connected, PagesFresh, LoadsFresh, NoPage
<1>5. CallsFresh /\ BalancesOwned /\ KnownAlike
    BY <1>1 DEF CallsFresh, BalancesOwned, KnownAlike
<1>6. BalancesOfAddressShown /\ RequestsAnswered
    BY DEF WebInit, BalancesOfAddressShown, RequestsAnswered, NoPage
<1>. QED
    BY <1>2, <1>3, <1>4, <1>5, <1>6 DEF WebIInv

-----------------------------------------------------------------------------
(* Sessions and pages. *)

\* A handler goes on as it was, but for the connection.
Same(c) ==
    /\ calls'[c] \in CallType
    /\ calls'[c].kind = calls[c].kind
    /\ calls'[c].tab = calls[c].tab
    /\ calls'[c].rest = calls[c].rest
    /\ calls'[c].key = calls[c].key
    /\ calls'[c].address = calls[c].address
    /\ calls'[c].whole = calls[c].whole

\* Calls whose socket closes keep all but that they are heard.
LEMMA UnheardCalls ==
    ASSUME StepsLeft, NEW ts, NEW c \in Calls
    PROVE  /\ c \notin Active => Unheard(ts)[c] = NoCall
           /\ c \in Active =>
                /\ Unheard(ts)[c] # NoCall
                /\ Unheard(ts)[c] \in CallType
                /\ Unheard(ts)[c].kind = calls[c].kind
                /\ Unheard(ts)[c].tab = calls[c].tab
                /\ Unheard(ts)[c].rest = calls[c].rest
                /\ Unheard(ts)[c].key = calls[c].key
                /\ Unheard(ts)[c].address = calls[c].address
                /\ Unheard(ts)[c].whole = calls[c].whole
                /\ Unheard(ts)[c].known = calls[c].known
                /\ Unheard(ts)[c].heard <=> calls[c].heard /\ calls[c].tab \notin ts
<1>1. c \notin Active => Unheard(ts)[c] = NoCall
    BY CallsAreNot DEF Unheard
<1>2. CASE c \in Active
  <2>1. calls[c] \in CallType
      BY <1>2, CallsAreNot
  <2>2. [calls[c] EXCEPT !.heard = FALSE] \in CallType
      BY <2>1 DEF CallType
  <2>3. \A r \in CallType : r # NoCall
    <3>1. \A r \in CallType : r.kind \in Kinds
        BY DEF CallType
    <3>2. NoCall.kind = "none" /\ "none" \notin Kinds
        BY DEF NoCall, Script
    <3>. QED
        BY <3>1, <3>2
  <2>4. CASE calls[c].tab \in ts
    <3>1. Unheard(ts)[c] = [calls[c] EXCEPT !.heard = FALSE]
        BY <1>2, <2>4 DEF Unheard
    <3>. HIDE DEF Unheard
    <3>. QED
        BY <1>2, <2>1, <2>2, <2>3, <2>4, <3>1 DEF CallType
  <2>5. CASE calls[c].tab \notin ts
    <3>1. Unheard(ts)[c] = calls[c]
        BY <1>2, <2>5 DEF Unheard
    <3>. QED
        BY <1>2, <2>1, <2>3, <2>5, <3>1
  <2>. QED
      BY <2>4, <2>5
<1>. QED
    BY <1>1, <1>2

\* The next page, or an error, replaces the page.
LEMMA ReplaceStep ==
    ASSUME WebIInv, NEW t \in Tabs, Show(t) \/ ShowError(t)
    PROVE  WebIInv'
<1> USE DEF WebIInv
<1>1. calls' = Unheard({t})
    BY DEF Show, ShowError, Replace
<1>2. /\ Active \subseteq Calls
      /\ \A c \in Calls \ Active : calls'[c] = NoCall
      /\ \A c \in Active : /\ Same(c) /\ calls'[c] # NoCall
                           /\ calls'[c].known = calls[c].known
                           /\ calls'[c].heard <=> calls[c].heard /\ calls[c].tab # t
    BY <1>1, UnheardCalls DEF Same, Active
<1>3. Active' = Active
    BY <1>2 DEF Active
<1>4. /\ page' \in [Tabs -> [up : BOOLEAN, address : Holders, balances : Holders]]
      /\ page'[t].balances = page'[t].address
      /\ page'[t].up => page'[t].address = loading[t]
      /\ \A u \in Tabs \ {t} : page'[u] = page[u]
  <2>1. CASE Show(t)
    <3>1. loading[t] \in Holders
        BY <2>1 DEF Show, Replace, WebTypeOK
    <3>. QED
        BY <2>1, <3>1 DEF Show, Replace, WebTypeOK
  <2>2. CASE ShowError(t)
    <3>1. /\ NoPage \in [up : BOOLEAN, address : Holders, balances : Holders]
          /\ NoPage.balances = NoPage.address /\ ~ NoPage.up
        BY DEF NoPage, Holders
    <3>. HIDE DEF NoPage
    <3>. QED
        BY <2>2, <3>1 DEF ShowError, Replace, WebTypeOK
  <2>. QED
      BY <2>1, <2>2
<1>5. /\ socket'[t] = "closed" /\ loading'[t] = Gone /\ loading[t] # Gone
      /\ \A u \in Tabs \ {t} : socket'[u] = socket[u] /\ loading'[u] = loading[u]
    BY DEF Show, ShowError, Replace, WebTypeOK
<1>6. /\ socket' \in [Tabs -> {"closed", "known", "stranger"}]
      /\ loading' \in [Tabs -> Holders \cup {Gone}]
    BY DEF Show, ShowError, Replace, WebTypeOK
<1>7. /\ sincePage' \in [Tabs -> SUBSET Keys] /\ sinceLoad' \in [Tabs -> SUBSET Keys]
      /\ sincePage'[t] = sinceLoad[t] /\ sinceLoad'[t] = {}
      /\ \A u \in Tabs \ {t} : sincePage'[u] = sincePage[u] /\ sinceLoad'[u] = sinceLoad[u]
      /\ waiting' = {w \in waiting : w[1] # t}
      /\ UNCHANGED <<browserOf, session, cookies, sinceShown, clicks, changes>>
    BY DEF Show, ShowError, Replace, limits, WebTypeOK
<1>8. \A c \in Active : calls[c] \in CallType /\ calls[c].tab \in Tabs
  <2>1. \A c \in Active : calls[c] \in CallType
      BY DEF WebTypeOK
  <2>. QED
      BY <2>1 DEF CallType
<1>10. WebTypeOK'
  <2>1. \A c \in Active' : /\ calls'[c] \in CallType /\ calls'[c].rest # <<>>
                           /\ calls'[c].heard => socket'[calls'[c].tab] # "closed"
      BY <1>2, <1>3, <1>5, <1>8 DEF WebTypeOK, Same
  <2>. QED
      BY <1>4, <1>6, <1>7, <2>1 DEF WebTypeOK
<1>11. StepsLeft'
  <2>1. calls' \in [Calls -> {NoCall} \cup CallType]
    <3>1. calls' = [c \in Calls |-> calls'[c]]
        BY <1>1 DEF Unheard
    <3>. QED
        BY <1>2, <3>1 DEF Same
  <2>2. \A c \in Active' : calls'[c].rest \in Endings
      BY <1>2, <1>3 DEF StepsLeft, Same
  <2>. QED
      BY <2>1, <2>2 DEF StepsLeft
<1>12. Connected'
  <2>1. \A w \in waiting' : socket'[w[1]] # "closed"
      BY <1>5, <1>7 DEF Connected, WebTypeOK
  <2>. QED
      BY <1>4, <1>5, <2>1 DEF Connected
<1>13. PagesFresh'
  <2>1. page'[t].up /\ SessionOfTab(t) \in Keys
            => SessionOfTab(t) = page'[t].address \/ SessionOfTab(t) \in sincePage'[t]
      BY <1>4, <1>5, <1>7 DEF LoadsFresh
  <2>. QED
      BY <1>4, <1>7, <2>1 DEF PagesFresh, SessionOfTab
<1>14. LoadsFresh'
    BY <1>5, <1>7 DEF LoadsFresh, SessionOfTab
<1>15. CallsFresh'
    BY <1>2, <1>3, <1>7, <1>8 DEF CallsFresh, SessionOfTab, Same
<1>16. BalancesOwned'
    BY <1>2, <1>3, <1>4, <1>7, <1>8 DEF BalancesOwned, Same
<1>17. KnownAlike'
    BY <1>2, <1>3, <1>5, <1>8 DEF KnownAlike, Same
<1>18. BalancesOfAddressShown'
    BY <1>4, <1>7 DEF BalancesOfAddressShown
<1>19. RequestsAnswered'
  <2> SUFFICES ASSUME NEW u \in Tabs, NEW kind \in Kinds, <<u, kind, TRUE>> \in waiting'
               PROVE  \/ \E c \in Active' : Answers(c, u, kind)'
                      \/ socket'[u] = "stranger"
                      \/ session'[browserOf'[u]] = Gone
      BY DEF RequestsAnswered
  <2>1. u # t /\ <<u, kind, TRUE>> \in waiting
      BY <1>7
  <2>2. \A c \in Active : Answers(c, u, kind) => Answers(c, u, kind)'
      BY <1>2, <2>1 DEF Same, Answers
  <2>. QED
      BY <1>2, <1>3, <1>5, <1>7, <2>1, <2>2 DEF RequestsAnswered
<1>. QED
    BY <1>10, <1>11, <1>12, <1>13, <1>14, <1>15, <1>16, <1>17, <1>18, <1>19

\* A connection ends.
LEMMA DisconnectStep ==
    ASSUME WebIInv, NEW t \in Tabs, Disconnect(t)
    PROVE  WebIInv'
<1> USE DEF WebIInv
<1>1. calls' = Unheard({t})
    BY DEF Disconnect
<1>2. /\ Active \subseteq Calls
      /\ \A c \in Calls \ Active : calls'[c] = NoCall
      /\ \A c \in Active : /\ Same(c) /\ calls'[c] # NoCall
                           /\ calls'[c].known = calls[c].known
                           /\ calls'[c].heard <=> calls[c].heard /\ calls[c].tab # t
    BY <1>1, UnheardCalls DEF Same, Active
<1>3. Active' = Active
    BY <1>2 DEF Active
<1>4. /\ socket' \in [Tabs -> {"closed", "known", "stranger"}]
      /\ socket'[t] = "closed" /\ \A u \in Tabs \ {t} : socket'[u] = socket[u]
    BY DEF Disconnect, WebTypeOK
<1>5. /\ waiting' = {w \in waiting : w[1] # t}
      /\ UNCHANGED <<browserOf, session, cookies, page, loading, clicks, changes>>
      /\ UNCHANGED <<sincePage, sinceLoad, sinceShown>>
    BY DEF Disconnect, limits, histories
<1>6. \A c \in Active : calls[c] \in CallType /\ calls[c].tab \in Tabs
  <2>1. \A c \in Active : calls[c] \in CallType
      BY DEF WebTypeOK
  <2>. QED
      BY <2>1 DEF CallType
<1>7. WebTypeOK'
  <2>1. \A c \in Active' : /\ calls'[c] \in CallType /\ calls'[c].rest # <<>>
                           /\ calls'[c].heard => socket'[calls'[c].tab] # "closed"
      BY <1>2, <1>3, <1>4, <1>6 DEF WebTypeOK, Same
  <2>. QED
      BY <1>4, <1>5, <2>1 DEF WebTypeOK
<1>8. StepsLeft'
  <2>1. calls' \in [Calls -> {NoCall} \cup CallType]
    <3>1. calls' = [c \in Calls |-> calls'[c]]
        BY <1>1 DEF Unheard
    <3>. QED
        BY <1>2, <3>1 DEF Same
  <2>2. \A c \in Active' : calls'[c].rest \in Endings
      BY <1>2, <1>3 DEF StepsLeft, Same
  <2>. QED
      BY <2>1, <2>2 DEF StepsLeft
<1>9. Connected'
  <2>1. \A w \in waiting' : socket'[w[1]] # "closed"
      BY <1>4, <1>5 DEF Connected, WebTypeOK
  <2>. QED
      BY <1>4, <1>5, <2>1 DEF Connected
<1>10. PagesFresh' /\ LoadsFresh' /\ BalancesOfAddressShown'
    BY <1>5 DEF PagesFresh, LoadsFresh, BalancesOfAddressShown, SessionOfTab
<1>11. CallsFresh'
    BY <1>2, <1>3, <1>5, <1>6 DEF CallsFresh, SessionOfTab, Same
<1>12. BalancesOwned'
    BY <1>2, <1>3, <1>5, <1>6 DEF BalancesOwned, Same
<1>13. KnownAlike'
    BY <1>2, <1>3, <1>4, <1>6 DEF KnownAlike, Same
<1>14. RequestsAnswered'
  <2> SUFFICES ASSUME NEW u \in Tabs, NEW kind \in Kinds, <<u, kind, TRUE>> \in waiting'
               PROVE  \/ \E c \in Active' : Answers(c, u, kind)'
                      \/ socket'[u] = "stranger"
                      \/ session'[browserOf'[u]] = Gone
      BY DEF RequestsAnswered
  <2>1. u # t /\ <<u, kind, TRUE>> \in waiting
      BY <1>5
  <2>2. \A c \in Active : Answers(c, u, kind) => Answers(c, u, kind)'
      BY <1>2, <2>1 DEF Same, Answers
  <2>. QED
      BY <1>2, <1>3, <1>4, <1>5, <2>1, <2>2 DEF RequestsAnswered
<1>. QED
    BY <1>7, <1>8, <1>9, <1>10, <1>11, <1>12, <1>13, <1>14

\* A key is posted: what was read of the session before is old now, and when it
\* is a new session no socket has its cookie.
LEMMA SetAddressStep ==
    ASSUME WebIInv, NEW t \in Tabs, NEW key \in Holders, SetAddress(t, key)
    PROVE  WebIInv'
<1> USE DEF WebIInv
<1> DEFINE b   == browserOf[t]
           new == session[b] = Gone /\ key # Nobody
<1>1. b \in Browsers
    BY DEF WebTypeOK
<1>2. /\ session' \in [Browsers -> Holders \cup {Gone}]
      /\ session'[b] \in Keys => session'[b] = key
      /\ session'[b] = Gone <=> session[b] = Gone /\ ~ new
      /\ \A e \in Browsers \ {b} : session'[e] = session[e]
  <2>1. session' = [session EXCEPT ![b] = Stored(@, key)]
      BY DEF SetAddress
  <2>2. Stored(session[b], key) \in {key, Gone} /\ key # Gone /\ Gone \notin Keys
      BY DEF Stored, Holders
  <2>3. Stored(session[b], key) = Gone <=> session[b] = Gone /\ ~ new
      BY <2>2 DEF Stored
  <2>. QED
      BY <1>1, <2>1, <2>2, <2>3 DEF WebTypeOK
<1>3. cookies' = IF new THEN cookies \cup {b} ELSE cookies
    BY DEF SetAddress
<1>4. /\ socket' \in [Tabs -> {"closed", "known", "stranger"}]
      /\ \A u \in Tabs : socket'[u] = IF new /\ browserOf[u] = b /\ socket[u] = "known"
                                      THEN "stranger" ELSE socket[u]
    BY DEF SetAddress, TabsOf, WebTypeOK
<1>5. /\ UNCHANGED <<browserOf, page, loading, waiting, clicks>>
      /\ changes' \in 0 .. MaxChanges
    BY DEF SetAddress, WebTypeOK
<1>6. /\ sincePage' \in [Tabs -> SUBSET Keys] /\ sinceLoad' \in [Tabs -> SUBSET Keys]
      /\ sinceShown' \in [Calls -> SUBSET Keys]
      /\ \A u \in Tabs : sincePage[u] \subseteq sincePage'[u] /\ sinceLoad[u] \subseteq sinceLoad'[u]
      /\ \A c \in Calls : sinceShown[c] \subseteq sinceShown'[c]
    BY DEF SetAddress, Posted, WebTypeOK
<1>7. key \in Keys =>
        /\ \A u \in Tabs : browserOf[u] = b => key \in sincePage'[u]
        /\ \A u \in Tabs : browserOf[u] = b /\ loading[u] # Gone => key \in sinceLoad'[u]
        /\ \A c \in Active : browserOf[calls[c].tab] = b => key \in sinceShown'[c]
    BY DEF SetAddress, Posted, TabsOf, CallsOf, Active, WebTypeOK
<1>8. \A c \in Active : calls[c] \in CallType /\ calls[c].tab \in Tabs
  <2>1. \A c \in Active : calls[c] \in CallType
      BY DEF WebTypeOK
  <2>. QED
      BY <2>1 DEF CallType
<1>9. calls' = [c \in Calls |-> IF new /\ c \in CallsOf(b)
                                THEN [calls[c] EXCEPT !.known = FALSE] ELSE calls[c]]
    BY DEF SetAddress
<1>10. \A c \in Calls \ Active : calls'[c] = NoCall
    BY <1>9, CallsAreNot DEF CallsOf
<1>11. /\ Active \subseteq Calls
       /\ \A c \in Active :
             /\ Same(c) /\ calls'[c] # NoCall
             /\ calls'[c].heard = calls[c].heard
             /\ calls'[c].known <=> calls[c].known /\ ~ (new /\ browserOf[calls[c].tab] = b)
  <2>1. Active \subseteq Calls
      BY DEF Active
  <2>2. \A r \in CallType : r # NoCall
    <3>1. \A r \in CallType : r.kind \in Kinds
        BY DEF CallType
    <3>2. NoCall.kind = "none" /\ "none" \notin Kinds
        BY DEF NoCall, Script
    <3>. QED
        BY <3>1, <3>2
  <2>3. ASSUME NEW c \in Active, new, browserOf[calls[c].tab] = b
        PROVE  /\ Same(c) /\ calls'[c].heard = calls[c].heard /\ ~ calls'[c].known
    <3>1. c \in CallsOf(b)
        BY <2>3 DEF CallsOf
    <3>2. calls'[c] = [calls[c] EXCEPT !.known = FALSE]
        BY <1>9, <2>1, <2>3, <3>1
    <3>. QED
        BY <1>8, <3>2 DEF Same, CallType
  <2>4. ASSUME NEW c \in Active, ~ (new /\ browserOf[calls[c].tab] = b)
        PROVE  Same(c) /\ calls'[c] = calls[c]
    <3>1. ~ (new /\ c \in CallsOf(b))
        BY <2>4 DEF CallsOf
    <3>2. calls'[c] = calls[c]
        BY <1>9, <2>1, <2>4, <3>1
    <3>. QED
        BY <1>8, <3>2 DEF Same
  <2>5. \A c \in Active : calls'[c].known <=> calls[c].known /\ ~ (new /\ browserOf[calls[c].tab] = b)
      BY <2>3, <2>4, Zenon
  <2>. QED
      BY <2>1, <2>2, <2>3, <2>4, <2>5 DEF Same
<1> HIDE DEF new, b
<1>12. Active' = Active
    BY <1>10, <1>11 DEF Active
<1>13. WebTypeOK'
  <2>1. \A c \in Active' : /\ calls'[c] \in CallType /\ calls'[c].rest # <<>>
                           /\ calls'[c].heard => socket'[calls'[c].tab] # "closed"
      BY <1>4, <1>8, <1>11, <1>12 DEF WebTypeOK, Same
  <2>2. cookies' \subseteq Browsers /\ \A e \in Browsers : session'[e] # Gone => e \in cookies'
      BY <1>1, <1>2, <1>3 DEF WebTypeOK
  <2>. QED
      BY <1>2, <1>4, <1>5, <1>6, <2>1, <2>2 DEF WebTypeOK
<1>14. StepsLeft'
  <2>1. calls' \in [Calls -> {NoCall} \cup CallType]
    <3>1. calls' = [c \in Calls |-> calls'[c]]
        BY <1>9
    <3>. QED
        BY <1>10, <1>11, <3>1 DEF Same
  <2>2. \A c \in Active' : calls'[c].rest \in Endings
      BY <1>11, <1>12 DEF StepsLeft, Same
  <2>. QED
      BY <2>1, <2>2 DEF StepsLeft
<1>15. Connected'
  <2>1. \A w \in waiting' : socket'[w[1]] # "closed"
      BY <1>4, <1>5 DEF Connected, WebTypeOK
  <2>. QED
      BY <1>4, <1>5, <2>1 DEF Connected
<1>16. \A u \in Tabs : browserOf[u] # b => session'[browserOf'[u]] = session[browserOf[u]]
    BY <1>2, <1>5 DEF WebTypeOK
<1>17. PagesFresh' /\ LoadsFresh'
    BY <1>2, <1>5, <1>6, <1>7, <1>16 DEF PagesFresh, LoadsFresh, SessionOfTab
<1>18. CallsFresh'
  <2> SUFFICES ASSUME NEW c \in Active
               PROVE  LET own == {calls'[c].address} \cup sinceShown'[c]
                          now == session'[browserOf'[calls'[c].tab]]
                      IN  /\ now \in Keys => now \in own
                          /\ calls'[c].key # Nobody => calls'[c].key \in own
      BY <1>12 DEF CallsFresh, SessionOfTab
  <2>1. /\ calls'[c].address = calls[c].address /\ calls'[c].key = calls[c].key
        /\ calls'[c].tab = calls[c].tab /\ calls[c].tab \in Tabs
        /\ sinceShown[c] \subseteq sinceShown'[c]
      BY <1>6, <1>8, <1>11 DEF Same
  <2>2. CASE browserOf[calls[c].tab] = b
      BY <1>2, <1>5, <1>7, <2>1, <2>2 DEF CallsFresh
  <2>3. CASE browserOf[calls[c].tab] # b
      BY <1>5, <1>16, <2>1, <2>3 DEF CallsFresh, SessionOfTab
  <2>. QED
      BY <2>2, <2>3
<1>19. BalancesOwned'
    BY <1>5, <1>6, <1>8, <1>11, <1>12 DEF BalancesOwned, Same
<1>20. KnownAlike'
    BY <1>4, <1>8, <1>11, <1>12 DEF KnownAlike, Same
<1>21. BalancesOfAddressShown'
    BY <1>5, <1>6 DEF BalancesOfAddressShown
<1>22. RequestsAnswered'
  <2> SUFFICES ASSUME NEW u \in Tabs, NEW kind \in Kinds, <<u, kind, TRUE>> \in waiting'
               PROVE  \/ \E c \in Active' : Answers(c, u, kind)'
                      \/ socket'[u] = "stranger"
                      \/ session'[browserOf'[u]] = Gone
      BY DEF RequestsAnswered
  <2>1. CASE \E c \in Active : Answers(c, u, kind)
      BY <1>11, <1>12, <2>1 DEF Same, Answers
  <2>2. CASE socket[u] = "stranger"
      BY <1>4, <2>2
  <2>3. CASE session[browserOf[u]] = Gone
    <3>1. socket[u] # "closed" /\ socket[u] \in {"closed", "known", "stranger"}
        BY <1>5 DEF Connected, WebTypeOK
    <3>2. CASE browserOf[u] = b /\ new
        BY <1>4, <3>1, <3>2
    <3>3. CASE ~ (browserOf[u] = b /\ new)
        BY <1>2, <1>5, <2>3, <3>3 DEF WebTypeOK
    <3>. QED
        BY <3>2, <3>3
  <2>. QED
      BY <1>5, <2>1, <2>2, <2>3 DEF RequestsAnswered
<1>. QED
    BY <1>13, <1>14, <1>15, <1>17, <1>18, <1>19, <1>20, <1>21, <1>22

\* A page is asked for.
LEMMA VisitStep ==
    ASSUME WebIInv, NEW t \in Tabs, Visit(t)
    PROVE  WebIInv'
<1> USE DEF WebIInv
<1>1. /\ UNCHANGED <<browserOf, session, cookies, page, socket, calls, waiting, clicks, changes>>
      /\ UNCHANGED <<sincePage, sinceLoad, sinceShown>>
    BY DEF Visit, limits, histories
<1>2. Active' = Active
    BY <1>1 DEF Active
<1>3. /\ loading' \in [Tabs -> Holders \cup {Gone}]
      /\ SessionOfTab(t) \in Keys => loading'[t] = SessionOfTab(t)
      /\ \A u \in Tabs \ {t} : loading'[u] = loading[u]
    BY DEF Visit, WebTypeOK, SessionOfTab, Holders
<1>4. WebTypeOK'
    BY <1>1, <1>2, <1>3 DEF WebTypeOK
<1>5. StepsLeft' /\ Connected' /\ PagesFresh' /\ CallsFresh'
    BY <1>1, <1>2 DEF StepsLeft, Connected, PagesFresh, CallsFresh, SessionOfTab
<1>6. LoadsFresh'
    BY <1>1, <1>3 DEF LoadsFresh, SessionOfTab
<1>7. BalancesOwned' /\ KnownAlike' /\ BalancesOfAddressShown'
    BY <1>1, <1>2 DEF BalancesOwned, KnownAlike, BalancesOfAddressShown
<1>8. RequestsAnswered'
  <2>1. \A c, u, kind : Answers(c, u, kind)' <=> Answers(c, u, kind)
      BY <1>1 DEF Answers
  <2>. QED
      BY <1>1, <1>2, <2>1 DEF RequestsAnswered
<1>. QED
    BY <1>4, <1>5, <1>6, <1>7, <1>8

\* A connection begins: nothing waits on it yet, and no handler is heard there.
LEMMA ConnectStep ==
    ASSUME WebIInv, NEW t \in Tabs, Connect(t)
    PROVE  WebIInv'
<1> USE DEF WebIInv
<1>1. /\ UNCHANGED <<browserOf, session, cookies, page, loading, calls, waiting, clicks, changes>>
      /\ UNCHANGED <<sincePage, sinceLoad, sinceShown>>
    BY DEF Connect, limits, histories
<1>2. Active' = Active
    BY <1>1 DEF Active
<1>3. /\ socket' \in [Tabs -> {"closed", "known", "stranger"}]
      /\ page[t].up /\ socket[t] = "closed" /\ socket'[t] # "closed"
      /\ \A u \in Tabs \ {t} : socket'[u] = socket[u]
    BY DEF Connect, WebTypeOK
<1>4. \A c \in Active : calls[c].heard => calls[c].tab \in Tabs \ {t}
  <2>1. \A c \in Active : calls[c] \in CallType /\ (calls[c].heard => socket[calls[c].tab] # "closed")
      BY DEF WebTypeOK
  <2>. QED
      BY <1>3, <2>1 DEF CallType
<1>5. WebTypeOK'
    BY <1>1, <1>2, <1>3, <1>4 DEF WebTypeOK
<1>6. StepsLeft' /\ PagesFresh' /\ LoadsFresh' /\ CallsFresh'
    BY <1>1, <1>2 DEF StepsLeft, LoadsFresh, PagesFresh, CallsFresh, SessionOfTab
<1>7. Connected'
    BY <1>1, <1>3 DEF Connected, WebTypeOK
<1>8. BalancesOwned' /\ BalancesOfAddressShown'
    BY <1>1, <1>2 DEF BalancesOwned, BalancesOfAddressShown
<1>9. KnownAlike'
    BY <1>1, <1>2, <1>3, <1>4 DEF KnownAlike
<1>10. RequestsAnswered'
  <2>1. \A c, u, kind : Answers(c, u, kind)' <=> Answers(c, u, kind)
      BY <1>1 DEF Answers
  <2>. QED
      BY <1>1, <1>2, <1>3, <2>1 DEF RequestsAnswered
<1>. QED
    BY <1>5, <1>6, <1>7, <1>8, <1>9, <1>10

\* The process starts again: no sessions, connections or handlers.
LEMMA RestartStep ==
    ASSUME WebIInv, Restart
    PROVE  WebIInv'
<1> USE DEF WebIInv
<1>1. /\ session' = [b \in Browsers |-> Gone]
      /\ page' = [t \in Tabs |-> IF loading[t] = Gone THEN page[t] ELSE NoPage]
      /\ socket' = [t \in Tabs |-> "closed"]
      /\ loading' = [t \in Tabs |-> Gone]
      /\ calls' = [c \in Calls |-> NoCall]
      /\ sinceLoad' = [t \in Tabs |-> {}] /\ sinceShown' = [c \in Calls |-> {}]
      /\ waiting' = {}
      /\ UNCHANGED <<browserOf, cookies, sincePage, clicks>>
      /\ changes' \in 0 .. MaxChanges
    BY DEF Restart, WebTypeOK
<1>2. Active' = {}
    BY <1>1 DEF Active
<1>3. page' \in [Tabs -> [up : BOOLEAN, address : Holders, balances : Holders]]
    BY <1>1 DEF WebTypeOK, NoPage, Holders
<1>4. WebTypeOK'
    BY <1>1, <1>2, <1>3 DEF WebTypeOK
<1>5. StepsLeft' /\ Connected' /\ PagesFresh' /\ LoadsFresh'
  <2>1. \A t \in Tabs : session'[browserOf'[t]] \notin Keys
      BY <1>1 DEF WebTypeOK, Holders
  <2>. QED
      BY <1>1, <1>2, <2>1 DEF StepsLeft, Connected, PagesFresh, LoadsFresh, SessionOfTab
<1>6. CallsFresh' /\ BalancesOwned' /\ KnownAlike'
    BY <1>2 DEF CallsFresh, BalancesOwned, KnownAlike
<1>7. BalancesOfAddressShown' /\ RequestsAnswered'
    BY <1>1 DEF BalancesOfAddressShown, RequestsAnswered, NoPage
<1>. QED
    BY <1>4, <1>5, <1>6, <1>7

-----------------------------------------------------------------------------
(* Requests. *)

\* A request comes over the connection of a page that is shown.
LEMMA ClickStep ==
    ASSUME WebIInv, NEW t \in Tabs, NEW kind \in Kinds, NEW c \in Calls,
           NEW whole \in BOOLEAN, Click(t, kind, whole, c)
    PROVE  WebIInv'
<1> USE DEF WebIInv
<1> DEFINE call == [kind |-> kind, tab |-> t, rest |-> Script[kind], whole |-> whole,
                    key |-> Nobody, address |-> page[t].address,
                    known |-> socket[t] = "known", heard |-> TRUE]
<1>1. /\ socket[t] # "closed" /\ calls[c] = NoCall
      /\ calls' = [calls EXCEPT ![c] = call]
      /\ sinceShown' = [sinceShown EXCEPT ![c] = sincePage[t]]
      /\ waiting' = (waiting \ OfForm(t, kind)) \cup {<<t, kind, whole>>}
      /\ clicks' \in 0 .. MaxClicks
      /\ UNCHANGED <<browserOf, session, cookies, page, socket, loading, sincePage,
                     sinceLoad, changes>>
    BY DEF Click, WebTypeOK
<1>2. Script[kind] \in Endings /\ Script[kind] # <<"balances">>
    BY DEF Script, Endings, onDepositRequested, onWithdrawRequested, onProveRequested,
           onFinalizeRequested, onBulkRequested
<1>3. Script[kind] \in Seq(Step) /\ Script[kind] # <<>>
    BY <1>2, EndingsType
<1>4. call \in CallType
  <2>1. page[t].address \in Holders /\ Nobody \in Holders
      BY DEF WebTypeOK, Holders
  <2>. QED
      BY <1>3, <2>1 DEF CallType, Step
<1>5. /\ call.kind = kind /\ call.tab = t /\ call.rest = Script[kind] /\ call.key = Nobody
      /\ call.address = page[t].address /\ (call.known <=> socket[t] = "known")
      /\ call.heard /\ call.whole = whole
    OBVIOUS
<1> HIDE DEF call
<1>6. call # NoCall
  <2>1. NoCall.kind = "none" /\ "none" \notin Kinds
      BY DEF NoCall, Script
  <2>. QED
      BY <1>5, <2>1
<1>7. /\ calls' \in [Calls -> {NoCall} \cup CallType]
      /\ calls'[c] = call
      /\ \A d \in Calls \ {c} : calls'[d] = calls[d]
    BY <1>1, <1>4 DEF StepsLeft
<1>8. Active' = Active \cup {c} /\ c \notin Active /\ Active \subseteq Calls
    BY <1>1, <1>6, <1>7 DEF Active
<1>9. page[t].up
    BY <1>1 DEF Connected
<1>10. WebTypeOK'
  <2>1. \A d \in Active' : /\ calls'[d] \in CallType /\ calls'[d].rest # <<>>
                           /\ calls'[d].heard => socket'[calls'[d].tab] # "closed"
    <3>1. \A d \in Active : /\ calls[d] \in CallType /\ calls[d].rest # <<>>
                            /\ calls[d].heard => socket[calls[d].tab] # "closed"
        BY DEF WebTypeOK
    <3>. QED
        BY <1>1, <1>3, <1>4, <1>5, <1>7, <1>8, <3>1
  <2>2. sinceShown' \in [Calls -> SUBSET Keys] /\ waiting' \subseteq Tabs \X Kinds \X BOOLEAN
      BY <1>1 DEF WebTypeOK
  <2>. QED
      BY <1>1, <2>1, <2>2 DEF WebTypeOK
<1>11. StepsLeft'
    BY <1>2, <1>5, <1>7, <1>8 DEF StepsLeft
<1>12. Connected' /\ PagesFresh' /\ LoadsFresh'
    BY <1>1 DEF Connected, PagesFresh, LoadsFresh, SessionOfTab
<1>13. CallsFresh'
  <2>1. sinceShown'[c] = sincePage[t] /\ \A d \in Calls \ {c} : sinceShown'[d] = sinceShown[d]
      BY <1>1 DEF WebTypeOK
  <2>2. SessionOfTab(t) \in Keys => SessionOfTab(t) \in {page[t].address} \cup sincePage[t]
      BY <1>9 DEF PagesFresh
  <2>. QED
      BY <1>1, <1>5, <1>7, <1>8, <2>1, <2>2 DEF CallsFresh, SessionOfTab
<1>14. BalancesOwned'
    BY <1>1, <1>2, <1>5, <1>7, <1>8 DEF BalancesOwned
<1>15. KnownAlike'
    BY <1>1, <1>5, <1>7, <1>8 DEF KnownAlike
<1>16. BalancesOfAddressShown'
    BY <1>1 DEF BalancesOfAddressShown
<1>17. RequestsAnswered'
  <2> SUFFICES ASSUME NEW u \in Tabs, NEW k \in Kinds, <<u, k, TRUE>> \in waiting'
               PROVE  \/ \E d \in Active' : Answers(d, u, k)'
                      \/ socket'[u] = "stranger"
                      \/ session'[browserOf'[u]] = Gone
      BY DEF RequestsAnswered
  <2>1. CASE u = t /\ k = kind
    <3>1. <<u, k, TRUE>> \in OfForm(t, kind) \/ <<u, k, TRUE>> \notin waiting
        BY <2>1 DEF OfForm
    <3>2. whole = TRUE
        BY <1>1, <3>1
    <3>. QED
        BY <1>5, <1>7, <1>8, <2>1, <3>2 DEF Answers
  <2>2. CASE ~ (u = t /\ k = kind)
    <3>1. <<u, k, TRUE>> \in waiting
        BY <1>1, <2>2
    <3>2. \/ \E d \in Active : Answers(d, u, k)
          \/ socket[u] = "stranger" \/ session[browserOf[u]] = Gone
        BY <3>1 DEF RequestsAnswered
    <3>3. ASSUME NEW d \in Active, Answers(d, u, k)
          PROVE  \E e \in Active' : Answers(e, u, k)'
      <4>1. calls'[d] = calls[d]
          BY <1>7, <1>8
      <4>2. d \in Active'
          BY <1>8
      <4>. QED
          BY <3>3, <4>1, <4>2 DEF Answers
    <3>. QED
        BY <1>1, <3>2, <3>3
  <2>. QED
      BY <2>1, <2>2
<1>. QED
    BY <1>10, <1>11, <1>12, <1>13, <1>14, <1>15, <1>16, <1>17

\* A step of a handler leaves the page, but for balances that are its own.
PageKept ==
    /\ page' \in [Tabs -> [up : BOOLEAN, address : Holders, balances : Holders]]
    /\ \A t \in Tabs : /\ page'[t].up = page[t].up
                       /\ page'[t].address = page[t].address
                       /\ page'[t].balances \in {page[t].address} \cup sincePage[t]

\* A handler ends; when without a result, then without the session or on an amount
\* that is not whole.
LEMMA EndsStep ==
    ASSUME WebIInv, NEW c \in Active, NEW result \in BOOLEAN, Ends(c, result),
           PageKept, CallUnchanged,
           result = FALSE => \/ ~ calls[c].known \/ ~ calls[c].whole
                             \/ session[browserOf[calls[c].tab]] = Gone
    PROVE  WebIInv'
<1> USE DEF WebIInv
<1>1. /\ calls' = [calls EXCEPT ![c] = NoCall]
      /\ sinceShown' = [sinceShown EXCEPT ![c] = {}]
      /\ waiting' = IF result /\ calls[c].heard
                    THEN waiting \ OfForm(calls[c].tab, calls[c].kind) ELSE waiting
      /\ UNCHANGED <<browserOf, session, cookies, socket, loading, sincePage, sinceLoad,
                     clicks, changes>>
    BY DEF Ends, CallUnchanged, limits
<1>2. /\ calls' \in [Calls -> {NoCall} \cup CallType]
      /\ calls'[c] = NoCall
      /\ \A d \in Calls \ {c} : calls'[d] = calls[d]
    BY <1>1 DEF StepsLeft, Active
<1>3. Active' = Active \ {c} /\ Active \subseteq Calls
    BY <1>2 DEF Active
<1>4. \A d \in Active : calls[d] \in CallType /\ calls[d].tab \in Tabs
  <2>1. \A d \in Active : calls[d] \in CallType
      BY DEF WebTypeOK
  <2>. QED
      BY <2>1 DEF CallType
<1>5. WebTypeOK'
  <2>1. \A d \in Active' : /\ calls'[d] \in CallType /\ calls'[d].rest # <<>>
                           /\ calls'[d].heard => socket'[calls'[d].tab] # "closed"
      BY <1>1, <1>2, <1>3 DEF WebTypeOK
  <2>2. sinceShown' \in [Calls -> SUBSET Keys] /\ waiting' \subseteq Tabs \X Kinds \X BOOLEAN
      BY <1>1 DEF WebTypeOK
  <2>. QED
      BY <1>1, <2>1, <2>2 DEF WebTypeOK, PageKept
<1>6. StepsLeft'
    BY <1>2, <1>3 DEF StepsLeft
<1>7. Connected' /\ PagesFresh' /\ LoadsFresh'
    BY <1>1 DEF Connected, PagesFresh, LoadsFresh, SessionOfTab, PageKept
<1>8. CallsFresh'
    BY <1>1, <1>2, <1>3 DEF CallsFresh, SessionOfTab
<1>9. BalancesOwned'
    BY <1>1, <1>2, <1>3, <1>4 DEF BalancesOwned, PageKept
<1>10. KnownAlike'
    BY <1>1, <1>2, <1>3 DEF KnownAlike
<1>11. BalancesOfAddressShown'
    BY <1>1 DEF BalancesOfAddressShown, PageKept
<1>12. RequestsAnswered'
  <2> SUFFICES ASSUME NEW u \in Tabs, NEW k \in Kinds, <<u, k, TRUE>> \in waiting'
               PROVE  \/ \E d \in Active' : Answers(d, u, k)'
                      \/ socket'[u] = "stranger"
                      \/ session'[browserOf'[u]] = Gone
      BY DEF RequestsAnswered
  <2>1. CASE Answers(c, u, k)
    <3>1. result = FALSE
        BY <1>1, <2>1 DEF OfForm, Answers
    <3>2. CASE ~ calls[c].known
      <4>1. socket[u] # "known" /\ socket[u] # "closed"
          BY <2>1, <3>2 DEF KnownAlike, WebTypeOK, Answers
      <4>. QED
          BY <1>1, <4>1 DEF WebTypeOK
    <3>. QED
        BY <1>1, <2>1, <3>1, <3>2 DEF Answers
  <2>2. CASE ~ Answers(c, u, k)
    <3>1. <<u, k, TRUE>> \in waiting
        BY <1>1
    <3>2. \/ \E d \in Active : Answers(d, u, k)
          \/ socket[u] = "stranger" \/ session[browserOf[u]] = Gone
        BY <3>1 DEF RequestsAnswered
    <3>3. ASSUME NEW d \in Active, Answers(d, u, k)
          PROVE  \E e \in Active' : Answers(e, u, k)'
      <4>1. calls'[d] = calls[d] /\ d # c
          BY <1>2, <1>3, <2>2, <3>3 DEF Answers
      <4>2. d \in Active'
          BY <1>3, <4>1
      <4>. QED
          BY <3>3, <4>1, <4>2 DEF Answers
    <3>. QED
        BY <1>1, <3>2, <3>3
  <2>. QED
      BY <2>1, <2>2
<1>. QED
    BY <1>5, <1>6, <1>7, <1>8, <1>9, <1>10, <1>11, <1>12

\* A handler goes on to its next step, with a key that is its own.
LEMMA ProceedsStep ==
    ASSUME WebIInv, NEW c \in Active, NEW STATE key, key \in Holders, Proceeds(c, key),
           PageKept, CallUnchanged,
           key # Nobody => key \in {calls[c].address} \cup sinceShown[c],
           Head(calls[c].rest) = "owner" /\ calls[c].heard
               => key \in {page[calls[c].tab].address} \cup sincePage[calls[c].tab]
    PROVE  WebIInv'
<1> USE DEF WebIInv
<1>1. CASE Len(calls[c].rest) = 1
  <2>1. Ends(c, TRUE)
      BY <1>1 DEF Proceeds
  <2>. QED
      BY <2>1, EndsStep
<1>2. CASE Len(calls[c].rest) # 1
  <2>1. UNCHANGED <<browserOf, session, cookies, socket, loading, sincePage, sinceLoad,
                    sinceShown, waiting, clicks, changes>>
      BY <1>2 DEF Proceeds, CallUnchanged, limits
  <2>2. /\ calls[c] \in CallType /\ calls[c].rest \in Endings /\ c \in Calls
        /\ calls \in [Calls -> {NoCall} \cup CallType]
      BY DEF WebTypeOK, StepsLeft, Active
  <2>3. Tail(calls[c].rest) \in Endings
      BY <1>2, <2>2, EndingsType
  <2>4. Tail(calls[c].rest) \in Seq(Step) /\ Tail(calls[c].rest) # <<>>
      BY <2>3, EndingsType
  <2>5. Tail(calls[c].rest) = <<"balances">> => Head(calls[c].rest) = "owner"
      BY <1>2, <2>2, EndingsType
  <2> DEFINE next == [calls[c] EXCEPT !.rest = Tail(@), !.key = key]
  <2>6. /\ next \in CallType /\ next # NoCall
        /\ next.kind = calls[c].kind /\ next.tab = calls[c].tab /\ next.key = key
        /\ next.rest = Tail(calls[c].rest) /\ next.address = calls[c].address
        /\ next.known = calls[c].known /\ next.heard = calls[c].heard
        /\ next.whole = calls[c].whole
    <3>1. NoCall.kind = "none" /\ "none" \notin Kinds
        BY DEF NoCall, Script
    <3>2. next \in CallType /\ next.kind = calls[c].kind /\ calls[c].kind \in Kinds
        BY <2>2, <2>4 DEF CallType, Step
    <3>3. next # NoCall
        BY <3>1, <3>2
    <3>. QED
        BY <2>2, <2>4, <3>2, <3>3 DEF CallType, Step
  <2>7. calls' = [calls EXCEPT ![c] = next]
      BY <1>2 DEF Proceeds
  <2>8. calls'[c] = next /\ \A d \in Calls \ {c} : calls'[d] = calls[d]
      BY <2>2, <2>7
  <2>9. calls' \in [Calls -> {NoCall} \cup CallType]
      BY <2>2, <2>6, <2>7
  <2> HIDE DEF next
  <2>10. /\ Active' = Active /\ Active \subseteq Calls
         /\ calls'[c] \in CallType
         /\ calls'[c].kind = calls[c].kind /\ calls'[c].tab = calls[c].tab
         /\ calls'[c].rest = Tail(calls[c].rest) /\ calls'[c].address = calls[c].address
         /\ calls'[c].key = key
         /\ calls'[c].known = calls[c].known /\ calls'[c].heard = calls[c].heard
         /\ calls'[c].whole = calls[c].whole
         /\ \A d \in Active \ {c} : calls'[d] = calls[d]
    <3>1. Active' = Active /\ Active \subseteq Calls
        BY <2>6, <2>8 DEF Active
    <3>. QED
        BY <2>6, <2>8, <3>1
  <2>11. \A d \in Active : calls[d] \in CallType /\ calls[d].tab \in Tabs
    <3>1. \A d \in Active : calls[d] \in CallType
        BY DEF WebTypeOK
    <3>. QED
        BY <3>1 DEF CallType
  <2>12. WebTypeOK'
    <3>1. \A d \in Active' : /\ calls'[d] \in CallType /\ calls'[d].rest # <<>>
                             /\ calls'[d].heard => socket'[calls'[d].tab] # "closed"
      <4>1. \A d \in Active : /\ calls[d] \in CallType /\ calls[d].rest # <<>>
                              /\ calls[d].heard => socket[calls[d].tab] # "closed"
          BY DEF WebTypeOK
      <4>2. /\ calls'[c] \in CallType /\ calls'[c].rest # <<>>
            /\ calls'[c].heard => socket'[calls'[c].tab] # "closed"
          <5>1. calls'[c].heard => socket[calls[c].tab] # "closed"
              BY <2>10, <4>1
          <5>2. calls'[c].heard => socket'[calls'[c].tab] # "closed"
              BY <2>1, <2>10, <5>1
          <5>. QED
              BY <2>4, <2>10, <5>2
      <4>3. ASSUME NEW d \in Active, d # c
            PROVE  /\ calls'[d] \in CallType /\ calls'[d].rest # <<>>
                   /\ calls'[d].heard => socket'[calls'[d].tab] # "closed"
          <5>1. calls'[d] = calls[d] /\ socket' = socket
              BY <2>1, <2>10, <4>3
          <5>. QED
              BY <4>1, <5>1
      <4>. QED
          BY <2>10, <4>2, <4>3
    <3>. QED
        BY <2>1, <3>1 DEF WebTypeOK, PageKept
  <2>13. StepsLeft'
      BY <2>3, <2>9, <2>10 DEF StepsLeft
  <2>14. Connected' /\ PagesFresh' /\ LoadsFresh'
      BY <2>1 DEF Connected, PagesFresh, LoadsFresh, SessionOfTab, PageKept
  <2>15. CallsFresh'
      BY <2>1, <2>10 DEF CallsFresh, SessionOfTab
  <2>16. BalancesOwned'
    <3> SUFFICES ASSUME NEW d \in Active, calls'[d].heard, calls'[d].rest = <<"balances">>
                 PROVE  \/ calls'[d].key = page'[calls'[d].tab].address
                        \/ calls'[d].key \in sincePage'[calls'[d].tab]
        BY <2>1, <2>10 DEF BalancesOwned
    <3>1. CASE d = c
      <4>1. /\ calls[c].heard /\ Tail(calls[c].rest) = <<"balances">>
            /\ calls'[d].key = key /\ calls'[d].tab = calls[c].tab
          BY <2>10, <3>1
      <4>. QED
          BY <2>1, <2>5, <2>11, <4>1 DEF PageKept
    <3>2. CASE d # c
        BY <2>1, <2>10, <2>11, <3>2 DEF BalancesOwned, PageKept
    <3>. QED
        BY <3>1, <3>2
  <2>17. KnownAlike'
      BY <2>1, <2>10 DEF KnownAlike
  <2>18. BalancesOfAddressShown'
      BY <2>1 DEF BalancesOfAddressShown, PageKept
  <2>19. RequestsAnswered'
    <3>1. ASSUME NEW d \in Active, NEW u \in Tabs, NEW k \in Kinds, Answers(d, u, k)
          PROVE  Answers(d, u, k)'
      <4>1. CASE d = c
          BY <2>10, <3>1, <4>1 DEF Answers
      <4>2. CASE d # c
        <5>1. calls'[d] = calls[d]
            BY <2>10, <4>2
        <5>. QED
            BY <3>1, <5>1 DEF Answers
      <4>. QED
          BY <4>1, <4>2
    <3>. QED
        BY <2>1, <2>10, <3>1 DEF RequestsAnswered
  <2>. QED
      BY <2>12, <2>13, <2>14, <2>15, <2>16, <2>17, <2>18, <2>19
<1>. QED
    BY <1>1, <1>2

\* No step of a handler but the last touches the page.
LEMMA PageUnchanged == WebIInv /\ UNCHANGED page => PageKept
BY DEF WebIInv, WebTypeOK, BalancesOfAddressShown, PageKept

\* Each step of a handler keeps the invariant: the key it finds is that of the
\* session, which the address is of when nothing is old.
LEMMA HandlerStep ==
    ASSUME WebIInv, NEW c \in Calls, Handler(c)
    PROVE  WebIInv'
<1> USE DEF WebIInv
<1>1. c \in Active => /\ calls[c] \in CallType /\ calls[c].rest \in Endings
                      /\ calls[c].tab \in Tabs /\ calls[c].key \in Holders
                      /\ SessionOf(calls[c]) \in Holders \cup {Gone}
  <2>1. c \in Active => calls[c] \in CallType /\ calls[c].rest \in Endings
      BY DEF WebTypeOK, StepsLeft
  <2>2. c \in Active => calls[c].tab \in Tabs /\ calls[c].key \in Holders
      BY <2>1 DEF CallType
  <2>. QED
      BY <2>1, <2>2 DEF SessionOf, WebTypeOK
<1>2. c \in Active /\ SessionOf(calls[c]) \in Keys
        => SessionOf(calls[c]) \in {calls[c].address} \cup sinceShown[c]
    BY DEF CallsFresh, SessionOf, SessionOfTab, Holders
<1>3. CASE ReadKey(c)
  <2>1. c \in Active /\ Head(calls[c].rest) = "key" /\ PageKept /\ CallUnchanged
      BY <1>3, PageUnchanged DEF ReadKey, At
  <2>2. CASE SessionOf(calls[c]) = Gone \/ ~ calls[c].whole
    <3>1. Ends(c, FALSE)
        BY <1>3, <2>2 DEF ReadKey
    <3>2. \/ ~ calls[c].known \/ ~ calls[c].whole
          \/ session[browserOf[calls[c].tab]] = Gone
        BY <2>2 DEF SessionOf
    <3>. QED
        BY <2>1, <3>1, <3>2, EndsStep
  <2>3. CASE SessionOf(calls[c]) # Gone /\ calls[c].whole
    <3>1. Proceeds(c, SessionOf(calls[c]))
        BY <1>3, <2>3 DEF ReadKey
    <3>2. SessionOf(calls[c]) \in Holders
        BY <1>1, <2>1, <2>3
    <3>. QED
        BY <1>2, <2>1, <3>1, <3>2, ProceedsStep DEF Holders
  <2>. QED
      BY <2>2, <2>3
<1>4. CASE Work(c)
  <2>1. c \in Active /\ Head(calls[c].rest) = "send" /\ PageKept /\ CallUnchanged
        /\ Proceeds(c, calls[c].key)
      BY <1>4, PageUnchanged DEF Work, At
  <2>2. calls[c].key # Nobody => calls[c].key \in {calls[c].address} \cup sinceShown[c]
      BY <2>1 DEF CallsFresh
  <2>. QED
      BY <1>1, <2>1, <2>2, ProceedsStep
<1>5. CASE ReadOwner(c)
  <2>1. c \in Active /\ Head(calls[c].rest) = "owner" /\ PageKept /\ CallUnchanged
        /\ SessionOf(calls[c]) \in Keys /\ Proceeds(c, SessionOf(calls[c]))
      BY <1>5, PageUnchanged DEF ReadOwner, At
  <2>2. SessionOf(calls[c]) # Gone
      BY <2>1 DEF Holders
  <2>3. SessionOf(calls[c]) = SessionOfTab(calls[c].tab)
      BY <2>2 DEF SessionOf, SessionOfTab
  <2>4. calls[c].heard
          => SessionOf(calls[c]) \in {page[calls[c].tab].address} \cup sincePage[calls[c].tab]
    <3>1. calls[c].heard => page[calls[c].tab].up
        BY <1>1, <2>1 DEF WebTypeOK, Connected
    <3>. QED
        BY <1>1, <2>1, <2>3, <3>1 DEF PagesFresh
  <2>. QED
      BY <1>1, <1>2, <2>1, <2>2, <2>4, ProceedsStep DEF Holders
<1>6. CASE ShowBalances(c)
  <2>1. c \in Active /\ Head(calls[c].rest) = "balances" /\ CallUnchanged
        /\ Proceeds(c, Nobody)
      BY <1>6 DEF ShowBalances, At
  <2>2. calls[c].rest = <<"balances">>
      BY <1>1, <2>1, EndingsType
  <2>3. PageKept
    <3>1. CASE calls[c].heard /\ page[calls[c].tab].address # Nobody
      <4>1. page' = [page EXCEPT ![calls[c].tab].balances = calls[c].key]
          BY <1>6, <3>1 DEF ShowBalances
      <4>2. calls[c].key \in {page[calls[c].tab].address} \cup sincePage[calls[c].tab]
          BY <2>1, <2>2, <3>1 DEF BalancesOwned
      <4>3. page' \in [Tabs -> [up : BOOLEAN, address : Holders, balances : Holders]]
          BY <1>1, <2>1, <4>1 DEF WebTypeOK
      <4>4. \A t \in Tabs : /\ page'[t].up = page[t].up
                            /\ page'[t].address = page[t].address
          BY <1>1, <2>1, <4>1 DEF WebTypeOK
      <4>5. page'[calls[c].tab].balances = calls[c].key
          BY <1>1, <2>1, <4>1 DEF WebTypeOK
      <4>6. \A t \in Tabs \ {calls[c].tab} : page'[t] = page[t]
          BY <4>1 DEF WebTypeOK
      <4>. QED
          BY <1>1, <2>1, <4>2, <4>3, <4>4, <4>5, <4>6 DEF PageKept, BalancesOfAddressShown
    <3>2. CASE ~ (calls[c].heard /\ page[calls[c].tab].address # Nobody)
      <4>1. UNCHANGED page
          BY <1>6, <3>2 DEF ShowBalances
      <4>. QED
          BY <4>1, PageUnchanged
    <3>. QED
        BY <3>1, <3>2
  <2>. QED
      BY <2>1, <2>3, ProceedsStep DEF Holders
<1>7. CASE Fails(c)
  <2>1. c \in Active /\ Ends(c, TRUE) /\ PageKept /\ CallUnchanged
    <3>1. Caught(c) = TRUE
        BY <1>7 DEF Fails, Caught
    <3>. QED
        BY <1>7, <3>1, PageUnchanged DEF Fails
  <2>. QED
      BY <2>1, EndsStep
<1>. QED
    BY <1>3, <1>4, <1>5, <1>6, <1>7 DEF Handler

-----------------------------------------------------------------------------
\* Every step keeps the invariant.
LEMMA WebIInvStep == WebIInv /\ [WebNext]_webVars => WebIInv'
<1> SUFFICES ASSUME WebIInv, [WebNext]_webVars PROVE WebIInv'
    OBVIOUS
<1>1. ASSUME NEW t \in Tabs, NEW key \in Holders, SetAddress(t, key) PROVE WebIInv'
    BY <1>1, SetAddressStep
<1>2. ASSUME NEW t \in Tabs, Visit(t) PROVE WebIInv'
    BY <1>2, VisitStep
<1>3. ASSUME NEW t \in Tabs, Show(t) PROVE WebIInv'
    BY <1>3, ReplaceStep
<1>4. ASSUME NEW t \in Tabs, ShowError(t) PROVE WebIInv'
    BY <1>4, ReplaceStep
<1>5. ASSUME NEW t \in Tabs, Connect(t) PROVE WebIInv'
    BY <1>5, ConnectStep
<1>6. ASSUME NEW t \in Tabs, Disconnect(t) PROVE WebIInv'
    BY <1>6, DisconnectStep
<1>7. ASSUME NEW t \in Tabs, NEW kind \in Kinds, NEW c \in Calls, NEW whole \in BOOLEAN,
             Click(t, kind, whole, c)
      PROVE  WebIInv'
    BY <1>7, ClickStep
<1>8. ASSUME NEW c \in Calls, Handler(c) PROVE WebIInv'
    BY <1>8, HandlerStep
<1>9. CASE Restart
    BY <1>9, RestartStep
<1>10. CASE UNCHANGED webVars
  <2>1. /\ UNCHANGED <<browserOf, session, cookies, page, socket, loading, calls, waiting>>
        /\ UNCHANGED <<sincePage, sinceLoad, sinceShown, clicks, changes>>
      BY <1>10 DEF webVars, histories, limits
  <2>2. Active' = Active
      BY <2>1 DEF Active
  <2>3. WebTypeOK' /\ StepsLeft' /\ Connected' /\ PagesFresh' /\ LoadsFresh'
      BY <2>1, <2>2 DEF WebIInv, WebTypeOK, StepsLeft, Connected, PagesFresh, LoadsFresh,
                        SessionOfTab
  <2>4. CallsFresh' /\ BalancesOwned' /\ KnownAlike'
      BY <2>1, <2>2 DEF WebIInv, CallsFresh, BalancesOwned, KnownAlike, SessionOfTab
  <2>5. BalancesOfAddressShown' /\ RequestsAnswered'
    <3>1. \A c, u, kind : Answers(c, u, kind)' <=> Answers(c, u, kind)
        BY <2>1 DEF Answers
    <3>. QED
        BY <2>1, <2>2, <3>1 DEF WebIInv, BalancesOfAddressShown, RequestsAnswered
  <2>. QED
      BY <2>3, <2>4, <2>5 DEF WebIInv
<1>. QED
    BY <1>1, <1>2, <1>3, <1>4, <1>5, <1>6, <1>7, <1>8, <1>9, <1>10 DEF WebNext

\* The invariant holds in every state.
LEMMA WebInvariant == WebSpec => []WebIInv
BY WebIInvInit, WebIInvStep, PTL DEF WebSpec

\* Every variable of the pages, the sessions and the gateway keeps its type, and
\* who has a session has its cookie.
THEOREM WebTypeCorrect == WebSpec => []WebTypeOK
<1>1. WebIInv => WebTypeOK
    BY DEF WebIInv
<1>. QED
    BY <1>1, WebInvariant, PTL

\* Whatever is posted, loaded, restarted or under way, a deposit or a withdrawal
\* is sent with the key of the address its page showed at the click, or with one
\* posted in the same browser since that page was read: with no key of another
\* browser, nor with one the session had before.
THEOREM AddressShownActs == WebSpec => []ActsForAddressShown
<1>1. WebIInv => ActsForAddressShown
    BY DEF WebIInv, CallsFresh, ActsForAddressShown
<1>. QED
    BY <1>1, WebInvariant, PTL

\* The balances under an address are its own, or those of a key posted in the same
\* browser since the page was read, however late the answers come.
THEOREM BalancesAreOwn == WebSpec => []BalancesOfAddressShown
<1>1. WebIInv => BalancesOfAddressShown
    BY DEF WebIInv
<1>. QED
    BY <1>1, WebInvariant, PTL

\* No request whose amount is whole is left without a result or an error while its
\* connection lasts, whatever requests of its form end without a word, unless the
\* store does not have the session of the connection.
THEOREM NoRequestLeft == WebSpec => []RequestsAnswered
<1>1. WebIInv => RequestsAnswered
    BY DEF WebIInv
<1>. QED
    BY <1>1, WebInvariant, PTL
=============================================================================
