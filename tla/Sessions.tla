------------------------------ MODULE Sessions ------------------------------
(* Signing in with Google and the browser sessions it makes: the flow begun  *)
(* in a browser and finished by the callback it comes back with              *)
(* (ccfleetd/api.py), the identity Google gives for it (ccfleetd/oauth.py),  *)
(* the accounts it names and the sessions kept for them (ccfleetd/store.py). *)
(* One person sits at each browser; tabs and addresses change while a        *)
(* sign-in is away at Google.                                                *)
EXTENDS Naturals, Sequences, FiniteSets

CONSTANTS
  SesPeople,        \* Google subjects, each at a browser of their own
  SesAddresses,     \* email addresses, which change hands
  SesMaxFlows,      \* bound: sign-ins begun
  SesMaxTicks,      \* bound: the clock
  SesTTL            \* session_ttl_s; a flow lives one tick

ASSUME SessionsAssumption ==
  SesTTL \in Nat \ {0} /\ SesMaxFlows \in Nat /\ SesMaxTicks \in Nat

VARIABLES
  sesNow,           \* the clock
  sesBegun,         \* sign-ins begun, in order: the index is the state
  sesFlows,         \* oauth_flows: the states pending
  sesFlowCookie,    \* the state each browser's flow cookie carries, 0 for none
  sesCallbacks,     \* callbacks on their way from Google, each with its code
  sesAccounts,      \* accounts, by id: the order they were made in
  sesRows,          \* sessions
  sesCookie,        \* each browser's session cookie, by site
  sesThreads,       \* callbacks past the flow check, asking Google who it is
  sesSpent          \* codes Google has exchanged

sesVars == <<sesNow, sesBegun, sesFlows, sesFlowCookie, sesCallbacks, sesAccounts, sesRows,
             sesCookie, sesThreads, sesSpent>>

Sites == {"product", "admin"}

SesInit ==
  /\ sesNow = 0 /\ sesBegun = <<>> /\ sesFlows = {} /\ sesCallbacks = {}
  /\ sesFlowCookie = [p \in SesPeople |-> 0]
  /\ sesAccounts = <<>> /\ sesRows = {} /\ sesThreads = {} /\ sesSpent = {}
  /\ sesCookie = [p \in SesPeople |-> [site \in Sites |-> 0]]

-----------------------------------------------------------------------------
(* Signing in.                                                               *)

\* The state goes to the server's row and to the browser's cookie alike.
_sign_in_start(p, site) ==
  /\ Len(sesBegun) < SesMaxFlows
  /\ LET state == Len(sesBegun) + 1 IN
     /\ sesBegun' = Append(sesBegun, [by |-> p, site |-> site, at |-> sesNow])
     /\ sesFlows' = sesFlows \cup {state}
     /\ sesFlowCookie' = [sesFlowCookie EXCEPT ![p] = state]
  /\ UNCHANGED <<sesNow, sesCallbacks, sesAccounts, sesRows, sesCookie, sesThreads, sesSpent>>

\* Google: whoever follows the link consents, or cancels; the callback may be opened anywhere.
Consents(p, state) ==
  /\ state \in DOMAIN sesBegun
  /\ \A c \in sesCallbacks : c.state = state => c.as # p
  /\ \E cancelled \in BOOLEAN :
       sesCallbacks' = sesCallbacks \cup {[state |-> state, as |-> p, cancelled |-> cancelled]}
  /\ UNCHANGED <<sesNow, sesBegun, sesFlows, sesFlowCookie, sesAccounts, sesRows,
                 sesCookie, sesThreads, sesSpent>>

\* Mutant: the flow row alone ties a callback to a browser.
StartedHere_if_pending(p, state) == state \in sesFlows
StartedHere(p, state) == sesFlowCookie[p] = state

\* The flow is taken once, in date or not; a cancelled one ends here.
_sign_in_callback(p, c) ==
  /\ c \in sesCallbacks /\ StartedHere(p, c.state)
  /\ c.state \in sesFlows
  /\ sesFlows' = sesFlows \ {c.state}
  /\ IF sesNow > sesBegun[c.state].at
     THEN UNCHANGED <<sesFlowCookie, sesThreads>>
     ELSE IF c.cancelled
     THEN sesFlowCookie' = [sesFlowCookie EXCEPT ![p] = 0] /\ UNCHANGED sesThreads
     ELSE sesThreads' = sesThreads \cup {[state |-> c.state, in |-> p, as |-> c.as, code |-> c,
                                         site |-> sesBegun[c.state].site]}
          /\ UNCHANGED sesFlowCookie
  /\ UNCHANGED <<sesNow, sesBegun, sesCallbacks, sesAccounts, sesRows, sesCookie, sesSpent>>

AccountOf(sub) == {i \in DOMAIN sesAccounts : sesAccounts[i].sub = sub}

\* Mutant: the account is looked up by its address.
Matching_by_address(sub, address) == {i \in DOMAIN sesAccounts : sesAccounts[i].email = address}
Matching(sub, address) == AccountOf(sub)

\* Keyed on the subject, never the address.
upsert_account_from_google(sub, address) ==
  IF Matching(sub, address) # {}
  THEN [i \in DOMAIN sesAccounts |->
          IF i \in Matching(sub, address) THEN [sesAccounts[i] EXCEPT !.email = address]
          ELSE sesAccounts[i]]
  ELSE Append(sesAccounts, [sub |-> sub, email |-> address])

\* The code is exchanged for the identity, with the address Google has for it by now, and the
\* identity for a session and its cookie.
sign_in_session(t) ==
  /\ t \in sesThreads
  /\ sesThreads' = sesThreads \ {t}
  /\ IF t.code \in sesSpent
     THEN UNCHANGED <<sesAccounts, sesRows, sesCookie, sesFlowCookie, sesSpent>>
     ELSE \E address \in SesAddresses :
          LET known == Matching(t.as, address)
              id == IF known # {} THEN CHOOSE i \in known : TRUE ELSE Len(sesAccounts) + 1
          IN /\ sesSpent' = sesSpent \cup {t.code}
             /\ sesAccounts' = upsert_account_from_google(t.as, address)
             /\ sesRows' = sesRows \cup {[id |-> t.state, account |-> id, site |-> t.site,
                                         expires |-> sesNow + SesTTL]}
             /\ sesCookie' = [sesCookie EXCEPT ![t.in][t.site] = t.state]
             /\ sesFlowCookie' = [sesFlowCookie EXCEPT ![t.in] = 0]
  /\ UNCHANGED <<sesNow, sesBegun, sesFlows, sesCallbacks>>

-----------------------------------------------------------------------------
(* Using and ending a session.                                               *)

Row(cookie, site) == {r \in sesRows : r.id = cookie /\ r.site = site}
SesLive(cookie, site) == {r \in Row(cookie, site) : sesNow < r.expires}

\* Who a cookie signs a request in as, on this site: the account's id, or nobody.
SesSignedIn(p, site) == {r.account : r \in SesLive(sesCookie[p][site], site)}

\* An expired row is deleted when it is presented.
account_for_session(p, site) ==
  /\ Row(sesCookie[p][site], site) # SesLive(sesCookie[p][site], site)
  /\ sesRows' = (sesRows \ Row(sesCookie[p][site], site)) \cup SesLive(sesCookie[p][site], site)
  /\ UNCHANGED <<sesNow, sesBegun, sesFlows, sesFlowCookie, sesCallbacks, sesAccounts,
                 sesCookie, sesThreads, sesSpent>>

\* This browser's session is ended, and its cookie cleared whether or not it named one.
_sign_out(p, site) ==
  /\ sesCookie[p][site] # 0
  /\ sesRows' = sesRows \ SesLive(sesCookie[p][site], site)
  /\ sesCookie' = [sesCookie EXCEPT ![p][site] = 0]
  /\ UNCHANGED <<sesNow, sesBegun, sesFlows, sesFlowCookie, sesCallbacks, sesAccounts,
                 sesThreads, sesSpent>>

\* The server's command line, when it takes an operator's role away.
end_all_sessions(i) ==
  /\ \E r \in sesRows : r.account = i
  /\ sesRows' = {r \in sesRows : r.account # i}
  /\ UNCHANGED <<sesNow, sesBegun, sesFlows, sesFlowCookie, sesCallbacks, sesAccounts,
                 sesCookie, sesThreads, sesSpent>>

SesTick ==
  /\ sesNow < SesMaxTicks
  /\ sesNow' = sesNow + 1
  /\ UNCHANGED <<sesBegun, sesFlows, sesFlowCookie, sesCallbacks, sesAccounts, sesRows,
                 sesCookie, sesThreads, sesSpent>>

SesNext ==
  \/ \E p \in SesPeople, site \in Sites :
       _sign_in_start(p, site) \/ account_for_session(p, site) \/ _sign_out(p, site)
  \/ \E p \in SesPeople : \E state \in DOMAIN sesBegun : Consents(p, state)
  \/ \E p \in SesPeople, c \in sesCallbacks : _sign_in_callback(p, c)
  \/ \E t \in sesThreads : sign_in_session(t)
  \/ \E i \in DOMAIN sesAccounts : end_all_sessions(i)
  \/ SesTick

SesSpec == SesInit /\ [][SesNext]_sesVars

-----------------------------------------------------------------------------
SesTypeOK ==
  /\ sesNow \in 0..SesMaxTicks
  /\ sesFlows \subseteq DOMAIN sesBegun
  /\ sesFlowCookie \in [SesPeople -> 0..SesMaxFlows]
  /\ sesCookie \in [SesPeople -> [Sites -> 0..SesMaxFlows]]
  /\ \A i \in DOMAIN sesAccounts :
       sesAccounts[i] \in [sub : SesPeople, email : SesAddresses]
  /\ \A r \in sesRows : r.account \in DOMAIN sesAccounts /\ r.site \in Sites

\* Whom a browser's cookie signs in is somebody who consented at Google to a sign-in this very
\* browser began, on the site it began it for, however callbacks are shared, addresses change
\* hands and tabs overtake one another; a sign-in makes one session at most, and a person has
\* one account.
SessionsSound ==
  /\ \A p \in SesPeople, site \in Sites : \A i \in SesSignedIn(p, site) :
       LET state == sesCookie[p][site] IN
       /\ sesBegun[state].by = p /\ sesBegun[state].site = site
       /\ \E c \in sesSpent : c.state = state /\ c.as = sesAccounts[i].sub
  /\ \A r, q \in sesRows : r.id = q.id => r = q
  /\ \A c, d \in sesSpent : c.state = d.state => c = d
  /\ \A sub \in SesPeople : Cardinality(AccountOf(sub)) <= 1
=============================================================================
