--------------------------- MODULE MCServerProofs ---------------------------
(***************************************************************************)
(* Theorems about the server's components that share no state, stated of   *)
(* the composed specification that TLC checks and for every value of its   *)
(* constants: browser sessions, trial keys and the names of machines and   *)
(* slots, then the gateway, outages, and the news of both the monitor's    *)
(* halves.  Each component has an inductive invariant of its own; at the   *)
(* end, with what else bounds them, they give every variable's type, those *)
(* of prepaid credit under both its sets of constants included.            *)
(***************************************************************************)
EXTENDS MCServer, Sums, FiniteSetTheorems, TLAPS

-----------------------------------------------------------------------------
(* Browser sessions: the inductive invariant.                               *)

Flow == [by : SesPeople, site : Sites, at : Nat]
Code == [state : Nat, as : SesPeople, cancelled : BOOLEAN]
Account == [sub : SesPeople, email : SesAddresses]
Session == [id : Nat, account : Nat, site : Sites, expires : Nat]
Callback == [state : Nat, in : SesPeople, as : SesPeople, code : Code, site : Sites]

SesTyped ==
  /\ sesNow \in Nat
  /\ sesBegun \in Seq(Flow) /\ sesFlows \subseteq DOMAIN sesBegun
  /\ sesFlowCookie \in [SesPeople -> Nat]
  /\ sesCallbacks \subseteq Code /\ sesSpent \subseteq Code
  /\ sesAccounts \in Seq(Account)
  /\ sesRows \subseteq Session /\ sesThreads \subseteq Callback
  /\ sesCookie \in [SesPeople -> [Sites -> Nat]]

(* What a browser's flow cookie carries is a state of its own sign-in.      *)
FlowCookiesOwn ==
  \A p \in SesPeople : sesFlowCookie[p] # 0 =>
    sesFlowCookie[p] \in DOMAIN sesBegun /\ sesBegun[sesFlowCookie[p]].by = p

(* A callback past the flow check took its flow, alone, and is in the       *)
(* browser that began it.                                                   *)
FlowTakenOnce ==
  /\ \A t \in sesThreads :
       /\ t.state \in DOMAIN sesBegun /\ t.state \notin sesFlows
       /\ t.in = sesBegun[t.state].by /\ t.site = sesBegun[t.state].site
       /\ t.code.state = t.state /\ t.code.as = t.as
       /\ \A c \in sesSpent : c.state # t.state
  /\ \A t, u \in sesThreads : t.state = u.state => t = u

(* A code is exchanged once for a sign-in whose flow was taken.             *)
CodesSpentOnce ==
  /\ \A c \in sesSpent : c.state \in DOMAIN sesBegun /\ c.state \notin sesFlows
  /\ \A c, d \in sesSpent : c.state = d.state => c = d

(* A session is of the account that the code of its sign-in names.          *)
SessionsAreTheCodes ==
  /\ \A r \in sesRows :
       /\ r.account \in DOMAIN sesAccounts
       /\ r.site = sesBegun[r.id].site
       /\ \E c \in sesSpent : c.state = r.id /\ c.as = sesAccounts[r.account].sub
  /\ \A r, q \in sesRows : r.id = q.id => r = q

(* A browser's session cookie carries a state of its own sign-in there.     *)
CookiesOwn ==
  \A p \in SesPeople, site \in Sites :
    LET k == sesCookie[p][site] IN
    k # 0 => k \in DOMAIN sesBegun /\ sesBegun[k].by = p /\ sesBegun[k].site = site

OneAccountEach ==
  \A i, j \in DOMAIN sesAccounts : sesAccounts[i].sub = sesAccounts[j].sub => i = j

SesInv ==
  /\ SesTyped /\ FlowCookiesOwn /\ FlowTakenOnce /\ CodesSpentOnce
  /\ SessionsAreTheCodes /\ CookiesOwn /\ OneAccountEach

LEMMA SesInitSound == SesInit => SesInv
  BY DEF SesInit, SesInv, SesTyped, FlowCookiesOwn, FlowTakenOnce, CodesSpentOnce,
         SessionsAreTheCodes, CookiesOwn, OneAccountEach

(* What appending to a sequence leaves as it was.                           *)
LEMMA Appended ==
  ASSUME NEW S, NEW s \in Seq(S), NEW x \in S
  PROVE  /\ Append(s, x) \in Seq(S) /\ Len(s) + 1 \in Nat \ {0} /\ Len(s) + 1 \notin DOMAIN s
         /\ DOMAIN Append(s, x) = DOMAIN s \cup {Len(s) + 1}
         /\ Append(s, x)[Len(s) + 1] = x
         /\ \A i \in DOMAIN s : Append(s, x)[i] = s[i]
  OBVIOUS

LEMMA StartSound ==
  ASSUME SesInv, NEW p \in SesPeople, NEW site \in Sites, _sign_in_start(p, site)
  PROVE  SesInv'
<1> DEFINE new == [by |-> p, site |-> site, at |-> sesNow]
           k == Len(sesBegun) + 1
<1>1. /\ sesBegun' = Append(sesBegun, new) /\ sesFlows' = sesFlows \cup {k}
      /\ sesFlowCookie' = [sesFlowCookie EXCEPT ![p] = k]
      /\ UNCHANGED <<sesNow, sesCallbacks, sesAccounts, sesRows, sesCookie, sesThreads, sesSpent>>
  BY DEF _sign_in_start
<1>2. new \in Flow /\ new.by = p
  BY DEF SesInv, SesTyped, Flow
<1> HIDE DEF new
<1>3. /\ sesBegun' \in Seq(Flow) /\ DOMAIN sesBegun' = DOMAIN sesBegun \cup {k}
      /\ sesBegun'[k] = new /\ k \notin DOMAIN sesBegun /\ k \in Nat \ {0}
      /\ \A i \in DOMAIN sesBegun : sesBegun'[i] = sesBegun[i]
  BY <1>1, <1>2, Appended DEF SesInv, SesTyped
<1> HIDE DEF k
<1>4. SesTyped'
  BY <1>1, <1>3 DEF SesInv, SesTyped
<1>5. FlowCookiesOwn'
  BY <1>1, <1>2, <1>3 DEF SesInv, SesTyped, FlowCookiesOwn
<1>6. FlowTakenOnce' /\ CodesSpentOnce'
  BY <1>1, <1>3 DEF SesInv, FlowTakenOnce, CodesSpentOnce
<1>7. SessionsAreTheCodes' /\ CookiesOwn' /\ OneAccountEach'
  BY <1>1, <1>3 DEF SesInv, CodesSpentOnce, SessionsAreTheCodes, CookiesOwn, OneAccountEach
<1> QED
  BY <1>4, <1>5, <1>6, <1>7 DEF SesInv

LEMMA ConsentSound ==
  ASSUME SesInv, NEW p \in SesPeople, NEW k \in DOMAIN sesBegun, Consents(p, k)
  PROVE  SesInv'
<1>1. sesCallbacks' \subseteq Code
  BY DEF Consents, SesInv, SesTyped, Code
<1> QED
  BY <1>1 DEF Consents, SesInv, SesTyped, FlowCookiesOwn, FlowTakenOnce, CodesSpentOnce,
         SessionsAreTheCodes, CookiesOwn, OneAccountEach

LEMMA CallbackSound ==
  ASSUME SesInv, NEW p \in SesPeople, NEW c \in sesCallbacks, _sign_in_callback(p, c)
  PROVE  SesInv'
<1> DEFINE t == [state |-> c.state, in |-> p, as |-> c.as, code |-> c,
                 site |-> sesBegun[c.state].site]
<1>1. /\ c \in Code /\ c.state \in DOMAIN sesBegun /\ c.state \in sesFlows
      /\ sesBegun[c.state] \in Flow /\ sesBegun[c.state].by = p
  BY DEF _sign_in_callback, StartedHere, SesInv, SesTyped, FlowCookiesOwn, Code
<1>2. /\ sesFlows' = sesFlows \ {c.state}
      /\ sesThreads' = sesThreads \/ sesThreads' = sesThreads \cup {t}
      /\ sesFlowCookie' = sesFlowCookie \/ sesFlowCookie' = [sesFlowCookie EXCEPT ![p] = 0]
      /\ UNCHANGED <<sesNow, sesBegun, sesCallbacks, sesAccounts, sesRows, sesCookie, sesSpent>>
  BY Zenon DEF _sign_in_callback
<1>3. /\ t \in Callback /\ t.state = c.state /\ t.in = p /\ t.as = c.as /\ t.code = c
      /\ t.site = sesBegun[c.state].site
  BY <1>1 DEF Callback, Code, Flow
<1> HIDE DEF t
<1>4. SesTyped'
  <2>1. sesThreads' \subseteq Callback /\ sesFlows' \subseteq DOMAIN sesBegun
    BY <1>1, <1>2, <1>3 DEF SesInv, SesTyped
  <2>2. sesFlowCookie' \in [SesPeople -> Nat]
    BY <1>2 DEF SesInv, SesTyped
  <2> QED
    BY <1>2, <2>1, <2>2 DEF SesInv, SesTyped
<1>8. FlowCookiesOwn'
  BY <1>2 DEF SesInv, SesTyped, FlowCookiesOwn
<1>5. \A u \in sesThreads' : u \in sesThreads \/ u = t
  BY <1>2
<1>6. FlowTakenOnce'
  BY <1>1, <1>2, <1>3, <1>5 DEF SesInv, FlowTakenOnce, CodesSpentOnce
<1>7. CodesSpentOnce' /\ SessionsAreTheCodes' /\ CookiesOwn' /\ OneAccountEach'
  BY <1>1, <1>2 DEF SesInv, CodesSpentOnce, SessionsAreTheCodes, CookiesOwn, OneAccountEach
<1> QED
  BY <1>4, <1>6, <1>7, <1>8 DEF SesInv

(* Looking an identity up leaves its subject's one account at its place,    *)
(* and every other account as it is.                                        *)
LEMMA UpsertKeepsAccounts ==
  ASSUME SesInv, NEW sub \in SesPeople, NEW address \in SesAddresses, NEW id,
         id = IF Matching(sub, address) # {} THEN CHOOSE i \in Matching(sub, address) : TRUE
              ELSE Len(sesAccounts) + 1,
         sesAccounts' = upsert_account_from_google(sub, address)
  PROVE  /\ sesAccounts' \in Seq(Account)
         /\ id \in DOMAIN sesAccounts' /\ id \in Nat /\ sesAccounts'[id].sub = sub
         /\ \A i \in DOMAIN sesAccounts :
              i \in DOMAIN sesAccounts' /\ sesAccounts'[i].sub = sesAccounts[i].sub
         /\ OneAccountEach'
<1>1. CASE Matching(sub, address) # {}
  <2> DEFINE at(i) == [sesAccounts[i] EXCEPT !.email = address]
             renamed(i) == IF i \in Matching(sub, address) THEN at(i) ELSE sesAccounts[i]
  <2>1. sesAccounts' = [i \in DOMAIN sesAccounts |-> renamed(i)]
    BY <1>1 DEF upsert_account_from_google
  <2>2. sesAccounts \in Seq(Account) /\ \A i \in DOMAIN sesAccounts : sesAccounts[i] \in Account
    BY DEF SesInv, SesTyped
  <2>3. \A i \in DOMAIN sesAccounts :
          renamed(i) \in Account /\ renamed(i).sub = sesAccounts[i].sub
    BY <2>2 DEF Account
  <2> HIDE DEF renamed
  <2>4. /\ sesAccounts' \in Seq(Account) /\ DOMAIN sesAccounts' = DOMAIN sesAccounts
        /\ \A i \in DOMAIN sesAccounts : sesAccounts'[i].sub = sesAccounts[i].sub
    <3>1. DOMAIN sesAccounts = 1..Len(sesAccounts) /\ Len(sesAccounts) \in Nat
      BY <2>2
    <3>2. sesAccounts' \in [1..Len(sesAccounts) -> Account]
      BY <2>1, <2>3, <3>1
    <3>3. sesAccounts' \in Seq(Account)
      BY <3>1, <3>2
    <3> QED
      BY <2>1, <2>3, <3>3
  <2>5. id \in Matching(sub, address)
    BY <1>1
  <2>6. id \in DOMAIN sesAccounts /\ sesAccounts[id].sub = sub
    BY <2>5 DEF Matching, AccountOf
  <2>7. id \in Nat
    BY <2>2, <2>6
  <2>8. OneAccountEach'
    BY <2>4 DEF SesInv, OneAccountEach
  <2> QED
    BY <2>4, <2>6, <2>7, <2>8
<1>2. CASE Matching(sub, address) = {}
  <2> DEFINE new == [sub |-> sub, email |-> address]
  <2>1. sesAccounts' = Append(sesAccounts, new) /\ id = Len(sesAccounts) + 1
    BY <1>2 DEF upsert_account_from_google
  <2>2. new \in Account /\ new.sub = sub
    BY DEF Account
  <2> HIDE DEF new
  <2>3. /\ sesAccounts' \in Seq(Account) /\ DOMAIN sesAccounts' = DOMAIN sesAccounts \cup {id}
        /\ sesAccounts'[id] = new /\ id \in Nat /\ id \notin DOMAIN sesAccounts
        /\ \A i \in DOMAIN sesAccounts : sesAccounts'[i] = sesAccounts[i]
    <3>1. sesAccounts \in Seq(Account)
      BY DEF SesInv, SesTyped
    <3>2. /\ Append(sesAccounts, new) \in Seq(Account)
          /\ DOMAIN Append(sesAccounts, new) = DOMAIN sesAccounts \cup {Len(sesAccounts) + 1}
          /\ Append(sesAccounts, new)[Len(sesAccounts) + 1] = new
          /\ \A i \in DOMAIN sesAccounts : Append(sesAccounts, new)[i] = sesAccounts[i]
      BY <2>2, <3>1, Appended
    <3>3. Len(sesAccounts) + 1 \in Nat /\ Len(sesAccounts) + 1 \notin DOMAIN sesAccounts
      BY <3>1
    <3> QED
      BY <2>1, <3>2, <3>3, Zenon
  <2>4. \A i \in DOMAIN sesAccounts : sesAccounts[i].sub # sub
    BY <1>2 DEF Matching, AccountOf
  <2>5. OneAccountEach'
    <3>1. \A i, j \in DOMAIN sesAccounts : sesAccounts[i].sub = sesAccounts[j].sub => i = j
      BY DEF SesInv, OneAccountEach
    <3>2. ASSUME NEW i \in DOMAIN sesAccounts', NEW j \in DOMAIN sesAccounts',
                 sesAccounts'[i].sub = sesAccounts'[j].sub
          PROVE  i = j
      <4>1. CASE i \in DOMAIN sesAccounts /\ j \in DOMAIN sesAccounts
        BY <2>3, <3>1, <3>2, <4>1
      <4>2. CASE i = id \/ j = id
        BY <2>2, <2>3, <2>4, <3>2, <4>2
      <4> QED
        BY <2>3, <4>1, <4>2
    <3> QED
      BY <3>2 DEF OneAccountEach
  <2> QED
    BY <2>2, <2>3, <2>5
<1> QED
  BY <1>1, <1>2

LEMMA SignInSound ==
  ASSUME SesInv, NEW t \in sesThreads, sign_in_session(t)
  PROVE  SesInv'
<1>1. /\ t \in Callback /\ t.state \in DOMAIN sesBegun /\ t.state \notin sesFlows
      /\ t.in = sesBegun[t.state].by /\ t.site = sesBegun[t.state].site
      /\ t.code.state = t.state /\ t.code.as = t.as
      /\ \A c \in sesSpent : c.state # t.state
  BY DEF SesInv, SesTyped, FlowTakenOnce
<1>2. t.code \notin sesSpent
  BY <1>1
<1>3. PICK address \in SesAddresses :
        LET known == Matching(t.as, address)
            id == IF known # {} THEN CHOOSE i \in known : TRUE ELSE Len(sesAccounts) + 1
        IN /\ sesSpent' = sesSpent \cup {t.code}
           /\ sesAccounts' = upsert_account_from_google(t.as, address)
           /\ sesRows' = sesRows \cup {[id |-> t.state, account |-> id, site |-> t.site,
                                       expires |-> sesNow + SesTTL]}
           /\ sesCookie' = [sesCookie EXCEPT ![t.in][t.site] = t.state]
           /\ sesFlowCookie' = [sesFlowCookie EXCEPT ![t.in] = 0]
  BY <1>2, Zenon DEF sign_in_session
<1> DEFINE known == Matching(t.as, address)
           id == IF known # {} THEN CHOOSE i \in known : TRUE ELSE Len(sesAccounts) + 1
           row == [id |-> t.state, account |-> id, site |-> t.site, expires |-> sesNow + SesTTL]
<1>4. /\ sesSpent' = sesSpent \cup {t.code} /\ sesRows' = sesRows \cup {row}
      /\ sesAccounts' = upsert_account_from_google(t.as, address)
      /\ sesCookie' = [sesCookie EXCEPT ![t.in][t.site] = t.state]
      /\ sesFlowCookie' = [sesFlowCookie EXCEPT ![t.in] = 0]
      /\ sesThreads' = sesThreads \ {t}
      /\ UNCHANGED <<sesNow, sesBegun, sesFlows, sesCallbacks>>
  BY <1>3, Zenon DEF sign_in_session
<1>5. t.as \in SesPeople /\ t.in \in SesPeople /\ t.site \in Sites /\ t.state \in Nat
      /\ t.code \in Code
  BY <1>1 DEF Callback
<1>6. /\ sesAccounts' \in Seq(Account)
      /\ id \in DOMAIN sesAccounts' /\ id \in Nat /\ sesAccounts'[id].sub = t.as
      /\ \A i \in DOMAIN sesAccounts :
           i \in DOMAIN sesAccounts' /\ sesAccounts'[i].sub = sesAccounts[i].sub
      /\ OneAccountEach'
  BY <1>4, <1>5, UpsertKeepsAccounts
<1> HIDE DEF known, id
<1>7. row \in Session /\ row.id = t.state /\ row.account = id /\ row.site = t.site
  BY <1>5, <1>6, SessionsAssumption DEF SesInv, SesTyped, Session
<1> HIDE DEF row
<1>8. SesTyped'
  <2>1. sesSpent' \subseteq Code /\ sesRows' \subseteq Session /\ sesThreads' \subseteq Callback
    BY <1>4, <1>5, <1>7 DEF SesInv, SesTyped
  <2>2. sesFlowCookie' \in [SesPeople -> Nat]
    BY <1>4 DEF SesInv, SesTyped
  <2>3. sesCookie' \in [SesPeople -> [Sites -> Nat]]
    BY <1>4, <1>5 DEF SesInv, SesTyped
  <2> QED
    BY <1>4, <1>6, <2>1, <2>2, <2>3 DEF SesInv, SesTyped
<1>9. FlowCookiesOwn'
  BY <1>4 DEF SesInv, SesTyped, FlowCookiesOwn
<1>10. FlowTakenOnce' /\ CodesSpentOnce'
  BY <1>1, <1>4 DEF SesInv, FlowTakenOnce, CodesSpentOnce
<1>11. CookiesOwn'
  BY <1>1, <1>4, <1>5 DEF SesInv, SesTyped, CookiesOwn
<1>12. SessionsAreTheCodes'
  <2>1. \A r \in sesRows : r.id # t.state
    BY <1>1 DEF SesInv, SessionsAreTheCodes
  <2>2. \A r \in sesRows :
          /\ r.account \in DOMAIN sesAccounts' /\ r.site = sesBegun'[r.id].site
          /\ \E c \in sesSpent' : c.state = r.id /\ c.as = sesAccounts'[r.account].sub
    BY <1>4, <1>6 DEF SesInv, SessionsAreTheCodes
  <2>3. /\ row.account \in DOMAIN sesAccounts' /\ row.site = sesBegun'[row.id].site
        /\ \E c \in sesSpent' : c.state = row.id /\ c.as = sesAccounts'[row.account].sub
    BY <1>1, <1>4, <1>6, <1>7
  <2>4. \A r, q \in sesRows' : r.id = q.id => r = q
    BY <1>4, <1>7, <2>1 DEF SesInv, SessionsAreTheCodes
  <2> QED
    BY <1>4, <2>2, <2>3, <2>4 DEF SessionsAreTheCodes
<1> QED
  BY <1>6, <1>8, <1>9, <1>10, <1>11, <1>12 DEF SesInv

(* Ending sessions, and taking a cookie away, leaves those that stay.       *)
LEMMA EndingSound ==
  ASSUME SesInv, sesRows' \subseteq sesRows,
         sesCookie' \in [SesPeople -> [Sites -> Nat]],
         \A p \in SesPeople, site \in Sites : sesCookie'[p][site] \in {0, sesCookie[p][site]},
         UNCHANGED <<sesNow, sesBegun, sesFlows, sesFlowCookie, sesCallbacks, sesAccounts,
                     sesThreads, sesSpent>>
  PROVE  SesInv'
<1>1. SesTyped' /\ FlowCookiesOwn' /\ FlowTakenOnce' /\ CodesSpentOnce' /\ OneAccountEach'
  BY DEF SesInv, SesTyped, FlowCookiesOwn, FlowTakenOnce, CodesSpentOnce, OneAccountEach
<1>2. SessionsAreTheCodes' /\ CookiesOwn'
  BY DEF SesInv, SessionsAreTheCodes, CookiesOwn
<1> QED
  BY <1>1, <1>2 DEF SesInv

LEMMA SesStepSound ==
  ASSUME SesInv, SesNext \/ UNCHANGED sesVars
  PROVE  SesInv'
<1>1. ASSUME NEW p \in SesPeople, NEW site \in Sites, account_for_session(p, site) PROVE SesInv'
  <2>1. sesRows' \subseteq sesRows
    BY <1>1 DEF account_for_session, SesLive, Row
  <2> QED
    BY <1>1, <2>1, EndingSound DEF account_for_session, SesInv, SesTyped
<1>2. ASSUME NEW p \in SesPeople, NEW site \in Sites, _sign_out(p, site) PROVE SesInv'
  <2>1. sesRows' \subseteq sesRows /\ sesCookie' = [sesCookie EXCEPT ![p][site] = 0]
    BY <1>2 DEF _sign_out
  <2>2. sesCookie' \in [SesPeople -> [Sites -> Nat]]
    BY <2>1 DEF SesInv, SesTyped
  <2>3. \A q \in SesPeople, other \in Sites : sesCookie'[q][other] \in {0, sesCookie[q][other]}
    BY <2>1 DEF SesInv, SesTyped
  <2> QED
    BY <1>2, <2>1, <2>2, <2>3, EndingSound DEF _sign_out
<1>3. ASSUME NEW i \in DOMAIN sesAccounts, end_all_sessions(i) PROVE SesInv'
  <2>1. sesRows' \subseteq sesRows
    BY <1>3 DEF end_all_sessions
  <2> QED
    BY <1>3, <2>1, EndingSound DEF end_all_sessions, SesInv, SesTyped
<1>4. CASE SesTick
  <2>1. SesTyped'
    BY <1>4 DEF SesTick, SesInv, SesTyped
  <2> QED
    BY <1>4, <2>1 DEF SesTick, SesInv, FlowCookiesOwn, FlowTakenOnce, CodesSpentOnce,
                      SessionsAreTheCodes, CookiesOwn, OneAccountEach
<1>5. CASE UNCHANGED sesVars
  BY <1>5 DEF sesVars, SesInv, SesTyped, FlowCookiesOwn, FlowTakenOnce, CodesSpentOnce,
              SessionsAreTheCodes, CookiesOwn, OneAccountEach
<1> QED
  BY <1>1, <1>2, <1>3, <1>4, <1>5, StartSound, ConsentSound, CallbackSound, SignInSound
  DEF SesNext

(* A set whose members are all equal has one member at most.                *)
LEMMA AtMostOne ==
  ASSUME NEW S, \A x, y \in S : x = y
  PROVE  IsFiniteSet(S) /\ Cardinality(S) <= 1
<1>1. CASE S = {}
  BY <1>1, FS_EmptySet
<1>2. CASE S # {}
  <2>1. PICK x \in S : TRUE
    BY <1>2
  <2>2. S = {x}
    BY <2>1
  <2>3. IsFiniteSet({x}) /\ Cardinality({x}) = 1
    BY FS_Singleton
  <2> QED
    BY <2>2, <2>3
<1> QED
  BY <1>1, <1>2

LEMMA SesInvGivesSound == SesInv => SessionsSound
<1> SUFFICES ASSUME SesInv PROVE SessionsSound
  OBVIOUS
<1>1. ASSUME NEW p \in SesPeople, NEW site \in Sites, NEW i \in SesSignedIn(p, site)
      PROVE  LET k == sesCookie[p][site] IN
             /\ sesBegun[k].by = p /\ sesBegun[k].site = site
             /\ \E c \in sesSpent : c.state = k /\ c.as = sesAccounts[i].sub
  <2>1. PICK r \in sesRows : r.id = sesCookie[p][site] /\ r.site = site /\ r.account = i
    BY DEF SesSignedIn, SesLive, Row
  <2>2. PICK c \in sesSpent : c.state = r.id /\ c.as = sesAccounts[r.account].sub
    BY <2>1 DEF SesInv, SessionsAreTheCodes
  <2>3. r.id \in DOMAIN sesBegun
    BY <2>2 DEF SesInv, CodesSpentOnce
  <2>4. sesCookie[p][site] # 0
    BY <2>1, <2>3 DEF SesInv, SesTyped
  <2> QED
    BY <2>1, <2>2, <2>4 DEF SesInv, CookiesOwn
<1>2. \A sub \in SesPeople : Cardinality(AccountOf(sub)) <= 1
  BY AtMostOne DEF SesInv, OneAccountEach, AccountOf
<1> QED
  BY <1>1, <1>2 DEF SesInv, SessionsAreTheCodes, CodesSpentOnce, SessionsSound

-----------------------------------------------------------------------------
(* The trial's keys and their bucket: the inductive invariant.              *)

Brim == TaBurst * TaCost
Sample == [tokens : 0..Brim, at : Nat]
TrialKey == [account : TaAccounts, at : Nat, revoked : BOOLEAN]

TaTyped ==
  /\ taNow \in Nat /\ taKeys \in Seq(TrialKey)
  /\ taRate \in [TaAccounts -> Sample \cup {NoRate}]
  /\ taAdmitted \in [TaAccounts -> Seq(Nat)]

(* With what is left in the bucket, the requests let in since any of them   *)
(* are no more than a full bucket and the ticks up to its last sample; and  *)
(* no two of them were more than that apart.                                *)
Within(in, r) ==
  /\ r = NoRate => in = <<>>
  /\ \A i \in 1..Len(in) : (Len(in) - i + 1) * TaCost + r.tokens <= Brim + (r.at - in[i])
  /\ \A i, j \in 1..Len(in) : i <= j => (j - i + 1) * TaCost <= Brim + (in[j] - in[i])

BucketKept == \A a \in TaAccounts : Within(taAdmitted[a], taRate[a])

OneLiveKey ==
  \A k, l \in DOMAIN taKeys :
    taKeys[k].account = taKeys[l].account /\ ~taKeys[k].revoked /\ ~taKeys[l].revoked => k = l

MadeOn(a, d) == {k \in DOMAIN taKeys : taKeys[k].account = a /\ taKeys[k].at \div TaDay = d}
DaysKept == \A a \in TaAccounts, d \in Nat : Cardinality(MadeOn(a, d)) <= TaKeysADay

TaInv == TaTyped /\ BucketKept /\ OneLiveKey /\ DaysKept

LEMMA OneMoreTime ==
  ASSUME NEW m \in Int, NEW c \in Int
  PROVE  (m + 1) * c = m * c + c /\ m * c \in Int
  OBVIOUS

LEMMA DayOf ==
  ASSUME NEW x \in Nat
  PROVE  x \div TaDay \in Nat /\ (x \div TaDay) * TaDay <= x
  BY TrialAccessAssumption

LEMMA BrimIsANumber == Brim \in Nat /\ TaCost \in Nat \ {0} /\ TaCost <= Brim
<1>1. \A n, c \in Nat \ {0} : n * c \in Nat /\ c <= n * c
  OBVIOUS
<1> QED
  BY <1>1, TrialAccessAssumption DEF Brim

LEMMA KeysAreFinite ==
  ASSUME taKeys \in Seq(TrialKey), NEW S \in SUBSET DOMAIN taKeys
  PROVE  IsFiniteSet(S)
<1>1. DOMAIN taKeys = 1..Len(taKeys) /\ Len(taKeys) \in Nat
  OBVIOUS
<1>2. IsFiniteSet(1..Len(taKeys))
  BY <1>1, FS_Interval
<1> QED
  BY <1>1, <1>2, FS_Subset, Zenon

LEMMA TaInitSound == TaInit => TaInv
<1> SUFFICES ASSUME TaInit PROVE TaInv
  OBVIOUS
<1>1. TaTyped
  BY DEF TaInit, TaTyped
<1>2. BucketKept
  BY DEF TaInit, BucketKept, Within
<1>3. OneLiveKey
  BY DEF TaInit, OneLiveKey
<1>4. \A a, d : MadeOn(a, d) = {}
  BY DEF TaInit, MadeOn
<1>5. DaysKept
  BY <1>4, FS_EmptySet, TrialAccessAssumption DEF DaysKept
<1> QED
  BY <1>1, <1>2, <1>3, <1>5 DEF TaInv

(* Revoking keys changes neither whose they are nor when they were made.    *)
LEMMA Revoked ==
  ASSUME TaTyped, NEW a \in TaAccounts, NEW keys,
         keys = [k \in DOMAIN taKeys |->
                   IF taKeys[k].account = a THEN [taKeys[k] EXCEPT !.revoked = TRUE] ELSE taKeys[k]]
  PROVE  /\ keys \in Seq(TrialKey) /\ Len(keys) = Len(taKeys) /\ DOMAIN keys = DOMAIN taKeys
         /\ \A k \in DOMAIN taKeys :
              /\ keys[k].account = taKeys[k].account /\ keys[k].at = taKeys[k].at
              /\ ~keys[k].revoked => ~taKeys[k].revoked /\ taKeys[k].account # a
<1> DEFINE new(k) == IF taKeys[k].account = a THEN [taKeys[k] EXCEPT !.revoked = TRUE] ELSE taKeys[k]
<1>1. DOMAIN taKeys = 1..Len(taKeys) /\ Len(taKeys) \in Nat /\ \A k \in DOMAIN taKeys : taKeys[k] \in TrialKey
  BY DEF TaTyped
<1>2. \A k \in DOMAIN taKeys :
        /\ new(k) \in TrialKey /\ new(k).account = taKeys[k].account /\ new(k).at = taKeys[k].at
        /\ ~new(k).revoked => ~taKeys[k].revoked /\ taKeys[k].account # a
  BY <1>1 DEF TrialKey
<1> HIDE DEF new
<1>3. keys = [k \in 1..Len(taKeys) |-> new(k)]
  BY <1>1 DEF new
<1>4. keys \in [1..Len(taKeys) -> TrialKey]
  BY <1>1, <1>2, <1>3
<1>5. keys \in Seq(TrialKey) /\ Len(keys) = Len(taKeys)
  BY <1>1, <1>4
<1> QED
  BY <1>1, <1>2, <1>3, <1>5

LEMMA RevokeSound ==
  ASSUME TaInv, NEW a \in TaAccounts, revoke_keys(a)
  PROVE  TaInv'
<1>1. /\ taKeys' \in Seq(TrialKey) /\ DOMAIN taKeys' = DOMAIN taKeys
      /\ \A k \in DOMAIN taKeys :
           /\ taKeys'[k].account = taKeys[k].account /\ taKeys'[k].at = taKeys[k].at
           /\ ~taKeys'[k].revoked => ~taKeys[k].revoked
  BY Revoked DEF revoke_keys, TaInv
<1>2. UNCHANGED <<taNow, taRate, taAdmitted, taAsked>>
  BY DEF revoke_keys
<1>3. \A b, d : MadeOn(b, d)' = MadeOn(b, d)
  BY <1>1 DEF MadeOn
<1>4. TaTyped' /\ BucketKept' /\ OneLiveKey'
  BY <1>1, <1>2 DEF TaInv, TaTyped, BucketKept, OneLiveKey
<1>5. DaysKept'
  BY <1>3 DEF TaInv, DaysKept
<1> QED
  BY <1>4, <1>5 DEF TaInv

(* The day's keys are counted when one is made, and the account's others    *)
(* are revoked with it.                                                     *)
LEMMA CreateSound ==
  ASSUME TaInv, NEW a \in TaAccounts, create(a)
  PROVE  TaInv'
<1> DEFINE keys == [k \in DOMAIN taKeys |->
                      IF taKeys[k].account = a THEN [taKeys[k] EXCEPT !.revoked = TRUE] ELSE taKeys[k]]
           new == [account |-> a, at |-> taNow, revoked |-> FALSE]
           n == Len(taKeys) + 1
<1>1. /\ taKeys' = Append(keys, new) /\ Cardinality(MadeToday(a)) < TaKeysADay
      /\ UNCHANGED <<taNow, taRate, taAdmitted, taAsked>>
  BY Zenon DEF create, RateAfterKey
<1>2. /\ keys \in Seq(TrialKey) /\ Len(keys) = Len(taKeys) /\ DOMAIN keys = DOMAIN taKeys
      /\ \A k \in DOMAIN taKeys :
           /\ keys[k].account = taKeys[k].account /\ keys[k].at = taKeys[k].at
           /\ ~keys[k].revoked => ~taKeys[k].revoked /\ taKeys[k].account # a
  BY Revoked DEF TaInv
<1>3. new \in TrialKey /\ new.account = a /\ new.at = taNow
  BY DEF TaInv, TaTyped, TrialKey
<1> HIDE DEF keys, new
<1>4. /\ taKeys' \in Seq(TrialKey) /\ DOMAIN taKeys' = DOMAIN taKeys \cup {n}
      /\ n \notin DOMAIN taKeys /\ taKeys'[n] = new
      /\ \A k \in DOMAIN taKeys : taKeys'[k] = keys[k]
  <2>1. /\ Append(keys, new) \in Seq(TrialKey) /\ Len(keys) + 1 \notin DOMAIN keys
        /\ DOMAIN Append(keys, new) = DOMAIN keys \cup {Len(keys) + 1}
        /\ Append(keys, new)[Len(keys) + 1] = new
        /\ \A k \in DOMAIN keys : Append(keys, new)[k] = keys[k]
    BY <1>2, <1>3, Appended
  <2> QED
    BY <1>1, <1>2, <2>1, Zenon
<1> HIDE DEF n
<1>5. TaTyped' /\ BucketKept'
  BY <1>1, <1>4 DEF TaInv, TaTyped, BucketKept
<1>6. OneLiveKey'
  <2>1. ASSUME NEW k \in DOMAIN taKeys', NEW l \in DOMAIN taKeys',
               taKeys'[k].account = taKeys'[l].account, ~taKeys'[k].revoked, ~taKeys'[l].revoked
        PROVE  k = l
    <3>1. CASE k \in DOMAIN taKeys /\ l \in DOMAIN taKeys
      BY <1>2, <1>4, <2>1, <3>1 DEF TaInv, OneLiveKey
    <3>2. CASE k = n \/ l = n
      BY <1>2, <1>3, <1>4, <2>1, <3>2
    <3> QED
      BY <1>4, <3>1, <3>2
  <2> QED
    BY <2>1 DEF OneLiveKey
<1>7. ASSUME NEW b \in TaAccounts, NEW d \in Nat
      PROVE  Cardinality(MadeOn(b, d)') <= TaKeysADay
  <2>1. CASE b = a /\ d = taNow \div TaDay
    <3>1. MadeOn(b, d)' \subseteq MadeOn(b, d) \cup {n}
      BY <1>2, <1>4 DEF MadeOn
    <3>2. MadeOn(b, d) \subseteq MadeToday(a)
      <4>1. ASSUME NEW k \in MadeOn(b, d) PROVE k \in MadeToday(a)
        <5>1. k \in DOMAIN taKeys /\ taKeys[k].account = a /\ taKeys[k].at \div TaDay = d
          BY <2>1, <4>1 DEF MadeOn
        <5>2. taKeys[k].at \in Nat
          <6>1. taKeys[k] \in TrialKey
            BY <5>1 DEF TaInv, TaTyped
          <6> QED
            BY <6>1 DEF TrialKey
        <5>3. d * TaDay <= taKeys[k].at
          BY <5>1, <5>2, DayOf
        <5> QED
          BY <2>1, <5>1, <5>3 DEF MadeToday, DayStart
      <4> QED
        BY <4>1
    <3>3. /\ IsFiniteSet(MadeToday(a)) /\ IsFiniteSet(MadeOn(b, d))
          /\ n \notin MadeOn(b, d)
      BY <1>4, KeysAreFinite DEF TaInv, TaTyped, MadeToday, MadeOn
    <3>4. Cardinality(MadeOn(b, d)) <= Cardinality(MadeToday(a))
      BY <3>2, <3>3, FS_Subset
    <3>5. IsFiniteSet(MadeOn(b, d) \cup {n})
          /\ Cardinality(MadeOn(b, d) \cup {n}) = Cardinality(MadeOn(b, d)) + 1
      BY <3>3, FS_AddElement
    <3>6. Cardinality(MadeOn(b, d)') <= Cardinality(MadeOn(b, d) \cup {n})
      BY <3>1, <3>5, FS_Subset
    <3>7. /\ Cardinality(MadeOn(b, d)) \in Nat /\ Cardinality(MadeToday(a)) \in Nat
          /\ Cardinality(MadeOn(b, d)') \in Nat
      BY <3>1, <3>3, <3>5, FS_CardinalityType, FS_Subset
    <3> QED
      BY <1>1, <3>4, <3>5, <3>6, <3>7, TrialAccessAssumption
  <2>2. CASE ~(b = a /\ d = taNow \div TaDay)
    <3>1. MadeOn(b, d)' = MadeOn(b, d)
      BY <1>2, <1>3, <1>4, <2>2 DEF MadeOn
    <3> QED
      BY <3>1 DEF TaInv, DaysKept
  <2> QED
    BY <2>1, <2>2
<1>8. DaysKept'
  BY <1>7 DEF DaysKept
<1> QED
  BY <1>5, <1>6, <1>8 DEF TaInv

(* A request that finds its token in the bucket and one that does not.      *)
LEMMA BucketStep ==
  ASSUME NEW in \in Seq(Nat), NEW r \in Sample \cup {NoRate}, Within(in, r),
         NEW now \in Nat, NEW tokens \in 0..Brim,
         r # NoRate => r.at <= now /\ tokens <= r.tokens + (now - r.at)
  PROVE  /\ Within(in, [tokens |-> tokens, at |-> now])
         /\ tokens >= TaCost =>
              Within(Append(in, now), [tokens |-> tokens - TaCost, at |-> now])
<1> DEFINE n == Len(in)  more == Append(in, now)
<1>1. /\ n \in Nat /\ \A i \in 1..n : in[i] \in Nat
      /\ Len(more) = n + 1 /\ more[n + 1] = now /\ \A i \in 1..n : more[i] = in[i]
  OBVIOUS
<1>2. /\ Brim \in Nat /\ TaCost \in Nat \ {0} /\ TaCost <= Brim
      /\ \A m \in Int : (m + 1) * TaCost = m * TaCost + TaCost /\ m * TaCost \in Int
  BY BrimIsANumber, OneMoreTime
<1>3. r # NoRate => r.tokens \in 0..Brim /\ r.at \in Nat
  BY DEF Sample
<1>4. /\ r = NoRate => in = <<>>
      /\ \A i \in 1..n : (n - i + 1) * TaCost + r.tokens <= Brim + (r.at - in[i])
      /\ \A i, j \in 1..n : i <= j => (j - i + 1) * TaCost <= Brim + (in[j] - in[i])
  BY Zenon DEF Within
<1>5. r = NoRate => n = 0
  BY <1>4
<1> HIDE DEF n, more
<1>6. ASSUME NEW i \in 1..n
      PROVE  (n - i + 1) * TaCost + tokens <= Brim + (now - in[i])
  <2>1. r # NoRate /\ (n - i + 1) * TaCost + r.tokens <= Brim + (r.at - in[i])
    BY <1>1, <1>4, <1>5
  <2>2. n - i + 1 \in Int /\ in[i] \in Nat
    BY <1>1
  <2>3. (n - i + 1) * TaCost \in Int
    BY <1>2, <2>2
  <2> DEFINE spent == (n - i + 1) * TaCost
  <2> HIDE DEF spent
  <2>4. spent + r.tokens <= Brim + (r.at - in[i]) /\ spent \in Int
    BY <2>1, <2>3 DEF spent
  <2>5. \A x, y, z \in Int : spent + x <= Brim + (y - z) =>
          \A t \in Int : t <= x + (now - y) => spent + t <= Brim + (now - z)
    BY <1>2, <2>4
  <2>6. r.tokens \in Int /\ r.at \in Int /\ in[i] \in Int /\ tokens \in Int
        /\ tokens <= r.tokens + (now - r.at)
    BY <1>2, <1>3, <2>1, <2>2
  <2>7. spent + tokens <= Brim + (now - in[i])
    BY <2>4, <2>5, <2>6
  <2> QED
    BY <2>7 DEF spent
<1>7. Within(in, [tokens |-> tokens, at |-> now])
  <2>1. [tokens |-> tokens, at |-> now] # NoRate
    BY <1>2 DEF NoRate
  <2> QED
    BY <1>4, <1>6, <2>1 DEF Within, n
<1>8. ASSUME tokens >= TaCost
      PROVE  Within(more, [tokens |-> tokens - TaCost, at |-> now])
  <2> DEFINE left == tokens - TaCost
  <2>1. [tokens |-> left, at |-> now] # NoRate /\ left \in 0..Brim
    BY <1>2, <1>8 DEF NoRate
  <2>2. ASSUME NEW i \in 1..(n + 1)
        PROVE  ((n + 1) - i + 1) * TaCost + left <= Brim + (now - more[i])
    <3>1. CASE i = n + 1
      <4>1. (n + 1) - i + 1 = 1 /\ 1 * TaCost = TaCost
        BY <1>1, <1>2, <3>1
      <4> QED
        BY <1>1, <1>2, <3>1, <4>1
    <3>2. CASE i \in 1..n
      <4>1. (n + 1) - i + 1 = (n - i + 1) + 1 /\ n - i + 1 \in Int
        BY <1>1, <3>2
      <4>2. ((n - i + 1) + 1) * TaCost = (n - i + 1) * TaCost + TaCost
            /\ (n - i + 1) * TaCost \in Int
        BY <1>2, <4>1
      <4> DEFINE spent == (n - i + 1) * TaCost
      <4>3. spent + tokens <= Brim + (now - in[i]) /\ spent \in Int
            /\ ((n + 1) - i + 1) * TaCost = spent + TaCost
        BY <1>6, <3>2, <4>1, <4>2
      <4> HIDE DEF spent
      <4>4. more[i] = in[i] /\ in[i] \in Nat
        BY <1>1, <3>2
      <4> QED
        BY <1>2, <4>3, <4>4
    <3> QED
      BY <1>1, <3>1, <3>2
  <2>3. ASSUME NEW i \in 1..(n + 1), NEW j \in 1..(n + 1), i <= j
        PROVE  (j - i + 1) * TaCost <= Brim + (more[j] - more[i])
    <3>1. CASE j = n + 1
      <4> DEFINE spent == (j - i + 1) * TaCost
      <4>1. j - i + 1 \in Int /\ more[i] \in Nat
        BY <1>1
      <4>2. spent \in Int
        BY <1>2, <4>1
      <4>3. spent + left <= Brim + (now - more[i])
        BY <2>2, <3>1
      <4> HIDE DEF spent
      <4>4. spent <= Brim + (now - more[i])
        BY <1>2, <2>1, <4>1, <4>2, <4>3
      <4> QED
        BY <1>1, <3>1, <4>4 DEF spent
    <3>2. CASE j \in 1..n
      <4>1. i \in 1..n
        BY <1>1, <2>3, <3>2
      <4>2. (j - i + 1) * TaCost <= Brim + (in[j] - in[i])
        BY <1>4, <2>3, <3>2, <4>1
      <4> QED
        BY <1>1, <3>2, <4>1, <4>2
    <3> QED
      BY <1>1, <3>1, <3>2
  <2> HIDE DEF left
  <2> QED
    BY <1>1, <2>1, <2>2, <2>3 DEF Within, left
<1> QED
  BY <1>7, <1>8 DEF more

LEMMA TakeSound ==
  ASSUME TaInv, NEW k \in DOMAIN taKeys, take_request(k)
  PROVE  TaInv'
<1> DEFINE a == taKeys[k].account
           r == taRate[a]
           tokens == Refilled(r)
           taken == tokens >= TaCost
           sample == [tokens |-> IF taken THEN tokens - TaCost ELSE tokens, at |-> taNow]
<1>1. /\ taNow >= r.at /\ taRate' = [taRate EXCEPT ![a] = sample]
      /\ taAdmitted' = IF taken THEN [taAdmitted EXCEPT ![a] = Append(@, taNow)] ELSE taAdmitted
      /\ UNCHANGED <<taNow, taKeys>>
  BY Zenon DEF take_request
<1>2. a \in TaAccounts
  <2>1. taKeys[k] \in TrialKey
    BY DEF TaInv, TaTyped
  <2> QED
    BY <2>1 DEF TrialKey
<1> HIDE DEF a
<1>3. taAdmitted[a] \in Seq(Nat) /\ r \in Sample \cup {NoRate} /\ taNow \in Nat
  BY <1>2 DEF TaInv, TaTyped
<1>4. Brim \in Nat /\ TaCost \in Nat \ {0} /\ TaBurst * TaCost = Brim
  BY BrimIsANumber DEF Brim
<1> HIDE DEF r
<1>5. /\ tokens \in 0..Brim
      /\ r # NoRate => r.at <= taNow /\ tokens <= r.tokens + (taNow - r.at)
  <2>1. r # NoRate => r.tokens \in 0..Brim /\ r.at \in Nat
    BY <1>3 DEF Sample
  <2>2. CASE r = NoRate
    BY <1>4, <2>2 DEF Refilled
  <2>3. CASE r # NoRate
    BY <1>1, <1>3, <1>4, <2>1, <2>3 DEF Refilled
  <2> QED
    BY <2>2, <2>3
<1> HIDE DEF tokens
<1>6. sample \in Sample
  BY <1>3, <1>4, <1>5 DEF Sample
<1>7. Within(taAdmitted[a], r)
  BY <1>2 DEF TaInv, BucketKept, r
<1>8. /\ Within(taAdmitted[a], [tokens |-> tokens, at |-> taNow])
      /\ taken => Within(Append(taAdmitted[a], taNow), [tokens |-> tokens - TaCost, at |-> taNow])
  BY <1>3, <1>5, <1>7, BucketStep
<1>9. Within(taAdmitted'[a], sample) /\ taAdmitted'[a] \in Seq(Nat)
  <2>1. CASE taken
    <3>1. taAdmitted'[a] = Append(taAdmitted[a], taNow)
      BY <1>1, <1>2, <2>1 DEF TaInv, TaTyped
    <3> QED
      BY <1>3, <1>8, <2>1, <3>1
  <2>2. CASE ~taken
    BY <1>1, <1>3, <1>8, <2>2
  <2> QED
    BY <2>1, <2>2
<1> HIDE DEF sample
<1>10. \A b \in TaAccounts : b # a => taAdmitted'[b] = taAdmitted[b] /\ taRate'[b] = taRate[b]
  BY <1>1 DEF TaInv, TaTyped
<1>11. taRate'[a] = sample /\ taRate' \in [TaAccounts -> Sample \cup {NoRate}]
  BY <1>1, <1>2, <1>6 DEF TaInv, TaTyped
<1>12. taAdmitted' \in [TaAccounts -> Seq(Nat)]
  <2>1. taAdmitted' = taAdmitted \/ taAdmitted' = [taAdmitted EXCEPT ![a] = Append(@, taNow)]
    BY <1>1
  <2>2. Append(taAdmitted[a], taNow) \in Seq(Nat)
    BY <1>3
  <2> QED
    BY <2>1, <2>2 DEF TaInv, TaTyped
<1>13. BucketKept'
  BY <1>9, <1>10, <1>11 DEF TaInv, BucketKept
<1>14. TaTyped'
  BY <1>1, <1>11, <1>12 DEF TaInv, TaTyped
<1>15. OneLiveKey' /\ DaysKept'
  BY <1>1 DEF TaInv, OneLiveKey, DaysKept, MadeOn
<1> QED
  BY <1>13, <1>14, <1>15 DEF TaInv

LEMMA TaStepSound ==
  ASSUME TaInv, TaNext \/ UNCHANGED taVars
  PROVE  TaInv'
<1>1. CASE TaTick
  BY <1>1 DEF TaTick, TaInv, TaTyped, BucketKept, OneLiveKey, DaysKept, MadeOn
<1>2. CASE UNCHANGED taVars
  BY <1>2 DEF taVars, TaInv, TaTyped, BucketKept, OneLiveKey, DaysKept, MadeOn
<1> QED
  BY <1>1, <1>2, CreateSound, RevokeSound, TakeSound DEF TaNext

LEMMA TaInvGivesKept == TaInv => RateKept
<1> SUFFICES ASSUME TaInv, NEW a \in TaAccounts
             PROVE  /\ \A i, j \in DOMAIN taAdmitted[a] :
                         i <= j => (j - i + 1) * TaCost <=
                                     TaBurst * TaCost + (taAdmitted[a][j] - taAdmitted[a][i])
                    /\ Cardinality({k \in DOMAIN taKeys :
                                      taKeys[k].account = a /\ ~taKeys[k].revoked}) <= 1
                    /\ \A d \in 0..(TaMaxTicks \div TaDay) :
                         Cardinality({k \in DOMAIN taKeys :
                                        taKeys[k].account = a /\ taKeys[k].at \div TaDay = d}) <= TaKeysADay
  BY DEF RateKept
<1>1. \A i, j \in DOMAIN taAdmitted[a] :
        i <= j => (j - i + 1) * TaCost <= TaBurst * TaCost + (taAdmitted[a][j] - taAdmitted[a][i])
  <2>1. taAdmitted[a] \in Seq(Nat)
    BY DEF TaInv, TaTyped
  <2>2. DOMAIN taAdmitted[a] = 1..Len(taAdmitted[a])
    BY <2>1
  <2>3. Within(taAdmitted[a], taRate[a])
    BY DEF TaInv, BucketKept
  <2> QED
    BY <2>2, <2>3, Zenon DEF Within, Brim
<1>2. Cardinality({k \in DOMAIN taKeys : taKeys[k].account = a /\ ~taKeys[k].revoked}) <= 1
  <2> DEFINE live == {k \in DOMAIN taKeys : taKeys[k].account = a /\ ~taKeys[k].revoked}
  <2>1. \A x, y \in live : x = y
    BY DEF TaInv, OneLiveKey
  <2> HIDE DEF live
  <2>2. Cardinality(live) <= 1
    BY <2>1, AtMostOne
  <2> QED
    BY <2>2 DEF live
<1>3. \A d \in Nat : Cardinality({k \in DOMAIN taKeys :
                                    taKeys[k].account = a /\ taKeys[k].at \div TaDay = d}) <= TaKeysADay
  BY DEF TaInv, DaysKept, MadeOn
<1> QED
  BY <1>1, <1>2, <1>3

-----------------------------------------------------------------------------
(* Names: the inductive invariant.                                          *)

NmTyped ==
  NmPool \subseteq NmNames /\ NmNobody \notin NmNames /\ NmMaxSerial \in Nat /\ NmTypeOK

(* Nothing two machines may be called by is the same: not what their slots  *)
(* are shown by now, and not what they would be after a wipe or a claim.    *)
NothingShared ==
  /\ \A s, t, x \in NmNames :
       Declared(s) /\ Declared(t) /\ x \in Called(s) /\ x \in Called(t) => s = t
  /\ \A s, n \in NmNames : Declared(s) /\ n \in nmNodes /\ n \in Called(s) => On(s, n)

(* One slot to a machine, on a machine there is.                            *)
OneToOne ==
  /\ \A s \in NmNames : IF Declared(s) THEN nmSlots[s].node \in nmNodes ELSE nmSlots[s] = NoSlot
  /\ \A s, t \in NmNames : Declared(s) /\ nmSlots[s].node = nmSlots[t].node => s = t

(* A tenancy has a number while it lasts; somebody's own machine is always  *)
(* in use.                                                                  *)
TenanciesNumbered ==
  \A s \in NmNames :
    /\ nmSlots[s].claim = 0 <=> nmSlots[s].state = "free"
    /\ nmSlots[s].kind = "owner" => nmSlots[s].state = "active"

(* Rows are of the tenancy, and each state of a slot has those it may.      *)
RowsFit ==
  \A r \in nmRows :
    /\ Declared(r.slot) /\ nmSlots[r.slot].claim = r.claim /\ r.claim # 0
    /\ nmSlots[r.slot].state # "claiming"
    /\ nmSlots[r.slot].state = "releasing" => r.table \notin {"logins", "cli_devices"}
    /\ nmSlots[r.slot].kind = "owner" => r.table = "claude_updates"

OwnRowsFit ==
  \A s \in NmNames :
    Declared(s) /\ nmSlots[s].kind = "owner" => nmOwn[nmSlots[s].node] \in {-1, nmSlots[s].claim}

(* Only a slot of the fleet's is paid for.                                  *)
ReceiptsFit ==
  \A r \in nmReceipts :
    On(r.slot, r.node) /\ nmSlots[r.slot].born = r.born /\ nmSlots[r.slot].kind = "machine"

NmInv ==
  /\ NmTyped /\ NothingShared /\ OneToOne /\ TenanciesNumbered
  /\ RowsFit /\ OwnRowsFit /\ ReceiptsFit

LEMMA NmInitSound == NmInit => NmInv
BY NamingAssumption
DEF NmInit, NmInv, NmTyped, NmTypeOK, NmNumbers, NmSlotRows, NothingShared, OneToOne,
    TenanciesNumbered, RowsFit, OwnRowsFit, ReceiptsFit, NoSlot, Declared

(* A machine is told its own id, or a name its one slot is called by.       *)
LEMMA ToldAName ==
  ASSUME NmInv, NEW n \in nmNodes
  PROVE  machine_hostname(n) = n
         \/ \E s \in NmNames : On(s, n) /\ machine_hostname(n) \in Called(s) \cap NmNames
<1>1. CASE ~\E s \in NmNames : Hosted(n) = {s}
  BY <1>1 DEF machine_hostname
<1>2. CASE \E s \in NmNames : Hosted(n) = {s}
  <2>1. PICK s \in NmNames : s = CHOOSE t \in NmNames : Hosted(n) = {t}
    BY <1>2
  <2>2. Hosted(n) = {s}
    BY <1>2, <2>1
  <2>3. On(s, n)
    BY <2>2 DEF Hosted, SlotOf
  <2>4. machine_hostname(n) = display(s)
    BY <1>2, <2>1 DEF machine_hostname
  <2>5. display(s) \in Called(s) \cap NmNames
    BY DEF display, Called, NmInv, NmTyped, NmTypeOK, NmSlotRows
  <2> QED
    BY <2>3, <2>4, <2>5
<1> QED
  BY <1>1, <1>2

LEMMA NmInvGivesSound == NmInv => NamingSound
<1> SUFFICES ASSUME NmInv PROVE NamingSound
  OBVIOUS
<1>1. NamesApart
  <2> SUFFICES ASSUME NEW m \in nmNodes, NEW n \in nmNodes, m # n,
                      machine_hostname(m) = machine_hostname(n)
               PROVE  FALSE
    BY DEF NamesApart
  <2>1. {m, n} \subseteq NmNames
    BY DEF NmInv, NmTyped, NmTypeOK
  <2>2. PICK x : x = machine_hostname(m) /\ x = machine_hostname(n)
    OBVIOUS
  <2>3. x = m \/ \E s \in NmNames : On(s, m) /\ x \in Called(s) \cap NmNames
    BY <2>2, ToldAName
  <2>4. x = n \/ \E s \in NmNames : On(s, n) /\ x \in Called(s) \cap NmNames
    BY <2>2, ToldAName
  <2>5. \A s \in NmNames : On(s, m) \/ On(s, n) => Declared(s)
    BY <2>1 DEF On, Declared, NmInv, NmTyped
  <2>6. x # m
    BY <2>1, <2>4, <2>5 DEF NmInv, NothingShared, On
  <2>7. x # n
    BY <2>1, <2>3, <2>5 DEF NmInv, NothingShared, On
  <2> QED
    BY <2>3, <2>4, <2>5, <2>6, <2>7 DEF NmInv, NothingShared, On
<1>2. RowsAreTheirs
  BY DEF RowsAreTheirs, NmInv, RowsFit, OwnRowsFit
<1>3. ReceiptsStand
  BY DEF ReceiptsStand, NmInv, ReceiptsFit
<1>4. \A s \in NmNames : Declared(s) => nmSlots[s].node \in nmNodes
  BY DEF NmInv, OneToOne
<1> QED
  BY <1>1, <1>2, <1>3, <1>4 DEF NamingSound

(* A number more is still one, where the bound lets it be taken.            *)
LEMMA AnotherNumber ==
  ASSUME NmTyped, nmSerial < NmMaxSerial
  PROVE  nmSerial + 1 \in NmNumbers /\ nmSerial + 1 # 0 /\ nmSerial + 1 # -1
BY DEF NmTyped, NmTypeOK, NmNumbers

(* A slot just declared, and a machine of somebody's own just counted.      *)
LEMMA NewSlot ==
  ASSUME NmTyped, NEW n \in NmNames, NEW k \in NmNumbers,
         NEW a, a = [NoSlot EXCEPT !.node = n, !.born = k]
  PROVE  /\ a \in NmSlotRows /\ a.node = n /\ a.kind = "machine" /\ a.state = "free"
         /\ a.name = NmNobody /\ a.pool = NmNobody /\ a.claim = 0
<1>1. 0 \in NmNumbers
  BY DEF NmTyped, NmNumbers
<1>2. PICK z : z = NoSlot
  OBVIOUS
<1>3. /\ z \in NmSlotRows /\ z.name = NmNobody /\ z.pool = NmNobody /\ z.kind = "machine"
      /\ z.state = "free" /\ z.claim = 0
  BY <1>1, <1>2 DEF NoSlot, NmSlotRows
<1>4. a = [z EXCEPT !.node = n, !.born = k]
  BY <1>2
<1> QED
  BY <1>3, <1>4 DEF NmSlotRows

LEMMA NewHeldSlot ==
  ASSUME NmTyped, NEW n \in NmNames, NEW k \in NmNumbers,
         NEW b, b = [NoSlot EXCEPT !.node = n, !.kind = "owner", !.state = "active",
                                   !.born = k, !.claim = k]
  PROVE  /\ b \in NmSlotRows /\ b.node = n /\ b.kind = "owner" /\ b.state = "active"
         /\ b.name = NmNobody /\ b.pool = NmNobody /\ b.claim = k
<1>1. 0 \in NmNumbers
  BY DEF NmTyped, NmNumbers
<1>2. PICK z : z = NoSlot
  OBVIOUS
<1>3. z \in NmSlotRows /\ z.name = NmNobody /\ z.pool = NmNobody
  BY <1>1, <1>2 DEF NoSlot, NmSlotRows
<1>4. b = [z EXCEPT !.node = n, !.kind = "owner", !.state = "active", !.born = k, !.claim = k]
  BY <1>2
<1> QED
  BY <1>3, <1>4 DEF NmSlotRows

(* What a claim and a wipe make of a slot.                                  *)
LEMMA ClaimedSlot ==
  ASSUME NEW z \in NmSlotRows, NEW name \in NmNames, NEW k \in NmNumbers
  PROVE  [z EXCEPT !.state = "claiming", !.name = name, !.claim = k] \in NmSlotRows
BY DEF NmSlotRows

LEMMA WipedSlot ==
  ASSUME NmTyped, NEW z \in NmSlotRows, NEW pool \in NmPool
  PROVE  /\ [z EXCEPT !.state = "free", !.name = NmNobody, !.pool = pool, !.claim = 0]
               \in NmSlotRows
         /\ [z EXCEPT !.name = NmNobody, !.pool = pool] \in NmSlotRows
<1>1. 0 \in NmNumbers
  BY DEF NmTyped, NmNumbers
<1> QED
  BY <1>1 DEF NmSlotRows

LEMMA MachinesKeep ==
  ASSUME NmInv, NEW n \in NmNames, add_node(n) \/ remove_node(n) \/ request_login(n)
  PROVE  NmInv'
<1> USE DEF NmInv, NmTyped, NmTypeOK, NmNumbers, NmSlotRows, NothingShared, OneToOne,
            TenanciesNumbered, RowsFit, OwnRowsFit, ReceiptsFit, Declared, On, Called
<1>1. CASE add_node(n)
  BY <1>1 DEF add_node
<1>2. CASE remove_node(n)
  BY <1>2 DEF remove_node, SlotOf
<1>3. CASE request_login(n)
  BY <1>3 DEF request_login, SlotOf
<1> QED
  BY <1>1, <1>2, <1>3

LEMMA FilingKeeps ==
  ASSUME NmInv, NEW s \in NmNames, Drop \/ wallet_order(s) \/ \E t \in NmTables : File(s, t)
  PROVE  NmInv'
<1> USE DEF NmInv, NmTyped, NmTypeOK, NmNumbers, NmSlotRows, NothingShared, OneToOne,
            TenanciesNumbered, RowsFit, OwnRowsFit, ReceiptsFit, Declared, On, Called
<1>1. CASE Drop
  <2>1. CASE \E r \in nmRows : nmRows' = nmRows \ {r} /\ UNCHANGED nmOwn
    BY <1>1, <2>1 DEF Drop
  <2>2. CASE \E n \in NmNames : nmOwn' = [nmOwn EXCEPT ![n] = -1] /\ UNCHANGED nmRows
    BY <1>1, <2>2 DEF Drop
  <2> QED
    BY <1>1, <2>1, <2>2 DEF Drop
<1>2. CASE wallet_order(s)
  BY <1>2 DEF wallet_order
<1>3. CASE \E t \in NmTables : File(s, t)
  BY <1>3 DEF File, NmTables
<1> QED
  BY <1>1, <1>2, <1>3

LEMMA SlotsComeAndGo ==
  ASSUME NmInv, NEW s \in NmNames, (\E n \in NmNames : add_slot(s, n)) \/ remove_slot(s)
  PROVE  NmInv'
<1> USE DEF NmInv, NmTyped, NmTypeOK, NmSlotRows, NothingShared, OneToOne,
            TenanciesNumbered, RowsFit, OwnRowsFit, ReceiptsFit, Declared, On, Called, NoSlot
<1>1. CASE \E n \in NmNames : add_slot(s, n)
  <2>1. PICK n \in NmNames : add_slot(s, n)
    BY <1>1
  <2>2. PICK k \in NmNumbers : k = nmSerial + 1
    BY <2>1, AnotherNumber DEF add_slot
  <2>3. PICK a : a = [NoSlot EXCEPT !.node = n, !.born = k]
    OBVIOUS
  <2>4. NmTyped
    OBVIOUS
  <2>5. /\ a \in NmSlotRows /\ a.node = n /\ a.kind = "machine" /\ a.state = "free"
        /\ a.name = NmNobody /\ a.pool = NmNobody /\ a.claim = 0
    BY <2>3, <2>4, NewSlot
  <2>6. nmSlots' = [nmSlots EXCEPT ![s] = a] /\ nmSerial' = k
    BY <2>1, <2>2, <2>3 DEF add_slot
  <2> HIDE DEF NoSlot, NmSlotRows
  <2>7. /\ n \in nmNodes /\ SlotOf(n) = {} /\ ~Declared(s) /\ s \notin nmNodes \ {n}
        /\ \A t \in NmNames : Declared(t) => s \notin {nmSlots[t].name, nmSlots[t].pool}
        /\ UNCHANGED <<nmNodes, nmRows, nmOwn, nmReceipts>>
    BY <2>1 DEF add_slot
  <2>8. NmTyped'
    BY <2>5, <2>6, <2>7
  <2>9. NothingShared'
    BY <2>5, <2>6, <2>7
  <2>10. OneToOne' /\ TenanciesNumbered'
    BY <2>5, <2>6, <2>7 DEF SlotOf
  <2>11. RowsFit' /\ OwnRowsFit' /\ ReceiptsFit'
    BY <2>5, <2>6, <2>7
  <2> QED
    BY <2>8, <2>9, <2>10, <2>11
<1>2. CASE remove_slot(s)
  <2>1. NmTyped'
    BY <1>2 DEF remove_slot, NmNumbers
  <2>2. NothingShared' /\ OneToOne' /\ TenanciesNumbered'
    BY <1>2 DEF remove_slot
  <2>3. RowsFit' /\ OwnRowsFit' /\ ReceiptsFit'
    BY <1>2 DEF remove_slot, Paid
  <2> QED
    BY <2>1, <2>2, <2>3
<1> QED
  BY <1>1, <1>2

LEMMA ClaimKeeps ==
  ASSUME NmInv, NEW s \in NmNames, NEW name \in NmNames, claim_slot_in_transaction(s, name)
  PROVE  NmInv'
<1> USE DEF NmInv, NmTyped, NmTypeOK, NmSlotRows, NothingShared, OneToOne,
            TenanciesNumbered, RowsFit, OwnRowsFit, ReceiptsFit, Declared, On, Called,
            claim_slot_in_transaction
<1>1. PICK k \in NmNumbers : k = nmSerial + 1 /\ k = nmSerial' /\ k # 0
  BY AnotherNumber
<1>2. NmTyped'
  <2>1. nmSlots' = [nmSlots EXCEPT ![s] = [nmSlots[s] EXCEPT !.state = "claiming", !.name = name,
                                                              !.claim = k]]
    BY <1>1
  <2> HIDE DEF NmSlotRows
  <2>2. [nmSlots[s] EXCEPT !.state = "claiming", !.name = name, !.claim = k] \in NmSlotRows
    BY ClaimedSlot
  <2>3. nmSlots' \in [NmNames -> NmSlotRows]
    BY <2>1, <2>2
  <2> QED
    BY <1>1, <2>3
<1>3. NothingShared'
  BY DEF Taken, TakenBut
<1>4. OneToOne' /\ TenanciesNumbered'
  BY <1>1
<1>5. RowsFit' /\ OwnRowsFit' /\ ReceiptsFit'
  OBVIOUS
<1> QED
  BY <1>2, <1>3, <1>4, <1>5

LEMMA TenancyMovesKeep ==
  ASSUME NmInv, NEW s \in NmNames, SetUp(s) \/ begin_release(s) \/ expire_claims(s)
  PROVE  NmInv'
<1> USE DEF NmInv, NmTyped, NmTypeOK, NmSlotRows, NothingShared, OneToOne,
            TenanciesNumbered, RowsFit, OwnRowsFit, ReceiptsFit, Declared, On, Called, NoSlot
<1>1. CASE SetUp(s)
  BY <1>1 DEF SetUp
<1>2. CASE begin_release(s)
  BY <1>2 DEF begin_release
<1>3. CASE expire_claims(s)
  BY <1>3 DEF expire_claims
<1> QED
  BY <1>1, <1>2, <1>3

LEMMA NameKeeps ==
  ASSUME NmInv, NEW s \in NmNames, NEW name \in NmNames, name_slot(s, name)
  PROVE  NmInv'
<1> USE DEF NmInv, NmTyped, NmTypeOK, NmSlotRows, NothingShared, OneToOne,
            TenanciesNumbered, RowsFit, OwnRowsFit, ReceiptsFit, Declared, On, Called, NoSlot,
            name_slot
<1>1. NmTyped' /\ OneToOne' /\ TenanciesNumbered'
  OBVIOUS
<1>2. NothingShared'
  BY DEF TakenBut
<1>3. RowsFit' /\ OwnRowsFit' /\ ReceiptsFit'
  OBVIOUS
<1> QED
  BY <1>1, <1>2, <1>3

(* The pool name a freed slot gets is nobody else's.                        *)
LEMMA PoolNameIsFree ==
  ASSUME NmInv, NEW s \in NmNames, Declared(s), NEW pool \in pool_name_for(s)
  PROVE  /\ pool \in NmPool
         /\ \A t \in NmNames : Declared(t) /\ t # s => pool \notin Called(t)
         /\ \A n \in nmNodes : n = pool => On(s, n)
<1> USE DEF NmInv, NmTyped, NmTypeOK, NmSlotRows
<1>1. CASE nmSlots[s].pool \in NmPool
  BY <1>1 DEF pool_name_for, NothingShared, Called
<1>2. CASE nmSlots[s].pool \notin NmPool
  <2>1. pool \in NmPool \ TakenBut(s, nmSlots[s].node)
    BY <1>2 DEF pool_name_for
  <2> QED
    BY <2>1 DEF TakenBut, On
<1> QED
  BY <1>1, <1>2

LEMMA PoolNamesKeep ==
  ASSUME NmInv, NEW s \in NmNames, NEW pool \in NmNames,
         free_released(s, pool) \/ normalize_free_pool_names(s, pool)
  PROVE  NmInv'
<1> USE DEF NmInv, NmTyped, NmTypeOK, NmSlotRows, NothingShared, OneToOne,
            TenanciesNumbered, RowsFit, OwnRowsFit, ReceiptsFit
<1>1. Declared(s) /\ pool \in pool_name_for(s)
  BY DEF free_released, normalize_free_pool_names, Declared, NoSlot
<1>2. /\ pool \in NmPool
      /\ \A t \in NmNames : Declared(t) /\ t # s => pool \notin Called(t)
      /\ \A n \in nmNodes : n = pool => On(s, n)
  BY <1>1, PoolNameIsFree
<1>3. PICK row \in NmSlotRows :
        /\ nmSlots' = [nmSlots EXCEPT ![s] = row]
        /\ row.node = nmSlots[s].node /\ row.kind = nmSlots[s].kind /\ row.state = "free"
        /\ row.name = NmNobody /\ row.pool = pool /\ row.born = nmSlots[s].born
        /\ row.claim = 0 /\ nmSlots[s].kind = "machine"
  <2>1. CASE free_released(s, pool)
    <3>1. PICK row : row = [nmSlots[s] EXCEPT !.state = "free", !.name = NmNobody,
                                              !.pool = pool, !.claim = 0]
      OBVIOUS
    <3>2. row \in NmSlotRows
      <4> HIDE DEF NmSlotRows
      <4> QED
        BY <1>2, <3>1, WipedSlot
    <3> QED
      BY <2>1, <3>1, <3>2 DEF free_released
  <2>2. CASE normalize_free_pool_names(s, pool)
    <3>1. PICK row : row = [nmSlots[s] EXCEPT !.name = NmNobody, !.pool = pool]
      OBVIOUS
    <3>2. row \in NmSlotRows
      <4> HIDE DEF NmSlotRows
      <4> QED
        BY <1>2, <3>1, WipedSlot
    <3> QED
      BY <2>2, <3>1, <3>2 DEF normalize_free_pool_names
  <2> QED
    BY <2>1, <2>2
<1>4. UNCHANGED <<nmNodes, nmOwn, nmReceipts, nmSerial>> /\ nmRows' \subseteq nmRows
  BY DEF free_released, normalize_free_pool_names
<1>5. \A r \in nmRows' : r.slot # s \/ r.table = "logins" \/ nmSlots[s].state = "free"
  BY DEF free_released, normalize_free_pool_names
<1> HIDE DEF NmSlotRows
<1>6. NmTyped'
  BY <1>3, <1>4
<1>7. NothingShared'
  BY <1>1, <1>2, <1>3, <1>4 DEF Declared, On, Called
<1>8. OneToOne' /\ TenanciesNumbered'
  BY <1>1, <1>3, <1>4 DEF Declared
<1>9. RowsFit'
  BY <1>3, <1>4, <1>5 DEF free_released, normalize_free_pool_names, Declared
<1>10. OwnRowsFit' /\ ReceiptsFit'
  BY <1>3, <1>4 DEF Declared, On
<1> QED
  BY <1>6, <1>7, <1>8, <1>9, <1>10

LEMMA HoldKeeps ==
  ASSUME NmInv, NEW n \in NmNames, hold_owner_node(n) \/ unhold_owner_node(n)
  PROVE  NmInv'
<1> USE DEF NmInv, NmTyped, NmTypeOK, NmSlotRows, NothingShared, OneToOne,
            TenanciesNumbered, RowsFit, OwnRowsFit, ReceiptsFit, Declared, On, Called, NoSlot,
            SlotOf
<1>1. CASE hold_owner_node(n)
  <2>1. nmSerial' \in NmNumbers /\ nmSerial' # 0 /\ nmSerial' = nmSerial + 1
    BY <1>1, AnotherNumber DEF hold_owner_node, Renewed
  <2>2. CASE \E s \in SlotOf(n) :
               nmSlots' = [nmSlots EXCEPT ![s].claim = nmSerial + 1] /\ Renewed(n, s)
    <3>1. NmTyped' /\ NothingShared' /\ OneToOne' /\ TenanciesNumbered'
      BY <1>1, <2>1, <2>2 DEF hold_owner_node, Renewed, NmNumbers
    <3>2. RowsFit' /\ OwnRowsFit' /\ ReceiptsFit'
      BY <1>1, <2>1, <2>2 DEF hold_owner_node, Renewed
    <3> QED
      BY <3>1, <3>2
  <2>3. CASE /\ SlotOf(n) = {} /\ ~Declared(n)
             /\ nmSlots' = [nmSlots EXCEPT ![n] =
                  [NoSlot EXCEPT !.node = n, !.kind = "owner", !.state = "active",
                                 !.born = nmSerial + 1, !.claim = nmSerial + 1]]
             /\ Renewed(n, n)
    <3>1. PICK k \in NmNumbers : k = nmSerial + 1 /\ k = nmSerial' /\ k # 0
      BY <2>1
    <3>2. PICK b : b = [NoSlot EXCEPT !.node = n, !.kind = "owner", !.state = "active",
                                      !.born = k, !.claim = k]
      OBVIOUS
    <3>3. /\ b \in NmSlotRows /\ b.node = n /\ b.kind = "owner" /\ b.state = "active"
          /\ b.name = NmNobody /\ b.pool = NmNobody /\ b.claim = k
      BY <3>2, NewHeldSlot
    <3>4. nmSlots' = [nmSlots EXCEPT ![n] = b]
      BY <2>3, <3>1, <3>2
    <3>5. /\ nmOwn' = [nmOwn EXCEPT ![n] = -1] /\ nmRows' \subseteq nmRows
          /\ n \in nmNodes /\ UNCHANGED <<nmNodes, nmReceipts>>
      BY <1>1, <2>3 DEF hold_owner_node, Renewed
    <3> HIDE DEF NoSlot, NmSlotRows
    <3>6. NmTyped'
      BY <3>1, <3>3, <3>4, <3>5
    <3>7. NothingShared'
      <4>1. \A s \in NmNames : IF s = n THEN Called(s)' = {n, NmNobody}
                               ELSE nmSlots'[s] = nmSlots[s]
        BY <3>3, <3>4
      <4>2. \A s \in NmNames : Declared(s) => n \notin Called(s)
        BY <2>3, <3>5
      <4> QED
        BY <3>3, <3>4, <3>5, <4>1, <4>2
    <3>8. OneToOne' /\ TenanciesNumbered'
      BY <2>3, <3>1, <3>3, <3>4, <3>5
    <3>9. RowsFit' /\ OwnRowsFit' /\ ReceiptsFit'
      BY <2>3, <3>3, <3>4, <3>5
    <3> QED
      BY <3>6, <3>7, <3>8, <3>9
  <2> QED
    BY <1>1, <2>2, <2>3 DEF hold_owner_node
<1>2. CASE unhold_owner_node(n)
  <2>1. NmTyped' /\ NothingShared' /\ OneToOne' /\ TenanciesNumbered'
    BY <1>2 DEF unhold_owner_node, NmNumbers
  <2>2. RowsFit' /\ OwnRowsFit' /\ ReceiptsFit'
    BY <1>2 DEF unhold_owner_node
  <2> QED
    BY <2>1, <2>2
<1> QED
  BY <1>1, <1>2

(* Rows moved to a slot's new id are still as they were, but for the id.    *)
LEMMA MovedRows ==
  ASSUME NEW rows \in SUBSET [table : NmTables, slot : NmNames, claim : NmNumbers],
         NEW old \in NmNames, NEW new \in NmNames
  PROVE  /\ Moved(rows, old, new) \subseteq [table : NmTables, slot : NmNames, claim : NmNumbers]
         /\ \A q \in Moved(rows, old, new) :
              \E r \in rows :
                /\ r.slot # new /\ q.table = r.table /\ q.claim = r.claim
                /\ q.slot = IF r.slot = old THEN new ELSE r.slot
BY DEF Moved

LEMMA RenameSlotKeeps ==
  ASSUME NmInv, NEW old \in NmNames, NEW new \in NmNames, rename_slot(old, new)
  PROVE  NmInv'
<1> USE DEF NmInv, NmTyped, NmTypeOK, NmSlotRows, NothingShared, OneToOne,
            TenanciesNumbered, RowsFit, OwnRowsFit, ReceiptsFit, Declared, On, Called, NoSlot,
            rename_slot
<1>1. /\ nmRows' \subseteq [table : NmTables, slot : NmNames, claim : NmNumbers]
      /\ \A q \in nmRows' :
           \E r \in nmRows :
             /\ r.slot # new /\ q.table = r.table /\ q.claim = r.claim
             /\ q.slot = IF r.slot = old THEN new ELSE r.slot
  BY MovedRows
<1>2. NmTyped'
  BY <1>1 DEF NmNumbers
<1>3. NothingShared'
  <2>1. \A s \in NmNames : IF s = new THEN nmSlots'[s] = nmSlots[old]
                           ELSE IF s = old THEN nmSlots'[s].node = NmNobody
                           ELSE nmSlots'[s] = nmSlots[s]
    OBVIOUS
  <2>2. ASSUME NEW s \in NmNames, NEW t \in NmNames, NEW x \in NmNames,
               Declared(s)', Declared(t)', x \in Called(s)', x \in Called(t)'
        PROVE  s = t
    BY <2>1, <2>2
  <2>3. ASSUME NEW s \in NmNames, NEW n \in NmNames,
               Declared(s)', n \in nmNodes', n \in Called(s)'
        PROVE  On(s, n)'
    BY <2>1, <2>3
  <2> QED
    BY <2>2, <2>3
<1>4. OneToOne' /\ TenanciesNumbered'
  OBVIOUS
<1>5. RowsFit'
  BY <1>1
<1>6. OwnRowsFit'
  OBVIOUS
<1>7. ReceiptsFit'
  <2>1. \A r \in nmReceipts : r.slot # old /\ r.slot # new
    BY DEF Paid
  <2> QED
    BY <2>1
<1> QED
  BY <1>2, <1>3, <1>4, <1>5, <1>6, <1>7

(* A machine renamed: its slot goes with it, and with it the rows and the   *)
(* id of a slot that bore the machine's own.                                *)
LEMMA RenameNodeKeeps ==
  ASSUME NmInv, NEW old \in NmNames, NEW new \in NmNames, rename_node(old, new)
  PROVE  NmInv'
<1> USE DEF NmInv, NmTyped, NmTypeOK, NmSlotRows, NothingShared, OneToOne,
            TenanciesNumbered, RowsFit, OwnRowsFit, ReceiptsFit, Declared, On, Called
<1>1. /\ old \in nmNodes /\ new \notin nmNodes /\ nmNodes' = (nmNodes \ {old}) \cup {new}
      /\ \A s \in NmNames : Declared(s) /\ ~On(s, old) => new \notin Called(s)
      /\ \A s \in NmNames : ~On(s, new)
      /\ nmOwn' = [nmOwn EXCEPT ![new] = nmOwn[old], ![old] = -1]
      /\ UNCHANGED <<nmReceipts, nmSerial>>
  BY DEF rename_node, SlotOf
<1>2. \A r \in nmReceipts : r.node # old /\ r.node # new
  BY DEF rename_node, Paid
<1>3. CASE ~Carries(old)
  <2>1. UNCHANGED nmRows
    BY <1>3 DEF rename_node
  <2>2. nmSlots' = [s \in NmNames |-> IF On(s, old) THEN [nmSlots[s] EXCEPT !.node = new]
                                      ELSE nmSlots[s]]
    BY <1>3 DEF rename_node
  <2>3. ASSUME NEW s \in NmNames
        PROVE  /\ nmSlots'[s] \in NmSlotRows
               /\ nmSlots'[s].node = IF On(s, old) THEN new ELSE nmSlots[s].node
               /\ nmSlots'[s].kind = nmSlots[s].kind /\ nmSlots'[s].state = nmSlots[s].state
               /\ nmSlots'[s].name = nmSlots[s].name /\ nmSlots'[s].pool = nmSlots[s].pool
               /\ nmSlots'[s].born = nmSlots[s].born /\ nmSlots'[s].claim = nmSlots[s].claim
               /\ ~On(s, old) => nmSlots'[s] = nmSlots[s]
    <3>1. CASE On(s, old)
      <4>1. nmSlots'[s] = [nmSlots[s] EXCEPT !.node = new]
        BY <2>2, <3>1
      <4> QED
        BY <3>1, <4>1
    <3>2. CASE ~On(s, old)
      <4>1. nmSlots'[s] = nmSlots[s]
        BY <2>2, <3>2
      <4> QED
        BY <3>2, <4>1
    <3> QED
      BY <3>1, <3>2
  <2> HIDE DEF NmSlotRows
  <2>4. NmTyped'
    <3>1. nmSlots' \in [NmNames -> NmSlotRows]
      BY <2>2, <2>3
    <3> QED
      BY <1>1, <2>1, <3>1 DEF NmNumbers
  <2>5. NothingShared'
    <3>1. ASSUME NEW s \in NmNames, NEW t \in NmNames, NEW x \in NmNames,
                 Declared(s)', Declared(t)', x \in Called(s)', x \in Called(t)'
          PROVE  s = t
      BY <2>3, <3>1
    <3>2. ASSUME NEW s \in NmNames, NEW n \in NmNames,
                 Declared(s)', n \in nmNodes', n \in Called(s)'
          PROVE  On(s, n)'
      BY <1>1, <2>3, <3>2
    <3> QED
      BY <1>1, <3>1, <3>2
  <2>6. OneToOne'
    <3>1. \A s \in NmNames : IF Declared(s)' THEN nmSlots'[s].node \in nmNodes'
                             ELSE nmSlots'[s] = NoSlot
      BY <1>1, <2>3
    <3>2. ASSUME NEW s \in NmNames, NEW t \in NmNames, Declared(s)',
                 nmSlots'[s].node = nmSlots'[t].node
          PROVE  s = t
      BY <1>1, <2>3, <3>2
    <3> QED
      BY <3>1, <3>2
  <2>7. TenanciesNumbered'
    BY <2>3
  <2>8. RowsFit'
    BY <1>1, <2>1, <2>3
  <2>9. OwnRowsFit'
    <3>1. ASSUME NEW s \in NmNames, Declared(s)', nmSlots'[s].kind = "owner"
          PROVE  nmOwn'[nmSlots'[s].node] \in {-1, nmSlots'[s].claim}
      <4>1. CASE On(s, old)
        BY <1>1, <2>3, <3>1, <4>1
      <4>2. CASE ~On(s, old)
        BY <1>1, <2>3, <3>1, <4>2
      <4> QED
        BY <4>1, <4>2
    <3> QED
      BY <3>1
  <2>10. ReceiptsFit'
    BY <1>1, <1>2, <2>3
  <2> QED
    BY <2>4, <2>5, <2>6, <2>7, <2>8, <2>9, <2>10
<1>4. CASE Carries(old)
  <2>1. On(old, old) /\ nmSlots[old].kind = "owner"
    BY <1>4 DEF Carries
  <2>2. ~Declared(new)
    BY <1>1, <2>1
  <2>3. /\ nmSlots' = [s \in NmNames |-> IF s = new THEN [nmSlots[old] EXCEPT !.node = new]
                                         ELSE IF s = old THEN NoSlot ELSE nmSlots[s]]
        /\ nmRows' = Refiled(old, new)
    BY <1>1, <1>4, <2>1 DEF rename_node
  <2>4. PICK row \in NmSlotRows :
          /\ row = [nmSlots[old] EXCEPT !.node = new]
          /\ row.node = new /\ row.kind = "owner" /\ row.state = nmSlots[old].state
          /\ row.name = nmSlots[old].name /\ row.pool = nmSlots[old].pool
          /\ row.claim = nmSlots[old].claim
    <3>1. PICK row : row = [nmSlots[old] EXCEPT !.node = new]
      OBVIOUS
    <3>2. row \in NmSlotRows
      BY <3>1
    <3>3. /\ row.node = new /\ row.kind = "owner" /\ row.state = nmSlots[old].state
          /\ row.name = nmSlots[old].name /\ row.pool = nmSlots[old].pool
          /\ row.claim = nmSlots[old].claim
      BY <2>1, <3>1
    <3> QED
      BY <3>1, <3>2, <3>3
  <2>5. NoSlot \in NmSlotRows /\ NoSlot.node = NmNobody /\ NoSlot.claim = 0
        /\ NoSlot.state = "free" /\ NoSlot.kind = "machine"
    BY DEF NoSlot, NmNumbers
  <2>6. /\ nmRows' \subseteq [table : NmTables, slot : NmNames, claim : NmNumbers]
        /\ \A q \in nmRows' :
             \E r \in nmRows :
               /\ q.table = r.table /\ q.claim = r.claim
               /\ r.table = "claude_updates" =>
                    r.slot # new /\ q.slot = IF r.slot = old THEN new ELSE r.slot
               /\ r.table # "claude_updates" => q = r
    <3>1. PICK up : up = {r \in nmRows : r.table = "claude_updates"}
      OBVIOUS
    <3>2. up \in SUBSET [table : NmTables, slot : NmNames, claim : NmNumbers]
      BY <3>1
    <3>3. /\ Moved(up, old, new) \subseteq [table : NmTables, slot : NmNames, claim : NmNumbers]
          /\ \A q \in Moved(up, old, new) :
               \E r \in up :
                 /\ r.slot # new /\ q.table = r.table /\ q.claim = r.claim
                 /\ q.slot = IF r.slot = old THEN new ELSE r.slot
      BY <3>2, MovedRows
    <3>4. nmRows' = Moved(up, old, new) \cup {r \in nmRows : r.table # "claude_updates"}
      BY <2>3, <3>1 DEF Refiled
    <3> QED
      BY <3>1, <3>3, <3>4
  <2>7. /\ nmSlots' \in [NmNames -> NmSlotRows]
        /\ nmSlots'[new] = row
        /\ old # new /\ nmSlots'[old] = NoSlot
        /\ \A s \in NmNames : s # new /\ s # old => nmSlots'[s] = nmSlots[s] /\ ~On(s, old)
    BY <1>1, <2>1, <2>3, <2>4, <2>5
  <2> HIDE DEF NmSlotRows
  <2>8. NmTyped'
    BY <1>1, <2>6, <2>7 DEF NmNumbers
  <2>9. /\ nmSlots'[new].node = new /\ nmSlots'[new].kind = "owner"
        /\ nmSlots'[new].state = nmSlots[old].state /\ nmSlots'[new].name = nmSlots[old].name
        /\ nmSlots'[new].pool = nmSlots[old].pool /\ nmSlots'[new].claim = nmSlots[old].claim
        /\ nmSlots'[old] = NoSlot /\ old # new
        /\ \A s \in NmNames : s # new /\ s # old => nmSlots'[s] = nmSlots[s]
        /\ \A s \in NmNames : s # old => ~On(s, old)
        /\ nmSlots[new] = NoSlot
    BY <2>1, <2>2, <2>4, <2>7
  <2>10. NothingShared'
    <3>1. ASSUME NEW s \in NmNames, NEW t \in NmNames, NEW x \in NmNames,
                 Declared(s)', Declared(t)', x \in Called(s)', x \in Called(t)'
          PROVE  s = t
      <4>1. \A q \in NmNames : q # new /\ Declared(q)' => Declared(q) /\ ~On(q, old)
                                  /\ Called(q)' = Called(q) /\ q # old
        BY <2>5, <2>9
      <4>2. \A y \in NmNames : y \in Called(new)' => y = new \/ y \in Called(old)
        BY <2>9
      <4>3. ASSUME NEW q \in NmNames, q # new, Declared(q)',
                   NEW y \in NmNames, y \in Called(q)', y \in Called(new)'
            PROVE  FALSE
        <5>1. Declared(q) /\ ~On(q, old) /\ y \in Called(q) /\ q # old
          BY <4>1, <4>3
        <5>2. y = new \/ y \in Called(old)
          BY <4>2, <4>3
        <5>3. Declared(old)
          BY <2>1
        <5> QED
          BY <1>1, <5>1, <5>2, <5>3
      <4>4. CASE s = new /\ t # new
        BY <3>1, <4>3, <4>4
      <4>5. CASE s # new /\ t = new
        BY <3>1, <4>3, <4>5
      <4>6. CASE s # new /\ t # new
        <5>1. Declared(s) /\ Declared(t) /\ x \in Called(s) /\ x \in Called(t)
          BY <3>1, <4>1, <4>6
        <5> QED
          BY <5>1
      <4> QED
        BY <4>4, <4>5, <4>6
    <3>2. ASSUME NEW s \in NmNames, NEW n \in NmNames,
                 Declared(s)', n \in nmNodes', n \in Called(s)'
          PROVE  On(s, n)'
      <4>1. CASE s = new
        <5>1. nmSlots'[s].node = new /\ (n = new \/ n \in Called(old))
          BY <2>9, <3>2, <4>1
        <5> QED
          BY <1>1, <2>1, <3>2, <5>1
      <4>2. CASE s # new
        <5>1. Declared(s) /\ ~On(s, old) /\ nmSlots'[s] = nmSlots[s]
          BY <2>5, <2>9, <3>2, <4>2
        <5> QED
          BY <1>1, <3>2, <5>1
      <4> QED
        BY <4>1, <4>2
    <3> QED
      BY <1>1, <2>8, <3>1, <3>2
  <2>11. OneToOne'
    <3>1. \A s \in NmNames : IF Declared(s)' THEN nmSlots'[s].node \in nmNodes'
                             ELSE nmSlots'[s] = NoSlot
      <4>1. ASSUME NEW s \in NmNames
            PROVE  IF Declared(s)' THEN nmSlots'[s].node \in nmNodes' ELSE nmSlots'[s] = NoSlot
        <5>1. CASE s = new
          BY <1>1, <2>9, <5>1
        <5>2. CASE s = old
          BY <2>5, <2>9, <5>2
        <5>3. CASE s # new /\ s # old
          <6>1. nmSlots'[s] = nmSlots[s] /\ nmSlots[s].node # old
            BY <2>9, <5>3
          <6> QED
            BY <1>1, <6>1
        <5> QED
          BY <5>1, <5>2, <5>3
      <4> QED
        BY <4>1
    <3>2. ASSUME NEW s \in NmNames, NEW t \in NmNames, Declared(s)',
                 nmSlots'[s].node = nmSlots'[t].node
          PROVE  s = t
      <4>1. \A q \in NmNames : q # new => nmSlots'[q].node # new
        BY <1>1, <2>5, <2>9
      <4>2. CASE s = new \/ t = new
        BY <2>9, <3>2, <4>1, <4>2
      <4>3. CASE s # new /\ t # new
        <5>1. s # old /\ t # old
          BY <2>5, <2>9, <3>2
        <5>2. nmSlots'[s] = nmSlots[s] /\ nmSlots'[t] = nmSlots[t]
          BY <2>9, <4>3, <5>1
        <5> QED
          BY <3>2, <5>2
      <4> QED
        BY <4>2, <4>3
    <3> QED
      BY <3>1, <3>2
  <2>12. TenanciesNumbered'
    <3>1. ASSUME NEW s \in NmNames
          PROVE  /\ nmSlots'[s].claim = 0 <=> nmSlots'[s].state = "free"
                 /\ nmSlots'[s].kind = "owner" => nmSlots'[s].state = "active"
      <4>1. CASE s = new
        BY <2>1, <2>9, <4>1
      <4>2. CASE s = old
        BY <2>5, <2>9, <4>2
      <4>3. CASE s # new /\ s # old
        <5>1. nmSlots'[s] = nmSlots[s]
          BY <2>9, <4>3
        <5> QED
          BY <5>1
      <4> QED
        BY <4>1, <4>2, <4>3
    <3> QED
      BY <3>1
  <2>13. RowsFit'
    <3>1. ASSUME NEW q \in nmRows'
          PROVE  /\ Declared(q.slot)' /\ nmSlots'[q.slot].claim = q.claim /\ q.claim # 0
                 /\ nmSlots'[q.slot].state # "claiming"
                 /\ nmSlots'[q.slot].state = "releasing" => q.table \notin {"logins", "cli_devices"}
                 /\ nmSlots'[q.slot].kind = "owner" => q.table = "claude_updates"
      <4>1. PICK r \in nmRows :
               /\ q.table = r.table /\ q.claim = r.claim
               /\ r.table = "claude_updates" =>
                    r.slot # new /\ q.slot = IF r.slot = old THEN new ELSE r.slot
               /\ r.table # "claude_updates" => q = r
        BY <2>6
      <4>2. r.slot \in NmNames /\ q.slot \in NmNames
        BY <2>6
      <4>3. r.slot # new
        BY <2>2, <4>1
      <4>4. r.slot = old => r.table = "claude_updates"
        BY <2>1
      <4>5. CASE r.slot = old
        <5>1. q.slot = new /\ q.table = "claude_updates"
          BY <4>1, <4>4, <4>5
        <5>2. r.claim = nmSlots[old].claim /\ q.claim # 0
          BY <4>1, <4>5
        <5>3. nmSlots[old].state = "active"
          BY <2>1
        <5>4. q.claim = nmSlots'[new].claim /\ nmSlots'[new].state = "active"
              /\ nmSlots'[new].node # NmNobody
          BY <2>9, <4>1, <5>2, <5>3
        <5> QED
          BY <5>1, <5>2, <5>4
      <4>6. CASE r.slot # old
        BY <2>9, <4>1, <4>2, <4>3, <4>6
      <4> QED
        BY <4>5, <4>6
    <3> QED
      BY <3>1
  <2>14. OwnRowsFit'
    <3>1. ASSUME NEW s \in NmNames, Declared(s)', nmSlots'[s].kind = "owner"
          PROVE  nmOwn'[nmSlots'[s].node] \in {-1, nmSlots'[s].claim}
      <4>1. CASE s = new
        <5>1. nmOwn'[new] = nmOwn[old]
          BY <1>1, <2>9
        <5>2. nmOwn[old] \in {-1, nmSlots[old].claim}
          BY <2>1
        <5> QED
          BY <2>9, <4>1, <5>1, <5>2
      <4>2. CASE s # new
        BY <1>1, <2>5, <2>9, <3>1, <4>2
      <4> QED
        BY <4>1, <4>2
    <3> QED
      BY <3>1
  <2>15. ReceiptsFit'
    <3>1. \A r \in nmReceipts : r.slot # old /\ r.slot # new
      BY <1>2, <2>1, <2>2
    <3> QED
      BY <1>1, <2>9, <3>1
  <2> QED
    BY <2>8, <2>10, <2>11, <2>12, <2>13, <2>14, <2>15
<1> QED
  BY <1>3, <1>4

LEMMA NmStepKeeps == ASSUME NmInv, NmNext \/ UNCHANGED nmVars PROVE NmInv'
<1>1. CASE UNCHANGED nmVars
  BY <1>1
  DEF nmVars, NmInv, NmTyped, NmTypeOK, NothingShared, OneToOne, TenanciesNumbered, RowsFit,
      OwnRowsFit, ReceiptsFit, Declared, On, Called
<1>2. CASE NmNext
  <2>1. CASE \E n \in NmNames : \/ add_node(n) \/ remove_node(n) \/ request_login(n)
                                \/ hold_owner_node(n) \/ unhold_owner_node(n)
    BY <2>1, MachinesKeep, HoldKeeps
  <2>2. CASE \E s \in NmNames : \/ remove_slot(s) \/ SetUp(s) \/ begin_release(s)
                                \/ expire_claims(s) \/ wallet_order(s)
                                \/ \E t \in NmTables : File(s, t)
    BY <2>2, SlotsComeAndGo, TenancyMovesKeep, FilingKeeps
  <2>3. CASE \E a, b \in NmNames : \/ rename_node(a, b) \/ add_slot(a, b) \/ rename_slot(a, b)
                                   \/ claim_slot_in_transaction(a, b) \/ free_released(a, b)
                                   \/ normalize_free_pool_names(a, b) \/ name_slot(a, b)
    BY <2>3, RenameNodeKeeps, SlotsComeAndGo, RenameSlotKeeps, ClaimKeeps, PoolNamesKeep, NameKeeps
  <2>4. CASE Drop
    <3>1. \E s \in NmNames : TRUE
      BY <2>4 DEF Drop, NmInv, NmTyped, NmTypeOK
    <3> QED
      BY <2>4, <3>1, FilingKeeps
  <2> QED
    BY <1>2, <2>1, <2>2, <2>3, <2>4 DEF NmNext
<1> QED
  BY <1>1, <1>2

(* Whom a browser's cookie signs in consented to a sign-in that this        *)
(* browser began, each sign-in makes one session and each person has one    *)
(* account (api._sign_in_callback, store.upsert_account_from_google); and   *)
(* an account's requests, live keys and keys a day stay within what the     *)
(* trial allows, however its keys change and its clock is set               *)
(* (trial_access.create, take_request); and no two machines ever answer to  *)
(* one name, and a name or an id never comes to stand for another machine,  *)
(* slot or holder (store.rename_node, rename_slot, claim_slot and what else *)
(* gives names).                                                            *)
THEOREM AccessSoundAlways == ServerSpec => []AccessSound
<1>1. ServerInit => SesInv /\ TaInv /\ NmInv
  BY SesInitSound, TaInitSound, NmInitSound DEF ServerInit
<1>2. ASSUME SesInv, TaInv, NmInv, [ServerNext]_<<focus, siteVars, vars>>
      PROVE  SesInv' /\ TaInv' /\ NmInv'
  <2>1. /\ SesNext \/ UNCHANGED sesVars
        /\ TaNext \/ UNCHANGED taVars
        /\ NmNext \/ UNCHANGED nmVars
    BY <1>2 DEF ServerNext, OthersWait, siteVars
  <2> QED
    BY <1>2, <2>1, SesStepSound, TaStepSound, NmStepKeeps
<1>3. SesInv /\ TaInv /\ NmInv => AccessSound
  BY SesInvGivesSound, TaInvGivesKept, NmInvGivesSound DEF AccessSound
<1> QED
  BY <1>1, <1>2, <1>3, PTL DEF ServerSpec

-----------------------------------------------------------------------------
(* The gateway: the inductive invariant.                                    *)

Frames == {"unanswered", "refused", "answered"}
TargetRow == [slot : GwSlots, gen : Nat, claim : Nat]
BindingRow == [claim : Nat, owner : GwOwners \cup {NoGw}, fp : GwFingerprints \cup {NoGw},
               state : {"none", "fresh", "revoked"}]

GwTyped ==
  /\ gwHeld \in [GwSlots -> GwOwners \cup {NoGw}]
  /\ gwClaim \in [GwSlots -> Nat] /\ gwGen \in [GwSlots -> Nat] /\ gwClaims \in Nat
  /\ gwKey \in GwKeys \cup {NoGw} /\ gwBinding \in [GwSlots -> BindingRow]
  /\ gwReq \in GwRequests \cup {NoGw} /\ gwFrames \in Seq(Frames) /\ gwLate \in Nat

(* A key's generation moves with each change of it; a free slot has no      *)
(* binding, and no account two slots.                                       *)
StoreKept ==
  /\ gwKey # NoGw => gwKey.gen = gwKey.edits + 1
  /\ \A s \in GwSlots : gwHeld[s] = NoGw => gwBinding[s] = NoBinding
  /\ OneSlotForAnAccount

(* What a request knows is no newer than the store, and a slot's claim was  *)
(* the one it knows for as long as the slot's generation is.                *)
SnapshotKept ==
  gwReq # NoGw =>
    /\ gwKey # NoGw /\ gwReq.gen = gwReq.edits + 1 /\ gwReq.edits <= gwKey.edits
    /\ \A i \in DOMAIN gwReq.targets :
         LET t == gwReq.targets[i] IN
         t.gen <= gwGen[t.slot] /\ (t.gen = gwGen[t.slot] => t.claim = gwClaim[t.slot])
    /\ gwReq.pc \notin {"keyed", "done"} => gwReq.pos \in DOMAIN gwReq.targets
    /\ gwReq.pc = "keyed" => gwReq.pos = 1

(* A chunk was written late only where the change is there to be seen, and  *)
(* no other is let through.                                                 *)
LateOnce ==
  gwLate # 0 =>
    /\ gwLate = 1 /\ gwReq # NoGw /\ gwReq.pc \in {"answering", "done"}
    /\ gwReq.pos \in DOMAIN gwReq.targets /\ GwChanged

(* Until a frame is sent, every frame before it was refused, and a native   *)
(* request has none.                                                        *)
FramesKept ==
  /\ \A i \in 1..Len(gwFrames) - 1 : gwFrames[i] = "refused"
  /\ gwReq = NoGw => gwFrames = <<>>
  /\ gwReq # NoGw =>
       /\ gwReq.pc \in {"keyed", "trying", "starting", "begun"} =>
            /\ \A i \in 1..Len(gwFrames) : gwFrames[i] = "refused"
            /\ gwReq.provider = "devin" => gwFrames = <<>>
       /\ gwReq.pc = "sent" => gwFrames # <<>>
       /\ gwReq.provider = "devin" => Len(gwFrames) <= 1

GwInv == GwTyped /\ StoreKept /\ SnapshotKept /\ LateOnce /\ FramesKept

LEMMA GwInitSound == GwInit => GwInv
<1> SUFFICES ASSUME GwInit PROVE GwInv
  OBVIOUS
<1>1. GwTyped
  BY DEF GwInit, GwTyped, NoBinding, BindingRow
<1>2. StoreKept
  BY DEF GwInit, StoreKept, OneSlotForAnAccount, binding_ready
<1>3. SnapshotKept /\ LateOnce /\ FramesKept
  BY DEF GwInit, SnapshotKept, LateOnce, FramesKept
<1> QED
  BY <1>1, <1>2, <1>3 DEF GwInv

(* A change of the store under a request leaves what is said of it so.      *)
LEMMA UnderARequest ==
  ASSUME GwInv, UNCHANGED gwRequest,
         gwKey' \in GwKeys \cup {NoGw}, gwGen' \in [GwSlots -> Nat],
         gwKey # NoGw => gwKey' # NoGw /\ gwKey'.edits >= gwKey.edits,
         \A s \in GwSlots : gwGen[s] <= gwGen'[s],
         \A s \in GwSlots : gwGen'[s] = gwGen[s] => gwClaim'[s] = gwClaim[s]
  PROVE  SnapshotKept' /\ LateOnce' /\ FramesKept'
<1>1. UNCHANGED <<gwReq, gwFrames, gwLate>>
  BY DEF gwRequest
<1>2. FramesKept'
  BY <1>1 DEF GwInv, FramesKept
<1>3. ASSUME gwReq # NoGw
      PROVE  /\ gwReq \in GwRequests /\ gwKey \in GwKeys /\ gwKey' \in GwKeys
             /\ gwReq.edits \in Nat /\ gwKey.edits \in Nat /\ gwKey'.edits \in Nat
             /\ \A i \in DOMAIN gwReq.targets : gwReq.targets[i] \in TargetRow
             /\ \A i \in DOMAIN gwReq.targets :
                  /\ gwReq.targets[i].slot \in GwSlots /\ gwReq.targets[i].gen \in Nat
                  /\ gwGen[gwReq.targets[i].slot] \in Nat /\ gwGen'[gwReq.targets[i].slot] \in Nat
  <2>1. gwReq \in GwRequests /\ gwKey \in GwKeys /\ gwKey' \in GwKeys
    BY <1>3 DEF GwInv, GwTyped, SnapshotKept
  <2>2. gwReq.targets \in Seq(TargetRow)
    BY <2>1 DEF GwRequests, TargetRow
  <2>3. \A i \in DOMAIN gwReq.targets : gwReq.targets[i] \in TargetRow
    BY <2>2
  <2> QED
    BY <2>1, <2>3 DEF GwInv, GwTyped, GwKeys, GwRequests, TargetRow
<1>4. SnapshotKept'
  BY <1>1, <1>3 DEF GwInv, SnapshotKept
<1>5. LateOnce'
  <2> SUFFICES ASSUME gwLate # 0 PROVE LateOnce'
    BY <1>1 DEF LateOnce
  <2>1. /\ gwLate = 1 /\ gwReq # NoGw /\ gwReq.pc \in {"answering", "done"}
        /\ gwReq.pos \in DOMAIN gwReq.targets /\ GwChanged
    BY DEF GwInv, LateOnce
  <2>2. Target.slot \in GwSlots /\ Target.gen <= gwGen[Target.slot]
        /\ (Target.gen = gwGen[Target.slot] => Target.claim = gwClaim[Target.slot])
        /\ Target.gen \in Nat
    BY <1>3, <2>1 DEF GwInv, SnapshotKept, Target
  <2>3. GwChanged'
    BY <1>1, <1>3, <2>1, <2>2 DEF GwInv, SnapshotKept, GwChanged, Target
  <2> QED
    BY <1>1, <2>1, <2>3 DEF LateOnce
<1> QED
  BY <1>2, <1>4, <1>5

LEMMA BumpMoves ==
  ASSUME GwInv, NEW s \in GwSlots, GwBump(s)
  PROVE  /\ gwGen' \in [GwSlots -> Nat]
         /\ \A o \in GwSlots : gwGen[o] <= gwGen'[o]
         /\ \A o \in GwSlots : gwGen'[o] = gwGen[o] => o # s
  BY DEF GwInv, GwTyped, GwBump

LEMMA ClaimSound ==
  ASSUME GwInv, NEW s \in GwSlots, NEW h \in GwOwners, GwClaimSlot(s, h)
  PROVE  GwInv'
<1>1. /\ gwHeld[s] = NoGw /\ gwClaims' = gwClaims + 1 /\ gwHeld' = [gwHeld EXCEPT ![s] = h]
      /\ gwClaim' = [gwClaim EXCEPT ![s] = gwClaims + 1] /\ GwBump(s)
      /\ UNCHANGED <<gwKey, gwBinding, gwRequest>>
  BY DEF GwClaimSlot
<1>2. GwTyped'
  BY <1>1, BumpMoves DEF GwInv, GwTyped, gwRequest
<1>3. gwBinding[s].owner = NoGw /\ h # NoGw
  BY <1>1, GatewayAssumption DEF GwInv, StoreKept, NoBinding
<1>4. StoreKept'
  BY <1>1, <1>3 DEF GwInv, GwTyped, StoreKept, OneSlotForAnAccount, binding_ready
<1>5. gwKey' = gwKey /\ gwKey \in GwKeys \cup {NoGw} /\ (gwKey # NoGw => gwKey.edits \in Nat)
  BY <1>1 DEF GwInv, GwTyped, GwKeys
<1>6. \A o \in GwSlots : gwGen'[o] = gwGen[o] => gwClaim'[o] = gwClaim[o]
  BY <1>1, BumpMoves DEF GwInv, GwTyped
<1>7. SnapshotKept' /\ LateOnce' /\ FramesKept'
  BY <1>1, <1>5, <1>6, BumpMoves, UnderARequest
<1> QED
  BY <1>2, <1>4, <1>7 DEF GwInv

LEMMA ReleaseSound ==
  ASSUME GwInv, NEW s \in GwSlots, GwReleaseSlot(s)
  PROVE  GwInv'
<1>1. /\ gwHeld' = [gwHeld EXCEPT ![s] = NoGw] /\ gwClaim' = [gwClaim EXCEPT ![s] = 0]
      /\ gwBinding' = [gwBinding EXCEPT ![s] = NoBinding] /\ GwBump(s)
      /\ UNCHANGED <<gwClaims, gwKey, gwRequest>>
  BY DEF GwReleaseSlot
<1>2. GwTyped'
  BY <1>1, BumpMoves DEF GwInv, GwTyped, gwRequest, BindingRow, NoBinding
<1>3. StoreKept'
  BY <1>1 DEF GwInv, GwTyped, StoreKept, OneSlotForAnAccount, binding_ready
<1>5. gwKey' = gwKey /\ gwKey \in GwKeys \cup {NoGw} /\ (gwKey # NoGw => gwKey.edits \in Nat)
  BY <1>1 DEF GwInv, GwTyped, GwKeys
<1>6. \A o \in GwSlots : gwGen'[o] = gwGen[o] => gwClaim'[o] = gwClaim[o]
  BY <1>1, BumpMoves DEF GwInv, GwTyped
<1>7. SnapshotKept' /\ LateOnce' /\ FramesKept'
  BY <1>1, <1>5, <1>6, BumpMoves, UnderARequest
<1> QED
  BY <1>2, <1>3, <1>7 DEF GwInv

LEMMA StirSound ==
  ASSUME GwInv, NEW s \in GwSlots, GwSlotStirs(s)
  PROVE  GwInv'
<1>1. GwBump(s) /\ UNCHANGED <<gwHeld, gwClaim, gwClaims, gwKey, gwBinding, gwRequest>>
  BY DEF GwSlotStirs
<1>2. GwTyped'
  BY <1>1, BumpMoves DEF GwInv, GwTyped, gwRequest
<1>3. StoreKept'
  BY <1>1 DEF GwInv, StoreKept, OneSlotForAnAccount, binding_ready
<1>5. gwKey' = gwKey /\ gwKey \in GwKeys \cup {NoGw} /\ (gwKey # NoGw => gwKey.edits \in Nat)
  BY <1>1 DEF GwInv, GwTyped, GwKeys
<1>6. \A o \in GwSlots : gwGen'[o] = gwGen[o] => gwClaim'[o] = gwClaim[o]
  BY <1>1, BumpMoves DEF GwInv, GwTyped
<1>7. SnapshotKept' /\ LateOnce' /\ FramesKept'
  BY <1>1, <1>5, <1>6, BumpMoves, UnderARequest
<1> QED
  BY <1>2, <1>3, <1>7 DEF GwInv

(* The key's generation moves with its edits.                               *)
LEMMA KeyMoves ==
  ASSUME GwInv, gwKey # NoGw, NEW over \in BOOLEAN,
         gwKey' = [gwKey EXCEPT !.revoked = over, !.gen = @ + 1, !.edits = @ + 1]
  PROVE  /\ gwKey' \in GwKeys /\ gwKey' # NoGw
         /\ gwKey'.edits >= gwKey.edits /\ gwKey'.gen = gwKey'.edits + 1
<1>1. gwKey \in GwKeys /\ gwKey.gen = gwKey.edits + 1
  BY DEF GwInv, GwTyped, StoreKept
<1>2. gwKey.edits \in Nat /\ gwKey.gen \in Nat
  BY <1>1 DEF GwKeys
<1>3. /\ gwKey' = [gwKey EXCEPT !.revoked = over, !.gen = gwKey.gen + 1, !.edits = gwKey.edits + 1]
      /\ gwKey'.edits = gwKey.edits + 1 /\ gwKey'.gen = gwKey.gen + 1
  BY <1>1 DEF GwKeys
<1> DEFINE gen == gwKey.gen + 1  edits == gwKey.edits + 1
<1>4. gen \in Nat /\ edits \in Nat
  BY <1>2
<1> HIDE DEF gen, edits
<1>5. \A x, y \in Nat : [gwKey EXCEPT !.revoked = over, !.gen = x, !.edits = y] \in GwKeys
  BY <1>1 DEF GwKeys
<1>6. gwKey' \in GwKeys
  BY <1>3, <1>4, <1>5 DEF gen, edits
<1> QED
  BY <1>1, <1>2, <1>3, <1>6, GatewayAssumption

LEMMA InvalidateMoves ==
  ASSUME GwInv, NEW s \in GwSlots, _invalidate_provider_keys(s)
  PROVE  /\ gwKey' \in GwKeys \cup {NoGw}
         /\ gwKey # NoGw => gwKey' # NoGw /\ gwKey'.edits >= gwKey.edits
         /\ gwKey' # NoGw => gwKey'.gen = gwKey'.edits + 1
<1>1. CASE UNCHANGED gwKey
  <2>1. gwKey # NoGw => gwKey.edits \in Nat
    BY DEF GwInv, GwTyped, GwKeys
  <2> QED
    BY <1>1, <2>1 DEF GwInv, GwTyped, StoreKept
<1>2. CASE gwKey # NoGw /\ ~gwKey.revoked /\ gwKey' = [gwKey EXCEPT !.gen = @ + 1, !.edits = @ + 1]
  <2>1. gwKey' = [gwKey EXCEPT !.revoked = FALSE, !.gen = @ + 1, !.edits = @ + 1]
    <3>1. gwKey \in GwKeys /\ gwKey.revoked = FALSE
      BY <1>2 DEF GwInv, GwTyped, GwKeys
    <3> QED
      BY <1>2, <3>1 DEF GwKeys
  <2> QED
    BY <1>2, <2>1, KeyMoves
<1> QED
  BY <1>1, <1>2, Zenon DEF _invalidate_provider_keys

LEMMA BindSound ==
  ASSUME GwInv, NEW s \in GwSlots, NEW fp \in GwFingerprints, bind_gateway_provider(s, fp)
  PROVE  GwInv'
<1> DEFINE row == [claim |-> gwClaim[s], owner |-> gwHeld[s], fp |-> fp, state |-> "fresh"]
<1>1. /\ gwHeld[s] # NoGw /\ ~BoundElsewhere(s, fp)
      /\ gwBinding' = [gwBinding EXCEPT ![s] = row]
      /\ UNCHANGED gwKey \/ _invalidate_provider_keys(s)
      /\ UNCHANGED <<gwSlotVars, gwRequest>>
  BY DEF bind_gateway_provider, Bindable
<1>2. /\ gwKey' \in GwKeys \cup {NoGw}
      /\ gwKey # NoGw => gwKey' # NoGw /\ gwKey'.edits >= gwKey.edits
      /\ gwKey' # NoGw => gwKey'.gen = gwKey'.edits + 1
  <2>1. gwKey # NoGw => gwKey.edits \in Nat
    BY DEF GwInv, GwTyped, GwKeys
  <2> QED
    BY <1>1, <2>1, InvalidateMoves DEF GwInv, GwTyped, StoreKept
<1>3. row \in BindingRow /\ row.fp = fp /\ row.owner = gwHeld[s]
  BY DEF GwInv, GwTyped, BindingRow
<1> HIDE DEF row
<1>4. GwTyped'
  BY <1>1, <1>2, <1>3 DEF GwInv, GwTyped, gwSlotVars, gwRequest
<1>5. \A o \in GwSlots \ {s} : gwBinding'[o] = gwBinding[o]
      /\ (binding_ready(o) => gwBinding[o].fp # fp)
  BY <1>1 DEF GwInv, GwTyped, BoundElsewhere, binding_ready
<1>6. gwBinding'[s] = row
  BY <1>1 DEF GwInv, GwTyped
<1>7. \A o \in GwSlots \ {s} : binding_ready(o)' <=> binding_ready(o)
  BY <1>1, <1>5 DEF binding_ready, gwSlotVars
<1>8. OneSlotForAnAccount'
  BY <1>3, <1>5, <1>6, <1>7 DEF GwInv, StoreKept, OneSlotForAnAccount
<1>9. StoreKept'
  BY <1>1, <1>2, <1>5, <1>8 DEF GwInv, StoreKept, gwSlotVars
<1>10. SnapshotKept' /\ LateOnce' /\ FramesKept'
  <2>1. UNCHANGED <<gwGen, gwClaim, gwRequest>> /\ \A o \in GwSlots : gwGen[o] \in Nat
    BY <1>1 DEF gwSlotVars, GwInv, GwTyped
  <2> QED
    BY <1>2, <2>1, UnderARequest DEF GwInv, GwTyped
<1> QED
  BY <1>4, <1>9, <1>10 DEF GwInv

LEMMA UnbindSound ==
  ASSUME GwInv, NEW s \in GwSlots, revoke_gateway_provider_binding(s)
  PROVE  GwInv'
<1>1. /\ gwHeld[s] # NoGw /\ gwBinding' = [gwBinding EXCEPT ![s].state = "revoked"]
      /\ _invalidate_provider_keys(s) /\ UNCHANGED <<gwSlotVars, gwRequest>>
  BY DEF revoke_gateway_provider_binding
<1>2. /\ gwKey' \in GwKeys \cup {NoGw}
      /\ gwKey # NoGw => gwKey' # NoGw /\ gwKey'.edits >= gwKey.edits
      /\ gwKey' # NoGw => gwKey'.gen = gwKey'.edits + 1
  BY <1>1, InvalidateMoves
<1>3. gwBinding' \in [GwSlots -> BindingRow] /\ gwBinding'[s].state = "revoked"
      /\ \A o \in GwSlots \ {s} : gwBinding'[o] = gwBinding[o]
  BY <1>1 DEF GwInv, GwTyped, BindingRow
<1>4. GwTyped'
  BY <1>1, <1>2, <1>3 DEF GwInv, GwTyped, gwSlotVars, gwRequest
<1>5. \A o \in GwSlots : binding_ready(o)' => o # s /\ binding_ready(o)
  BY <1>1, <1>3 DEF binding_ready, gwSlotVars
<1>6. StoreKept'
  BY <1>1, <1>2, <1>3, <1>5 DEF GwInv, StoreKept, OneSlotForAnAccount, gwSlotVars
<1>7. SnapshotKept' /\ LateOnce' /\ FramesKept'
  <2>1. UNCHANGED <<gwGen, gwClaim, gwRequest>> /\ \A o \in GwSlots : gwGen[o] \in Nat
    BY <1>1 DEF gwSlotVars, GwInv, GwTyped
  <2> QED
    BY <1>2, <2>1, UnderARequest DEF GwInv, GwTyped
<1> QED
  BY <1>4, <1>6, <1>7 DEF GwInv

(* A step that changes nothing but the key.                                 *)
LEMMA KeyStepSound ==
  ASSUME GwInv, UNCHANGED <<gwSlotVars, gwBinding, gwRequest>>,
         gwKey' \in GwKeys, gwKey' # NoGw, gwKey'.gen = gwKey'.edits + 1,
         gwKey # NoGw => gwKey'.edits >= gwKey.edits
  PROVE  GwInv'
<1>1. GwTyped'
  BY DEF GwInv, GwTyped, gwSlotVars, gwRequest
<1>2. StoreKept'
  BY DEF GwInv, StoreKept, OneSlotForAnAccount, binding_ready, gwSlotVars
<1>3. UNCHANGED <<gwGen, gwClaim, gwRequest>> /\ \A o \in GwSlots : gwGen[o] \in Nat
  BY DEF gwSlotVars, GwInv, GwTyped
<1>4. SnapshotKept' /\ LateOnce' /\ FramesKept'
  BY <1>3, UnderARequest DEF GwInv, GwTyped
<1> QED
  BY <1>1, <1>2, <1>4 DEF GwInv

(* A selection is a sequence of slots, whose claims are noted with it.      *)
LEMMA ChosenIsAKey ==
  ASSUME GwInv, NEW h \in GwOwners, NEW p \in Providers, NEW slots \in Selections
  PROVE  Chosen(h, p, slots) \in GwKeys
<1>1. PICK m \in Nat : slots \in [1..m -> GwSlots]
  BY DEF Selections, SeqOf
<1>2. slots \in Seq(GwSlots)
  BY <1>1
<1>3. [i \in DOMAIN slots |-> gwClaim[slots[i]]] \in [1..m -> Nat]
  BY <1>1 DEF GwInv, GwTyped
<1>4. [i \in DOMAIN slots |-> gwClaim[slots[i]]] \in Seq(Nat)
  BY <1>3
<1> QED
  BY <1>2, <1>4 DEF Chosen, GwKeys

LEMMA CreateKeySound ==
  ASSUME GwInv, NEW h \in GwOwners, NEW p \in Providers, NEW slots \in Selections,
         create_gateway_key(h, p, slots)
  PROVE  GwInv'
<1>1. /\ gwKey = NoGw /\ gwKey' = Chosen(h, p, slots)
      /\ UNCHANGED <<gwSlotVars, gwBinding, gwRequest>>
  BY DEF create_gateway_key
<1>2. gwKey' \in GwKeys /\ gwKey' # NoGw
  BY <1>1, ChosenIsAKey, GatewayAssumption
<1>3. gwKey'.gen = 1 /\ gwKey'.edits = 0
  BY <1>1 DEF Chosen
<1> QED
  BY <1>1, <1>2, <1>3, KeyStepSound

LEMMA UpdateKeySound ==
  ASSUME GwInv, NEW p \in Providers, NEW slots \in Selections, update_gateway_key(p, slots)
  PROVE  GwInv'
<1> DEFINE new == Chosen(gwKey.account, p, slots)
<1>1. /\ gwKey # NoGw /\ gwKey' = Edited(new) /\ UNCHANGED <<gwSlotVars, gwBinding, gwRequest>>
  BY DEF update_gateway_key
<1>2. gwKey \in GwKeys /\ gwKey.gen = gwKey.edits + 1 /\ gwKey.account \in GwOwners
      /\ gwKey.edits \in Nat
  BY <1>1 DEF GwInv, GwTyped, StoreKept, GwKeys
<1>3. new \in GwKeys
  BY <1>2, ChosenIsAKey
<1> HIDE DEF new
<1>4. \A x, y \in Nat : [new EXCEPT !.gen = x, !.edits = y] \in GwKeys
  BY <1>3 DEF GwKeys
<1>5. gwKey.gen + 1 \in Nat /\ gwKey.edits + 1 \in Nat
  BY <1>2
<1>6. gwKey' \in GwKeys
  BY <1>1, <1>4, <1>5 DEF Edited
<1>7. gwKey'.gen = gwKey.gen + 1 /\ gwKey'.edits = gwKey.edits + 1
  BY <1>1, <1>3 DEF Edited, GwKeys
<1> QED
  BY <1>1, <1>2, <1>6, <1>7, KeyStepSound, GatewayAssumption

LEMMA RevokeKeySound == ASSUME GwInv, revoke_gateway_key PROVE GwInv'
<1>1. gwKey # NoGw /\ gwKey' = [gwKey EXCEPT !.revoked = TRUE, !.gen = @ + 1, !.edits = @ + 1]
      /\ UNCHANGED <<gwSlotVars, gwBinding, gwRequest>>
  BY DEF revoke_gateway_key
<1> QED
  BY <1>1, KeyMoves, KeyStepSound

LEMMA RenameSound == ASSUME GwInv, _rename_gateway_slots PROVE GwInv'
<1>1. /\ gwKey # NoGw /\ ~gwKey.revoked /\ gwKey' = [gwKey EXCEPT !.gen = @ + 1, !.edits = @ + 1]
      /\ UNCHANGED <<gwSlotVars, gwBinding, gwRequest>>
  BY DEF _rename_gateway_slots
<1>2. gwKey' = [gwKey EXCEPT !.revoked = FALSE, !.gen = @ + 1, !.edits = @ + 1]
  <2>1. gwKey \in GwKeys /\ gwKey.revoked = FALSE
    BY <1>1 DEF GwInv, GwTyped, GwKeys
  <2> QED
    BY <1>1, <2>1 DEF GwKeys
<1> QED
  BY <1>1, <1>2, KeyMoves, KeyStepSound

(* A request moves over a store that stays.                                 *)
LEMMA RequestStep ==
  ASSUME GwInv, UNCHANGED gwStore, gwReq' \in GwRequests \cup {NoGw},
         gwFrames' \in Seq(Frames), gwLate' \in Nat, SnapshotKept', LateOnce', FramesKept'
  PROVE  GwInv'
<1>1. GwTyped'
  BY DEF GwInv, GwTyped, gwStore, gwSlotVars
<1>2. StoreKept'
  BY DEF GwInv, StoreKept, OneSlotForAnAccount, binding_ready, gwStore, gwSlotVars
<1> QED
  BY <1>1, <1>2 DEF GwInv

Unsent == {"keyed", "trying", "starting", "begun"}

LEMMA RequestFields ==
  ASSUME GwInv, gwReq # NoGw
  PROVE  /\ gwReq \in GwRequests /\ gwKey \in GwKeys /\ gwKey # NoGw
         /\ gwReq.edits \in Nat /\ gwKey.edits \in Nat /\ gwReq.pos \in Nat
         /\ gwReq.gen = gwReq.edits + 1 /\ gwKey.gen = gwKey.edits + 1
         /\ gwReq.targets \in Seq(TargetRow)
         /\ \A i \in DOMAIN gwReq.targets :
              gwReq.targets[i] \in TargetRow /\ gwReq.targets[i].slot \in GwSlots
<1>1. gwReq \in GwRequests /\ gwKey \in GwKeys
  BY DEF GwInv, GwTyped, SnapshotKept
<1>2. gwReq.targets \in Seq(TargetRow)
  BY <1>1 DEF GwRequests, GwSteps, TargetRow
<1>3. \A i \in DOMAIN gwReq.targets : gwReq.targets[i] \in TargetRow
  BY <1>2
<1>4. \A t \in TargetRow : t.slot \in GwSlots
  BY DEF TargetRow
<1> QED
  BY <1>1, <1>2, <1>3, <1>4 DEF GwInv, SnapshotKept, StoreKept, GwKeys, GwRequests

(* The request goes on, or on to another slot, with its frames as they are. *)
LEMMA RequestMoves ==
  ASSUME GwInv, gwReq # NoGw, UNCHANGED <<gwStore, gwFrames, gwLate>>,
         NEW pc \in GwSteps, NEW pos \in Nat,
         gwReq' = [gwReq EXCEPT !.pc = pc, !.pos = pos],
         pc # "keyed", pc # "done" => pos \in DOMAIN gwReq.targets,
         gwLate # 0 => pc \in {"answering", "done"} /\ pos = gwReq.pos,
         pc \in Unsent => gwReq.pc \in Unsent,
         pc = "sent" => gwFrames # <<>>
  PROVE  GwInv'
<1>1. /\ gwReq' \in GwRequests /\ gwReq'.pc = pc /\ gwReq'.pos = pos
      /\ gwReq'.gen = gwReq.gen /\ gwReq'.edits = gwReq.edits
      /\ gwReq'.provider = gwReq.provider /\ gwReq'.targets = gwReq.targets
  BY RequestFields DEF GwRequests, GwSteps
<1>2. gwReq' # NoGw
  BY <1>1, GatewayAssumption
<1>3. UNCHANGED <<gwKey, gwGen, gwClaim>>
  BY DEF gwStore, gwSlotVars
<1>4. SnapshotKept'
  BY <1>1, <1>3 DEF GwInv, SnapshotKept
<1>5. LateOnce'
  BY <1>1, <1>2, <1>3 DEF GwInv, LateOnce, GwChanged, Target
<1>6. FramesKept'
  BY <1>1, <1>2 DEF GwInv, FramesKept, Unsent
<1> QED
  BY <1>1, <1>4, <1>5, <1>6, RequestStep DEF GwInv, GwTyped

LEMMA RequestGoes ==
  ASSUME GwInv, gwReq # NoGw, UNCHANGED <<gwStore, gwFrames, gwLate>>, NEW pc \in GwSteps, GwTo(pc),
         pc # "keyed", pc # "done" => gwReq.pc \notin {"keyed", "done"},
         gwLate # 0 => pc \in {"answering", "done"},
         pc \in Unsent => gwReq.pc \in Unsent,
         pc = "sent" => gwFrames # <<>>
  PROVE  GwInv'
<1>1. gwReq' = [gwReq EXCEPT !.pc = pc, !.pos = gwReq.pos]
  BY RequestFields DEF GwTo, GwRequests
<1> QED
  BY <1>1, RequestFields, RequestMoves DEF GwInv, SnapshotKept

LEMMA RequestTriesTheNext ==
  ASSUME GwInv, gwReq # NoGw, UNCHANGED <<gwStore, gwFrames, gwLate>>, GwNextSlot,
         gwReq.pc \in {"trying", "starting"}, gwReq.pos < Len(gwReq.targets)
  PROVE  GwInv'
<1>1. gwReq' = [gwReq EXCEPT !.pc = "trying", !.pos = gwReq.pos + 1]
  BY RequestFields DEF GwNextSlot, GwRequests
<1>2. gwReq.pos + 1 \in DOMAIN gwReq.targets /\ gwReq.pos + 1 \in Nat
  BY RequestFields
<1>3. gwLate = 0
  BY DEF GwInv, LateOnce
<1> QED
  BY <1>1, <1>2, <1>3, RequestMoves DEF Unsent, GwSteps

(* A request that is still let in has seen no change.                       *)
LEMMA AuthorizedUnchanged ==
  ASSUME GwInv, gwReq # NoGw, gwReq.pc \notin {"keyed", "done"}, _authorized(gwReq, Target)
  PROVE  ~GwChanged
<1>1. gwKey.edits = gwReq.edits
  BY RequestFields DEF _authorized
<1>2. PICK now \in _gateway_targets : now.slot = Target.slot /\ now.gen = Target.gen
  BY DEF _authorized
<1>3. now.gen = gwGen[now.slot]
  BY <1>2, RequestFields DEF _gateway_targets
<1>4. Target.gen = gwGen[Target.slot]
  BY <1>2, <1>3
<1>5. Target.claim = gwClaim[Target.slot]
  BY <1>4 DEF GwInv, SnapshotKept, Target
<1> QED
  BY <1>1, <1>4, <1>5 DEF GwChanged

(* Nothing was written late of an answer that has not begun.                *)
LEMMA NotLate ==
  ASSUME GwInv, gwReq # NoGw, gwReq.pc \notin {"answering", "done"}
  PROVE  gwLate = 0
  BY DEF GwInv, LateOnce

LEMMA AuthenticateSound == ASSUME GwInv, authenticate PROVE GwInv'
<1> DEFINE new == [pc |-> "keyed", gen |-> gwKey.gen, edits |-> gwKey.edits,
                   provider |-> gwKey.provider, targets |-> << >>, pos |-> 1, pinned |-> FALSE,
                   chunks |-> 0]
<1>1. /\ gwReq = NoGw /\ gwKey # NoGw /\ gwReq' = new /\ UNCHANGED <<gwStore, gwFrames, gwLate>>
  BY DEF authenticate
<1>2. gwKey \in GwKeys /\ gwKey.gen = gwKey.edits + 1
  BY <1>1 DEF GwInv, GwTyped, StoreKept
<1>3. new \in GwRequests
  BY <1>2 DEF GwRequests, GwSteps, GwKeys
<1>4. gwFrames = <<>> /\ gwLate = 0 /\ UNCHANGED gwKey
  BY <1>1 DEF GwInv, FramesKept, LateOnce, gwStore
<1>5. SnapshotKept'
  <2>1. gwKey.edits \in Nat
    BY <1>2 DEF GwKeys
  <2> QED
    BY <1>1, <1>2, <1>4, <2>1 DEF SnapshotKept
<1>6. LateOnce' /\ FramesKept'
  BY <1>1, <1>4 DEF LateOnce, FramesKept
<1> QED
  BY <1>1, <1>3, <1>5, <1>6, RequestStep DEF GwInv, GwTyped

(* The targets a key has now are what the store has of them.                *)
LEMMA TargetsAreNow ==
  ASSUME GwInv, NEW t \in _gateway_targets
  PROVE  t \in TargetRow /\ t.gen = gwGen[t.slot] /\ t.claim = gwClaim[t.slot]
<1>1. gwKey # NoGw /\ gwKey \in GwKeys
  BY DEF _gateway_targets, GwInv, GwTyped
<1>2. PICK i \in DOMAIN gwKey.slots :
        /\ t = [slot |-> gwKey.slots[i], gen |-> gwGen[gwKey.slots[i]], claim |-> gwKey.claims[i]]
        /\ gwKey.claims[i] = gwClaim[gwKey.slots[i]]
  BY DEF _gateway_targets
<1>3. gwKey.slots[i] \in GwSlots
  <2>1. gwKey.slots \in Seq(GwSlots)
    BY <1>1 DEF GwKeys
  <2> QED
    BY <2>1
<1> QED
  BY <1>2, <1>3 DEF TargetRow, GwInv, GwTyped

LEMMA TargetsAreFinite ==
  ASSUME GwInv, gwKey # NoGw
  PROVE  IsFiniteSet(_gateway_targets)
<1>1. gwKey \in GwKeys
  BY DEF GwInv, GwTyped
<1>2. gwKey.slots \in Seq(GwSlots)
  BY <1>1 DEF GwKeys
<1> DEFINE n == Len(gwKey.slots)
           f == [i \in 1..n |->
                   [slot |-> gwKey.slots[i], gen |-> gwGen[gwKey.slots[i]], claim |-> gwKey.claims[i]]]
           T == {f[i] : i \in 1..n}
<1>3. n \in Nat /\ DOMAIN gwKey.slots = 1..n
  BY <1>2
<1>4. IsFiniteSet(1..n)
  BY <1>3, FS_Interval
<1>5. f \in Surjection(1..n, T)
  BY DEF Surjection
<1>6. IsFiniteSet(T)
  BY <1>4, <1>5, FS_Surjection
<1>7. _gateway_targets \subseteq T
  BY <1>3 DEF _gateway_targets
<1> QED
  BY <1>6, <1>7, FS_Subset

LEMMA TargetsSound == ASSUME GwInv, _targets PROVE GwInv'
<1>1. GwIn("keyed") /\ UNCHANGED <<gwStore, gwFrames, gwLate>> /\ gwReq # NoGw /\ gwReq.pc = "keyed"
  BY DEF _targets, GwIn
<1>2. PICK paid \in SUBSET (IF gwKey.gen = gwReq.gen THEN _gateway_targets ELSE {}) :
        IF paid = {} THEN GwTo("done")
        ELSE \E order \in SetToSeqs(paid), pinned \in BOOLEAN :
               gwReq' = [gwReq EXCEPT !.pc = "trying", !.pinned = pinned,
                                      !.targets = IF pinned THEN <<order[1]>> ELSE order]
  BY DEF _targets
<1>3. CASE paid = {}
  BY <1>1, <1>2, <1>3, RequestGoes DEF Unsent, GwSteps
<1>4. CASE paid # {}
  <2>1. PICK order \in SetToSeqs(paid), pinned \in BOOLEAN :
          gwReq' = [gwReq EXCEPT !.pc = "trying", !.pinned = pinned,
                                 !.targets = IF pinned THEN <<order[1]>> ELSE order]
    BY <1>2, <1>4
  <2> DEFINE chosen == IF pinned THEN <<order[1]>> ELSE order
  <2>2. paid \subseteq _gateway_targets
    BY <1>2
  <2>3. IsFiniteSet(paid)
    BY <1>1, <2>2, RequestFields, TargetsAreFinite, FS_Subset
  <2>4. Cardinality(paid) \in Nat \ {0}
    BY <1>4, <2>3, FS_CardinalityType, FS_EmptySet
  <2>5. order \in Seq(paid) /\ Len(order) > 0 /\ order[1] \in paid
    <3>1. order \in [1..Cardinality(paid) -> paid]
      BY DEF SetToSeqs
    <3> QED
      BY <2>4, <3>1
  <2>6. chosen \in Seq(paid) /\ 1 \in DOMAIN chosen
    BY <2>5
  <2>7. \A t \in paid : t \in TargetRow /\ t.gen = gwGen[t.slot] /\ t.claim = gwClaim[t.slot]
    BY <2>2, TargetsAreNow
  <2> HIDE DEF chosen
  <2>8. \A i \in DOMAIN chosen : chosen[i] \in paid
    BY <2>6
  <2>9. chosen \in Seq(TargetRow)
    BY <2>6, <2>7
  <2>10. /\ gwReq' = [gwReq EXCEPT !.pc = "trying", !.pinned = pinned, !.targets = chosen]
    BY <2>1 DEF chosen
  <2>11. /\ gwReq' \in GwRequests /\ gwReq'.pc = "trying" /\ gwReq'.targets = chosen
         /\ gwReq'.gen = gwReq.gen /\ gwReq'.edits = gwReq.edits
         /\ gwReq'.provider = gwReq.provider /\ gwReq'.pos = gwReq.pos
    BY <1>1, <2>9, <2>10, RequestFields DEF GwRequests, GwSteps, TargetRow
  <2>12. gwReq'.pos = 1 /\ gwReq' # NoGw
    BY <1>1, <2>11, GatewayAssumption DEF GwInv, SnapshotKept
  <2>13. UNCHANGED <<gwKey, gwGen, gwClaim>> /\ gwLate = 0
    BY <1>1, NotLate DEF gwStore, gwSlotVars
  <2>14. SnapshotKept'
    <3>1. \A i \in DOMAIN chosen :
            /\ chosen[i].gen <= gwGen[chosen[i].slot]
            /\ chosen[i].gen = gwGen[chosen[i].slot] => chosen[i].claim = gwClaim[chosen[i].slot]
      <4>1. \A t \in TargetRow : t.gen \in Nat
        BY DEF TargetRow
      <4> QED
        BY <2>7, <2>8, <4>1
    <3> QED
      BY <1>1, <2>6, <2>11, <2>12, <2>13, <3>1 DEF GwInv, SnapshotKept
  <2>15. LateOnce' /\ FramesKept'
    BY <1>1, <2>11, <2>12, <2>13 DEF LateOnce, GwInv, FramesKept
  <2> QED
    BY <1>1, <2>11, <2>14, <2>15, RequestStep DEF GwInv, GwTyped
<1> QED
  BY <1>3, <1>4

LEMMA TrySound == ASSUME GwInv, TrySlot PROVE GwInv'
<1>1. /\ gwReq # NoGw /\ gwReq.pc = "trying" /\ UNCHANGED <<gwStore, gwFrames, gwLate>>
      /\ \/ GwTo("done") \/ GwTo("starting")
         \/ gwReq.pos < Len(gwReq.targets) /\ GwNextSlot
  BY DEF TrySlot, GwIn
<1>2. gwLate = 0
  BY <1>1, NotLate
<1> QED
  BY <1>1, <1>2, RequestGoes, RequestTriesTheNext DEF Unsent, GwSteps

LEMMA StartFailsSound == ASSUME GwInv, StartFails PROVE GwInv'
<1>1. /\ gwReq # NoGw /\ gwReq.pc = "starting" /\ UNCHANGED <<gwStore, gwFrames, gwLate>>
      /\ GwTo("done") \/ (gwReq.pos < Len(gwReq.targets) /\ GwNextSlot)
  BY DEF StartFails, GwIn, More
<1>2. gwLate = 0
  BY <1>1, NotLate
<1> QED
  BY <1>1, <1>2, RequestGoes, RequestTriesTheNext DEF Unsent, GwSteps

LEMMA AdmittedSound == ASSUME GwInv, admitted_before_send PROVE GwInv'
<1>1. /\ gwReq # NoGw /\ gwReq.pc = "starting" /\ UNCHANGED <<gwStore, gwFrames, gwLate>>
      /\ GwTo("done") \/ GwTo("begun")
  BY DEF admitted_before_send, GwIn
<1>2. gwLate = 0
  BY <1>1, NotLate
<1> QED
  BY <1>1, <1>2, RequestGoes DEF Unsent, GwSteps

LEMMA BreaksSound == ASSUME GwInv, StreamBreaks PROVE GwInv'
  BY RequestGoes DEF StreamBreaks, GwIn, Unsent, GwSteps

LEMMA ChunkCheckedSound == ASSUME GwInv, ChunkChecked PROVE GwInv'
<1>1. /\ gwReq # NoGw /\ gwReq.pc = "answering" /\ UNCHANGED <<gwStore, gwFrames, gwLate>>
      /\ GwTo("done") \/ (_authorized(gwReq, Target) /\ GwTo("writing"))
  BY DEF ChunkChecked, GwIn, ChunkAllowed
<1>2. CASE GwTo("done")
  BY <1>1, <1>2, RequestGoes DEF Unsent, GwSteps
<1>3. CASE _authorized(gwReq, Target) /\ GwTo("writing")
  <2>1. gwLate = 0
    BY <1>1, <1>3, AuthorizedUnchanged DEF GwInv, LateOnce
  <2> QED
    BY <1>1, <1>3, <2>1, RequestGoes DEF Unsent, GwSteps
<1> QED
  BY <1>1, <1>2, <1>3

LEMMA ChunkWrittenSound == ASSUME GwInv, ChunkWritten PROVE GwInv'
<1>1. /\ gwReq # NoGw /\ gwReq.pc = "writing" /\ UNCHANGED <<gwStore, gwFrames>>
      /\ gwReq' = [gwReq EXCEPT !.pc = "answering", !.chunks = @ + 1]
      /\ gwLate' = IF GwChanged THEN gwLate + 1 ELSE gwLate
  BY DEF ChunkWritten, GwIn
<1>2. gwLate = 0
  BY <1>1, NotLate
<1>3. /\ gwReq' \in GwRequests /\ gwReq'.pc = "answering" /\ gwReq'.pos = gwReq.pos
      /\ gwReq'.gen = gwReq.gen /\ gwReq'.edits = gwReq.edits
      /\ gwReq'.provider = gwReq.provider /\ gwReq'.targets = gwReq.targets
  <2>1. gwReq.chunks \in Nat /\ gwReq.chunks + 1 \in Nat
    BY <1>1, RequestFields DEF GwRequests, GwSteps
  <2>2. \A n \in Nat : [gwReq EXCEPT !.pc = "answering", !.chunks = n] \in GwRequests
    BY <1>1, RequestFields DEF GwRequests, GwSteps
  <2> QED
    BY <1>1, <2>1, <2>2, RequestFields DEF GwRequests, GwSteps
<1>4. gwReq' # NoGw /\ UNCHANGED <<gwKey, gwGen, gwClaim>>
  BY <1>1, <1>3, GatewayAssumption DEF gwStore, gwSlotVars
<1>5. SnapshotKept'
  BY <1>1, <1>3, <1>4 DEF GwInv, SnapshotKept
<1>6. LateOnce'
  <2>1. gwReq.pos \in DOMAIN gwReq.targets
    BY <1>1 DEF GwInv, SnapshotKept
  <2> QED
    BY <1>1, <1>2, <1>3, <1>4, <2>1 DEF LateOnce, GwChanged, Target
<1>7. FramesKept'
  BY <1>1, <1>3, <1>4 DEF GwInv, FramesKept
<1>8. gwLate' \in Nat
  BY <1>1, <1>2
<1> QED
  BY <1>1, <1>3, <1>5, <1>6, <1>7, <1>8, RequestStep DEF GwInv, GwTyped

(* The last frame is sent, or answered, and the request is elsewhere.       *)
LEMMA FrameStep ==
  ASSUME GwInv, gwReq # NoGw, gwReq.pc \in {"begun", "sent"}, UNCHANGED <<gwStore, gwLate>>,
         NEW pc \in GwSteps, NEW pos \in Nat, gwReq' = [gwReq EXCEPT !.pc = pc, !.pos = pos],
         pc # "keyed", pc # "done" => pos \in DOMAIN gwReq.targets,
         gwFrames' \in Seq(Frames), FramesKept'
  PROVE  GwInv'
<1>1. /\ gwReq' \in GwRequests /\ gwReq'.pc = pc /\ gwReq'.pos = pos
      /\ gwReq'.gen = gwReq.gen /\ gwReq'.edits = gwReq.edits
      /\ gwReq'.provider = gwReq.provider /\ gwReq'.targets = gwReq.targets
  BY RequestFields DEF GwRequests, GwSteps
<1>2. UNCHANGED <<gwKey, gwGen, gwClaim>> /\ gwLate = 0
  BY NotLate DEF gwStore, gwSlotVars
<1>3. SnapshotKept' /\ LateOnce'
  BY <1>1, <1>2 DEF GwInv, SnapshotKept, LateOnce
<1> QED
  BY <1>1, <1>3, RequestStep DEF GwInv, GwTyped

LEMMA SendSound == ASSUME GwInv, _send_to_slot PROVE GwInv'
<1>1. /\ gwReq # NoGw /\ gwReq.pc = "begun" /\ UNCHANGED <<gwStore, gwLate>>
      /\ GwTo("sent") /\ gwFrames' = Append(gwFrames, "unanswered")
  BY DEF _send_to_slot, GwIn
<1>2. gwReq' = [gwReq EXCEPT !.pc = "sent", !.pos = gwReq.pos]
  BY <1>1, RequestFields DEF GwTo, GwRequests
<1>3. gwReq'.pc = "sent" /\ gwReq'.provider = gwReq.provider /\ gwReq' # NoGw
  <2>1. gwReq' \in GwRequests /\ gwReq'.pc = "sent" /\ gwReq'.provider = gwReq.provider
    BY <1>1, <1>2, RequestFields DEF GwRequests, GwSteps
  <2> QED
    BY <2>1, GatewayAssumption
<1>4. /\ gwFrames \in Seq(Frames) /\ \A i \in 1..Len(gwFrames) : gwFrames[i] = "refused"
      /\ gwReq.provider = "devin" => gwFrames = <<>>
  BY <1>1 DEF GwInv, GwTyped, FramesKept
<1>5. gwFrames' \in Seq(Frames) /\ gwFrames' # <<>> /\ Len(gwFrames') = Len(gwFrames) + 1
      /\ \A i \in 1..Len(gwFrames) : gwFrames'[i] = "refused"
  BY <1>1, <1>4 DEF Frames
<1>6. FramesKept'
  BY <1>3, <1>4, <1>5 DEF FramesKept
<1> QED
  BY <1>1, <1>2, <1>5, <1>6, FrameStep, RequestFields DEF GwInv, SnapshotKept, GwSteps

(* The frame that was answered is the last.                                 *)
LEMMA LastFrame ==
  ASSUME GwInv, gwReq # NoGw, gwReq.pc = "sent", NEW f \in Frames,
         gwFrames' = [gwFrames EXCEPT ![Len(gwFrames)] = f]
  PROVE  /\ gwFrames' \in Seq(Frames) /\ Len(gwFrames') = Len(gwFrames) /\ gwFrames' # <<>>
         /\ \A i \in 1..Len(gwFrames) - 1 : gwFrames'[i] = "refused"
         /\ gwFrames'[Len(gwFrames)] = f
<1>1. /\ gwFrames \in Seq(Frames) /\ gwFrames # <<>>
      /\ \A i \in 1..Len(gwFrames) - 1 : gwFrames[i] = "refused"
  BY DEF GwInv, GwTyped, FramesKept
<1>2. Len(gwFrames) \in 1..Len(gwFrames) /\ Len(gwFrames) \in Nat
  BY <1>1
<1>3. gwFrames' \in Seq(Frames) /\ Len(gwFrames') = Len(gwFrames)
  BY <1>1, <1>2
<1>4. gwFrames' # <<>>
  BY <1>1, <1>2, <1>3
<1>5. ASSUME NEW i \in 1..Len(gwFrames) - 1
      PROVE  gwFrames'[i] = "refused"
  <2>1. i \in 1..Len(gwFrames) /\ i # Len(gwFrames)
    BY <1>2
  <2>2. gwFrames'[i] = gwFrames[i]
    BY <1>1, <2>1
  <2> QED
    BY <1>1, <2>2
<1>6. gwFrames'[Len(gwFrames)] = f
  BY <1>1, <1>2
<1> QED
  BY <1>3, <1>4, <1>5, <1>6

LEMMA RefusedSound == ASSUME GwInv, Refused PROVE GwInv'
<1>1. /\ gwReq # NoGw /\ gwReq.pc = "sent" /\ UNCHANGED <<gwStore, gwLate>>
      /\ gwFrames' = [gwFrames EXCEPT ![Len(gwFrames)] = "refused"]
      /\ GwTo("done") \/ (gwReq.provider # "devin" /\ gwReq.pos < Len(gwReq.targets) /\ GwNextSlot)
  BY DEF Refused, GwIn, More, Retriable
<1>2. /\ gwFrames' \in Seq(Frames) /\ Len(gwFrames') = Len(gwFrames) /\ Len(gwFrames) \in Nat
      /\ \A i \in 1..Len(gwFrames) : gwFrames'[i] = "refused"
  <2>1. /\ gwFrames' \in Seq(Frames) /\ Len(gwFrames') = Len(gwFrames)
        /\ \A i \in 1..Len(gwFrames) - 1 : gwFrames'[i] = "refused"
        /\ gwFrames'[Len(gwFrames)] = "refused"
    BY <1>1, LastFrame DEF Frames
  <2>2. Len(gwFrames) \in Nat
    BY DEF GwInv, GwTyped
  <2>3. \A i \in 1..Len(gwFrames) : i \in 1..Len(gwFrames) - 1 \/ i = Len(gwFrames)
    BY <2>2
  <2> QED
    BY <2>1, <2>2, <2>3
<1>3. gwReq.provider = "devin" => Len(gwFrames) <= 1
  BY <1>1 DEF GwInv, FramesKept
<1>4. CASE GwTo("done")
  <2>1. gwReq' = [gwReq EXCEPT !.pc = "done", !.pos = gwReq.pos]
    BY <1>1, <1>4, RequestFields DEF GwTo, GwRequests
  <2>2. gwReq' \in GwRequests /\ gwReq'.pc = "done" /\ gwReq'.provider = gwReq.provider
    BY <1>1, <2>1, RequestFields DEF GwRequests, GwSteps
  <2>3. FramesKept'
    BY <1>2, <1>3, <2>2, GatewayAssumption DEF FramesKept
  <2> QED
    BY <1>1, <1>2, <2>1, <2>3, FrameStep, RequestFields DEF GwSteps
<1>5. CASE gwReq.provider # "devin" /\ gwReq.pos < Len(gwReq.targets) /\ GwNextSlot
  <2>1. gwReq' = [gwReq EXCEPT !.pc = "trying", !.pos = gwReq.pos + 1]
    BY <1>1, <1>5, RequestFields DEF GwNextSlot, GwRequests
  <2>2. gwReq.pos + 1 \in DOMAIN gwReq.targets /\ gwReq.pos + 1 \in Nat
    BY <1>1, <1>5, RequestFields
  <2>3. gwReq' \in GwRequests /\ gwReq'.pc = "trying" /\ gwReq'.provider = gwReq.provider
    BY <1>1, <2>1, <2>2, RequestFields DEF GwRequests, GwSteps
  <2>4. FramesKept'
    BY <1>2, <1>5, <2>3, GatewayAssumption DEF FramesKept
  <2> QED
    BY <1>1, <1>2, <2>1, <2>2, <2>4, FrameStep DEF GwSteps
<1> QED
  BY <1>1, <1>4, <1>5

LEMMA AnsweredSound == ASSUME GwInv, GwAnswered PROVE GwInv'
<1>1. PICK pc \in {"done", "answering"} :
        /\ gwReq # NoGw /\ gwReq.pc = "sent" /\ UNCHANGED <<gwStore, gwLate>>
        /\ gwFrames' = [gwFrames EXCEPT ![Len(gwFrames)] = "answered"] /\ GwTo(pc)
  BY DEF GwAnswered, GwIn
<1>2. gwReq' = [gwReq EXCEPT !.pc = pc, !.pos = gwReq.pos]
  BY <1>1, RequestFields DEF GwTo, GwRequests
<1>3. gwReq' \in GwRequests /\ gwReq'.pc = pc /\ gwReq'.provider = gwReq.provider
  BY <1>1, <1>2, RequestFields DEF GwRequests, GwSteps
<1>4. /\ gwFrames' \in Seq(Frames) /\ Len(gwFrames') = Len(gwFrames)
      /\ \A i \in 1..Len(gwFrames) - 1 : gwFrames'[i] = "refused"
  BY <1>1, LastFrame DEF Frames
<1>5. FramesKept'
  BY <1>1, <1>3, <1>4, GatewayAssumption DEF GwInv, FramesKept
<1> QED
  BY <1>1, <1>2, <1>4, <1>5, FrameStep, RequestFields DEF GwInv, SnapshotKept, GwSteps

LEMMA AnotherSound == ASSUME GwInv, GwAnother PROVE GwInv'
<1>1. gwReq' = NoGw /\ gwFrames' = << >> /\ gwLate' = 0 /\ UNCHANGED gwStore
  BY DEF GwAnother
<1> QED
  BY <1>1, RequestStep DEF SnapshotKept, LateOnce, FramesKept

LEMMA GwStepSound ==
  ASSUME GwInv, GwNext \/ UNCHANGED gwVars
  PROVE  GwInv'
<1>1. CASE UNCHANGED gwVars
  <2>1. UNCHANGED gwStore /\ UNCHANGED <<gwReq, gwFrames, gwLate, gwKey, gwGen, gwClaim>>
    BY <1>1 DEF gwVars, gwRequest, gwStore, gwSlotVars
  <2>2. SnapshotKept' /\ FramesKept'
    BY <2>1 DEF GwInv, SnapshotKept, FramesKept
  <2>3. LateOnce'
    BY <2>1 DEF GwInv, LateOnce, GwChanged, Target
  <2> QED
    BY <2>1, <2>2, <2>3, RequestStep DEF GwInv, GwTyped
<1> QED
  BY <1>1, ClaimSound, ReleaseSound, StirSound, BindSound, UnbindSound, CreateKeySound,
     UpdateKeySound, RevokeKeySound, RenameSound, AuthenticateSound, TargetsSound, TrySound,
     StartFailsSound, AdmittedSound, SendSound, BreaksSound, RefusedSound, AnsweredSound,
     ChunkCheckedSound, ChunkWrittenSound, AnotherSound
  DEF GwNext

LEMMA GwInvGivesSound == GwInv => GatewaySound
  BY DEF GwInv, GwTyped, StoreKept, LateOnce, FramesKept, GatewaySound, OneChunkAfterChange,
         NotReplayed

(* However keys, slots and bindings change under a request, at most the one *)
(* chunk already let through is written after, a request the model may have *)
(* begun on is sent nowhere else, and no provider account serves two held   *)
(* slots at once (gateway.forward, gateway_transport, the store's           *)
(* gateway_request_is_active and bind_gateway_provider).                    *)
THEOREM GatewaySoundAlways == ServerSpec => []GatewaySound
<1>1. ServerInit => GwInv
  BY GwInitSound DEF ServerInit
<1>2. ASSUME GwInv, [ServerNext]_<<focus, siteVars, vars>>
      PROVE  GwInv'
  <2>1. GwNext \/ UNCHANGED gwVars
    BY <1>2 DEF ServerNext, OthersWait, siteVars
  <2> QED
    BY <1>2, <2>1, GwStepSound
<1>3. GwInv => GatewaySound
  BY GwInvGivesSound
<1> QED
  BY <1>1, <1>2, <1>3, PTL DEF ServerSpec

-----------------------------------------------------------------------------
(* Outages: the inductive invariant.                                        *)

OutageRow == [of : {Site} \cup OutMachines, start : Int, end : Int, told : BOOLEAN]
Kinds == {"down", "back", "site"}
EmailRow == [of : Nat, kind : Kinds, to : OutHolders, tries : Nat, sent : BOOLEAN]
KeyRow == [of : Nat, kind : Kinds, to : OutHolders]

OutTyped ==
  /\ minute \in Nat /\ listening \in Nat
  /\ heard \in [OutMachines -> Nat] /\ wrong \in [OutMachines -> Int]
  /\ counts \subseteq OutMachines /\ wants \subseteq OutHolders
  /\ outages \in Seq(OutageRow)
  /\ emails \subseteq EmailRow /\ owing \subseteq EmailRow /\ inbox \subseteq KeyRow

(* A machine has one outage open, and a start of the site one outage.       *)
OutagesApart ==
  /\ \A i, j \in DOMAIN outages :
       outages[i].end = -1 /\ outages[j].end = -1 /\ outages[i].of = outages[j].of => i = j
  /\ \A i, j \in DOMAIN outages :
       outages[i].of = Site /\ outages[j].of = Site /\ outages[i].start = outages[j].start => i = j

(* An email owed is of an outage, told or ended before it was owed, and is  *)
(* the only one of its key.                                                 *)
EmailsOwed ==
  /\ \A e \in emails :
       /\ e.of \in DOMAIN outages
       /\ e.kind = "down" => outages[e.of].told
       /\ e.kind = "back" => outages[e.of].end # -1
  /\ \A e, f \in emails : Key(e) = Key(f) => e = f

(* What Resend took: an email marked as sent; before one that says a        *)
(* machine is back, the one that said it was down.                          *)
DownOf(k) == [of |-> k.of, kind |-> "down", to |-> k.to]
DownBeforeBack ==
  /\ \A e \in emails : e.sent => Key(e) \in inbox
  /\ \A e \in emails \cup owing : e.kind = "back" => DownOf(e) \in inbox
  /\ \A k \in inbox : k.kind = "back" => DownOf(k) \in inbox

CountsKept ==
  /\ counted \in [first : Int, last : Int, green : Int, yellow : Int, red : Int]
  /\ IF counted.first = -1 THEN counted.last = -1 /\ counted.green + counted.yellow + counted.red = 0
     ELSE counted.last # -1 /\ counted.green + counted.yellow + counted.red
                                 = counted.last - counted.first + 1

(* The states a minute is judged by are still those of the machines.        *)
SnapTrue ==
  outPc = "judge" =>
    /\ DOMAIN snap \subseteq OutMachines
    /\ \A m \in DOMAIN snap :
         /\ snap[m].since \in Int
         /\ snap[m].level = "red" => wrong[m] # -1 \/ minute - heard[m] >= DownAfter
         /\ snap[m].level # "red" /\ OpenFor(m) # {} => minute - heard[m] < DownAfter

OutInv ==
  /\ OutTyped /\ OutagesApart /\ EmailsOwed /\ DownBeforeBack /\ CountsKept /\ SnapTrue

LEMMA OutInitSound == OutInit => OutInv
<1> SUFFICES ASSUME OutInit PROVE OutInv
  OBVIOUS
<1>1. OutTyped /\ OutagesApart /\ EmailsOwed /\ DownBeforeBack /\ SnapTrue
  BY DEF OutInit, OutTyped, OutagesApart, EmailsOwed, DownBeforeBack, SnapTrue
<1>2. CountsKept
  BY DEF OutInit, CountsKept
<1> QED
  BY <1>1, <1>2 DEF OutInv

(* A step that leaves the outages, and takes emails away at most.           *)
LEMMA OutagesStay ==
  ASSUME OutInv, UNCHANGED <<outages, inbox, counted>>, emails' \subseteq emails, owing' \subseteq owing,
         minute' \in Nat, listening' \in Nat, heard' \in [OutMachines -> Nat],
         wrong' \in [OutMachines -> Int], counts' \subseteq OutMachines, wants' \subseteq OutHolders,
         SnapTrue'
  PROVE  OutInv'
<1>1. OutTyped' /\ OutagesApart'
  BY DEF OutInv, OutTyped, OutagesApart
<1>2. EmailsOwed' /\ DownBeforeBack'
  BY DEF OutInv, EmailsOwed, DownBeforeBack, Key, DownOf
<1>3. CountsKept'
  BY DEF OutInv, CountsKept
<1> QED
  BY <1>1, <1>2, <1>3 DEF OutInv

LEMMA ClockSound == ASSUME OutInv, MinutePasses PROVE OutInv'
<1>1. /\ minute' = minute + 1 /\ outPc # "judge" /\ outPc' = outPc
      /\ UNCHANGED <<listening, heard, wrong, counts, counted, outages, emails, wants, owing, inbox>>
  BY DEF MinutePasses, Unlocked
<1> QED
  BY <1>1, OutagesStay DEF OutInv, OutTyped, SnapTrue

LEMMA HeardSound ==
  ASSUME OutInv, NEW m \in OutMachines, NEW bad \in BOOLEAN, RecordHeartbeat(m, bad)
  PROVE  OutInv'
<1>1. /\ outPc' # "judge" /\ heard' = [heard EXCEPT ![m] = minute]
      /\ wrong' = [wrong EXCEPT ![m] = IF ~bad THEN -1 ELSE IF @ = -1 THEN minute ELSE @]
      /\ UNCHANGED <<minute, listening, counts, counted, outages, emails, wants, owing, inbox>>
  BY DEF RecordHeartbeat
<1>2. heard' \in [OutMachines -> Nat] /\ wrong' \in [OutMachines -> Int]
  BY <1>1 DEF OutInv, OutTyped
<1> QED
  BY <1>1, <1>2, OutagesStay DEF OutInv, OutTyped, SnapTrue

LEMMA AroundSound ==
  ASSUME OutInv,
         \/ \E m \in OutMachines : SetCounts(m)
         \/ \E h \in OutHolders : set_outage_emails(h)
         \/ Stop \/ set_listening_since \/ MinuteDone
  PROVE  OutInv'
<1>1. ASSUME NEW m \in OutMachines, SetCounts(m) PROVE OutInv'
  <2>1. /\ outPc' # "judge" /\ counts' \subseteq OutMachines
        /\ UNCHANGED <<minute, listening, heard, wrong, counted, outages, emails, wants, owing, inbox>>
    BY <1>1 DEF SetCounts, Unlocked, OutInv, OutTyped
  <2> QED
    BY <2>1, OutagesStay DEF OutInv, OutTyped, SnapTrue
<1>2. ASSUME NEW h \in OutHolders, set_outage_emails(h) PROVE OutInv'
  <2>1. /\ emails' \subseteq emails /\ wants' \subseteq OutHolders
        /\ UNCHANGED <<minute, outPc, listening, heard, wrong, counts, snap, counted, outages, owing,
                       inbox>>
    BY <1>2 DEF set_outage_emails, OutInv, OutTyped
  <2>2. SnapTrue'
    BY <2>1 DEF OutInv, SnapTrue, OpenFor, OpenOutages
  <2> QED
    BY <2>1, <2>2, OutagesStay DEF OutInv, OutTyped
<1>3. CASE Stop \/ set_listening_since \/ MinuteDone
  <2>1. /\ outPc' # "judge" /\ owing' \subseteq owing /\ listening' \in {listening, minute}
        /\ UNCHANGED <<minute, heard, wrong, counts, counted, outages, emails, wants, inbox>>
    BY <1>3 DEF Stop, set_listening_since, MinuteDone
  <2> QED
    BY <2>1, OutagesStay DEF OutInv, OutTyped, SnapTrue
<1> QED
  BY <1>1, <1>2, <1>3

(* A machine's state is the worst of what is said of it.                    *)
LEMMA StateIsTheWorst ==
  ASSUME OutInv, NEW m \in OutMachines
  PROVE  LET w == WorstOf(Reasons(m)) IN
         /\ w.since \in Int
         /\ w.level = "red" => wrong[m] # -1 \/ minute - SinceFor(m) >= DownAfter
         /\ w.level # "red" => minute - SinceFor(m) < DownAfter
         /\ w.level = "red" => w \in Reasons(m)
<1> DEFINE from == SinceFor(m)
           w == WorstOf(Reasons(m))
<1>1. from \in Nat /\ minute \in Nat /\ wrong[m] \in Int /\ heard[m] \in Nat
  BY DEF OutInv, OutTyped, SinceFor
<1> DEFINE silent == [level |-> "red", since |-> from + DownAfter]
           late == [level |-> "yellow", since |-> from + LateAfter]
           alerted == [level |-> "red", since |-> wrong[m]]
<1>2. /\ minute - from >= DownAfter /\ wrong[m] = -1 => Reasons(m) = {silent}
      /\ minute - from >= DownAfter /\ wrong[m] # -1 => Reasons(m) = {silent, alerted}
      /\ minute - from < DownAfter /\ minute - from >= LateAfter /\ wrong[m] = -1 => Reasons(m) = {late}
      /\ minute - from < DownAfter /\ minute - from >= LateAfter /\ wrong[m] # -1
           => Reasons(m) = {late, alerted}
      /\ minute - from < LateAfter /\ wrong[m] = -1 => Reasons(m) = {}
      /\ minute - from < LateAfter /\ wrong[m] # -1 => Reasons(m) = {alerted}
  BY <1>1, OutagesAssumption DEF Reasons
<1> DEFINE Worst(r) == \A q \in Reasons(m) :
                         Rank[q.level] < Rank[r.level] \/ (q.level = r.level /\ r.since <= q.since)
<1>3. Reasons(m) # {} => \E r \in Reasons(m) : Worst(r)
  <2>1. CASE minute - from >= DownAfter /\ wrong[m] # -1
    <3>1. silent.since <= alerted.since \/ alerted.since <= silent.since
      BY <1>1, OutagesAssumption
    <3>2. Worst(silent) \/ Worst(alerted)
      BY <3>1, <2>1, <1>1, <1>2, OutagesAssumption
    <3> QED
      BY <3>2, <2>1, <1>2
  <2>2. CASE minute - from < DownAfter /\ minute - from >= LateAfter /\ wrong[m] # -1
    <3>1. Worst(alerted)
      BY <2>2, <1>1, <1>2 DEF Rank
    <3> QED
      BY <3>1, <2>2, <1>2
  <2>3. ASSUME NEW r, Reasons(m) = {r}, r.since \in Int PROVE Worst(r)
    BY <2>3
  <2>4. silent.since \in Int /\ late.since \in Int /\ alerted.since \in Int
    BY <1>1, OutagesAssumption
  <2>5. minute - from \in Int
    BY <1>1
  <2>6. Reasons(m) = {silent} \/ Reasons(m) = {late} \/ Reasons(m) = {alerted} => \E r \in Reasons(m) : Worst(r)
    <3> HIDE DEF silent, late, alerted, Worst
    <3> QED
      BY <2>3, <2>4
  <2> HIDE DEF silent, late, alerted, Worst, from
  <2> QED
    BY <2>1, <2>2, <2>6, <2>5, <1>2, OutagesAssumption
<1>4. Reasons(m) # {} => w \in Reasons(m) /\ Worst(w)
  BY <1>3 DEF WorstOf
<1>5. Reasons(m) = {} => w = [level |-> "green", since |-> -1]
  BY DEF WorstOf
<1>6. \A r \in Reasons(m) : r.since \in Int /\ (r.level = "red" => wrong[m] # -1 \/ minute - from >= DownAfter)
  BY <1>1, OutagesAssumption DEF Reasons
<1>7. minute - from >= DownAfter => silent \in Reasons(m)
  BY <1>1, <1>2
<1>8. silent \in Reasons(m) /\ Worst(w) => w.level = "red"
  <2>1. Rank["red"] = 2 /\ silent.level = "red"
    BY DEF Rank
  <2>2. ASSUME silent \in Reasons(m), Worst(w), w.level # "red" PROVE FALSE
    <3>1. w.level \in {"red", "yellow"}
      BY <2>2, <1>4 DEF Reasons
    <3> QED
      BY <2>2, <2>1, <3>1 DEF Rank
  <2> QED
    BY <2>2
<1>9. w.since \in Int
  <2> HIDE DEF w
  <2> QED
    BY <1>4, <1>5, <1>6
<1> HIDE DEF w, silent, Worst
<1>10. w.level = "red" => wrong[m] # -1 \/ minute - from >= DownAfter
  BY <1>4, <1>5, <1>6
<1>11. w.level # "red" => minute - from < DownAfter
  <2>1. minute - from >= DownAfter => w.level = "red"
    BY <1>4, <1>7, <1>8
  <2> QED
    BY <2>1, <1>1, OutagesAssumption
<1>12. w.level = "red" => w \in Reasons(m)
  BY <1>4, <1>5
<1> USE DEF w
<1> QED
  BY <1>9, <1>10, <1>11, <1>12

(* The first minute counted starts the count; one after it adds what the    *)
(* gap before it left out.                                                  *)
LEMMA CountedIsWhole ==
  ASSUME CountsKept, minute \in Nat PROVE
         LET c == Counted(counted, "green", "red") IN
         /\ c \in [first : Int, last : Int, green : Int, yellow : Int, red : Int]
         /\ IF c.first = -1 THEN c.last = -1 /\ c.green + c.yellow + c.red = 0
            ELSE c.last # -1 /\ c.green + c.yellow + c.red = c.last - c.first + 1
<1> DEFINE missed == IF counted.last = -1 THEN 0 ELSE minute - counted.last - 1
           first == IF counted.first = -1 THEN minute ELSE counted.first
<1>1. counted \in [first : Int, last : Int, green : Int, yellow : Int, red : Int]
  BY DEF CountsKept
<1>2. missed \in Int /\ first \in Int
  BY <1>1
<1>3. CASE counted.last >= minute
  BY <1>3, <1>1 DEF Counted, CountsKept
<1>4. CASE ~(counted.last >= minute) /\ missed <= OutGrace
  <2>1. Counted(counted, "green", "red")
          = [first |-> first, last |-> minute, green |-> counted.green + missed + 1,
             yellow |-> counted.yellow, red |-> counted.red]
    BY <1>4, <1>1 DEF Counted
  <2>2. CASE counted.first = -1
    BY <2>1, <2>2, <1>1 DEF CountsKept
  <2>3. CASE counted.first # -1
    <3>1. first = counted.first /\ missed = minute - counted.last - 1
      BY <2>3 DEF CountsKept
    <3> HIDE DEF missed, first
    <3> QED
      BY <3>1, <2>1, <2>3, <1>1, <1>2 DEF CountsKept
  <2> QED
    BY <2>2, <2>3
<1>5. CASE ~(counted.last >= minute) /\ ~(missed <= OutGrace)
  <2>1. Counted(counted, "green", "red")
          = [first |-> first, last |-> minute, green |-> counted.green + 1,
             yellow |-> counted.yellow, red |-> counted.red + missed]
    BY <1>5, <1>1 DEF Counted
  <2> QED
    BY <2>1, <1>1, <1>2, <1>5 DEF CountsKept
<1> QED
  BY <1>3, <1>4, <1>5

LEMMA CountSound == ASSUME OutInv, count_status PROVE OutInv'
<1>1. /\ outPc' = "judge" /\ snap' = [m \in counts |-> WorstOf(Reasons(m))]
      /\ counted' = Counted(counted, "green", "red")
      /\ UNCHANGED <<minute, listening, heard, wrong, counts, outages, emails, wants, owing, inbox>>
  BY DEF count_status
<1>2. OutTyped' /\ OutagesApart' /\ EmailsOwed' /\ DownBeforeBack'
  BY <1>1 DEF OutInv, OutTyped, OutagesApart, EmailsOwed, DownBeforeBack
<1>3. CountsKept'
  <2>1. CountsKept /\ minute \in Nat
    BY DEF OutInv, OutTyped
  <2> QED
    BY <2>1, <1>1, CountedIsWhole DEF CountsKept
<1>4. SnapTrue'
  <2> DEFINE seen == [m \in counts |-> WorstOf(Reasons(m))]
  <2>1. DOMAIN seen = counts /\ counts \subseteq OutMachines
    BY DEF OutInv, OutTyped
  <2>2. ASSUME NEW m \in counts
        PROVE  /\ seen[m].since \in Int
               /\ seen[m].level = "red" => wrong[m] # -1 \/ minute - heard[m] >= DownAfter
               /\ seen[m].level # "red" /\ OpenFor(m) # {} => minute - heard[m] < DownAfter
    <3>1. m \in OutMachines
      BY <2>1
    <3>2. seen[m] = WorstOf(Reasons(m))
      OBVIOUS
    <3>3. /\ SinceFor(m) \in Nat /\ heard[m] \in Nat /\ minute \in Nat /\ heard[m] <= SinceFor(m)
          /\ OpenFor(m) # {} => SinceFor(m) = heard[m]
      BY <3>1 DEF OutInv, OutTyped, SinceFor
    <3>4. /\ seen[m].since \in Int
          /\ seen[m].level = "red" => wrong[m] # -1 \/ minute - SinceFor(m) >= DownAfter
          /\ seen[m].level # "red" => minute - SinceFor(m) < DownAfter
      BY <3>1, <3>2, StateIsTheWorst
    <3> HIDE DEF seen
    <3> QED
      BY <3>3, <3>4, OutagesAssumption
  <2>3. snap' = seen
    BY <1>1
  <2> HIDE DEF seen
  <2>4. \A m \in counts : OpenFor(m)' = OpenFor(m)
    BY <1>1 DEF OpenFor, OpenOutages
  <2> QED
    BY <2>1, <2>2, <2>3, <2>4, <1>1 DEF SnapTrue
<1> QED
  BY <1>2, <1>3, <1>4 DEF OutInv

LEMMA RowAppended ==
  ASSUME OutTyped, NEW row \in OutageRow, outages' = Append(outages, row)
  PROVE  /\ outages' \in Seq(OutageRow) /\ DOMAIN outages \subseteq DOMAIN outages'
         /\ DOMAIN outages' = DOMAIN outages \cup {Len(outages')}
         /\ Len(outages') \notin DOMAIN outages /\ outages'[Len(outages')] = row
         /\ Len(outages') \in Nat
         /\ \A i \in DOMAIN outages : outages'[i] = outages[i]
  BY DEF OutTyped

(* The emails newly owed: one for each of the people, not sent.             *)
LEMMA OwedRows ==
  ASSUME NEW i \in Nat, NEW kind \in Kinds, NEW people \in SUBSET OutHolders
  PROVE  /\ \A e \in Owed(i, kind, people) :
              e \in EmailRow /\ e.of = i /\ e.kind = kind /\ e.to \in people /\ ~e.sent
         /\ \A e, f \in Owed(i, kind, people) : e.to = f.to => e = f
<1> DEFINE Fresh(h) == [of |-> i, kind |-> kind, to |-> h, tries |-> 0, sent |-> FALSE]
<1>1. \A e \in Owed(i, kind, people) : \E h \in people : e = Fresh(h)
  BY DEF Owed
<1>2. \A h \in people : /\ Fresh(h) \in EmailRow /\ Fresh(h).of = i /\ Fresh(h).kind = kind
                        /\ Fresh(h).to = h /\ ~Fresh(h).sent
  BY DEF EmailRow
<1> HIDE DEF Fresh
<1> QED
  BY <1>1, <1>2

(* The site is back: its own outage, ended, and everybody owed word of it.  *)
LEMMA SiteBackSound == ASSUME OutInv, site_back PROVE OutInv'
<1> DEFINE from == counted.last + 1
           row == [of |-> Site, start |-> from, end |-> minute, told |-> TRUE]
           new == Len(outages')
<1>1. /\ outPc' = "count"
      /\ UNCHANGED <<minute, listening, heard, wrong, counts, snap, counted, wants, owing, inbox>>
      /\ \/ UNCHANGED <<outages, emails>>
         \/ /\ ~\E i \in DOMAIN outages : outages[i].of = Site /\ outages[i].start = from
            /\ outages' = Append(outages, row)
            /\ emails' = emails \cup Owed(new, "site", wants)
  BY DEF site_back
<1>2. CASE UNCHANGED <<outages, emails>>
  BY <1>1, <1>2, OutagesStay DEF OutInv, OutTyped, SnapTrue
<1>3. CASE /\ ~\E i \in DOMAIN outages : outages[i].of = Site /\ outages[i].start = from
           /\ outages' = Append(outages, row) /\ emails' = emails \cup Owed(new, "site", wants)
  <2>1. row \in OutageRow /\ row.end # -1 /\ row.of = Site /\ row.start = from /\ row.told
    BY DEF OutInv, OutTyped, CountsKept, OutageRow
  <2>2. OutTyped
    BY DEF OutInv
  <2>3. /\ outages' \in Seq(OutageRow) /\ DOMAIN outages' = DOMAIN outages \cup {new}
        /\ new \notin DOMAIN outages /\ outages'[new] = row /\ new \in Nat
        /\ \A i \in DOMAIN outages : outages'[i] = outages[i]
    <3> HIDE DEF row
    <3> QED
      BY <2>1, <2>2, <1>3, RowAppended
  <2>4. \A e \in Owed(new, "site", wants) : e \in EmailRow /\ e.of = new /\ e.kind = "site" /\ ~e.sent
    <3>1. "site" \in Kinds /\ wants \in SUBSET OutHolders
      BY <2>2 DEF Kinds, OutTyped
    <3> HIDE DEF new
    <3> QED
      BY <2>3, <3>1, OwedRows
  <2>5. \A e, f \in Owed(new, "site", wants) : e.to = f.to => e = f
    BY <2>3, <2>2, OwedRows DEF Kinds, OutTyped
  <2> DEFINE fresh == Owed(new, "site", wants)
  <2>6. emails' = emails \cup fresh /\ outPc' # "judge"
    BY <1>1, <1>3
  <2> HIDE DEF row, new, fresh, from
  <2>7. OutTyped'
    BY <2>3, <2>4, <2>6, <2>2, <1>1 DEF OutTyped, fresh
  <2>8. OutagesApart'
    <3>1. /\ \A i, j \in DOMAIN outages :
               outages[i].end = -1 /\ outages[j].end = -1 /\ outages[i].of = outages[j].of => i = j
          /\ \A i, j \in DOMAIN outages :
               outages[i].of = Site /\ outages[j].of = Site /\ outages[i].start = outages[j].start => i = j
      BY DEF OutInv, OutagesApart
    <3> QED
      BY <3>1, <2>1, <2>3, <1>3 DEF OutagesApart
  <2>9. EmailsOwed' /\ DownBeforeBack'
    <3>1. \A e \in emails : e.of \in DOMAIN outages /\ e.of # new
      BY <2>3 DEF OutInv, EmailsOwed
    <3>2. \A e \in fresh : e.of = new /\ e.kind = "site" /\ ~e.sent
      BY <2>4 DEF fresh
    <3>3. \A e, f \in emails' : Key(e) = Key(f) => e = f
      <4>1. \A e, f \in fresh : Key(e) = Key(f) => e = f
        BY <2>5 DEF fresh, Key
      <4>2. \A e, f \in emails : Key(e) = Key(f) => e = f
        BY DEF OutInv, EmailsOwed
      <4>3. \A e \in emails, f \in fresh : Key(e) # Key(f)
        BY <3>1, <3>2 DEF Key
      <4> QED
        BY <4>1, <4>2, <4>3, <2>6
    <3>4. \A e \in emails' :
            /\ e.of \in DOMAIN outages'
            /\ e.kind = "down" => outages'[e.of].told
            /\ e.kind = "back" => outages'[e.of].end # -1
      <4>1. ASSUME NEW e \in emails
            PROVE  /\ e.of \in DOMAIN outages /\ e.kind = "down" => outages[e.of].told
                   /\ e.kind = "back" => outages[e.of].end # -1
        BY DEF OutInv, EmailsOwed
      <4> QED
        BY <4>1, <3>1, <3>2, <2>3, <2>6
    <3>5. DownBeforeBack'
      <4>1. /\ \A e \in emails : e.sent => Key(e) \in inbox
            /\ \A e \in emails \cup owing : e.kind = "back" => DownOf(e) \in inbox
            /\ \A k \in inbox : k.kind = "back" => DownOf(k) \in inbox
        BY DEF OutInv, DownBeforeBack
      <4> QED
        BY <4>1, <3>2, <2>6, <1>1 DEF DownBeforeBack
    <3> QED
      BY <3>3, <3>4, <3>5 DEF EmailsOwed
  <2>10. CountsKept' /\ SnapTrue'
    BY <1>1 DEF OutInv, CountsKept, SnapTrue
  <2> QED
    BY <2>7, <2>8, <2>9, <2>10 DEF OutInv
<1> QED
  BY <1>1, <1>2, <1>3

LEMMA BeginSound == ASSUME OutInv, NEW m \in OutMachines, begin_outage(m) PROVE OutInv'
<1> DEFINE row == [of |-> m, start |-> snap[m].since, end |-> -1, told |-> FALSE]
           new == Len(outages')
<1>1. /\ outPc = "judge" /\ m \in DOMAIN snap /\ snap[m].level = "red" /\ OpenFor(m) = {}
      /\ outages' = Append(outages, row)
      /\ UNCHANGED <<minute, outPc, listening, heard, wrong, counts, snap, counted, emails, wants,
                     owing, inbox>>
  BY DEF begin_outage, ToBegin
<1>2. row \in OutageRow /\ row.end = -1 /\ row.of = m /\ m # Site
  BY <1>1, OutagesAssumption DEF OutInv, SnapTrue, OutageRow
<1>3. OutTyped
  BY DEF OutInv
<1>4. /\ outages' \in Seq(OutageRow) /\ DOMAIN outages' = DOMAIN outages \cup {new}
      /\ new \notin DOMAIN outages /\ outages'[new] = row
      /\ \A i \in DOMAIN outages : outages'[i] = outages[i]
  <2> HIDE DEF row
  <2> QED
    BY <1>1, <1>2, <1>3, RowAppended
<1> HIDE DEF row, new
<1>5. OutTyped'
  BY <1>1, <1>3, <1>4 DEF OutTyped
<1>6. OutagesApart'
  <2>1. /\ \A i, j \in DOMAIN outages :
             outages[i].end = -1 /\ outages[j].end = -1 /\ outages[i].of = outages[j].of => i = j
        /\ \A i, j \in DOMAIN outages :
             outages[i].of = Site /\ outages[j].of = Site /\ outages[i].start = outages[j].start => i = j
    BY DEF OutInv, OutagesApart
  <2>2. \A i \in DOMAIN outages : ~(outages[i].end = -1 /\ outages[i].of = m)
    BY <1>1 DEF OpenFor, OpenOutages
  <2> QED
    BY <2>1, <2>2, <1>2, <1>4 DEF OutagesApart
<1>7. EmailsOwed' /\ DownBeforeBack'
  BY <1>1, <1>4 DEF OutInv, EmailsOwed, DownBeforeBack
<1>8. CountsKept' /\ SnapTrue'
  <2>1. \A c : c # m => OpenFor(c)' = OpenFor(c)
    BY <1>2, <1>4 DEF OpenFor, OpenOutages
  <2> QED
    BY <2>1, <1>1 DEF OutInv, CountsKept, SnapTrue
<1> QED
  BY <1>5, <1>6, <1>7, <1>8 DEF OutInv

(* An outage put down as news: everybody wanting word is owed it.           *)
LEMMA ToldSound ==
  ASSUME OutInv, NEW i \in OpenOutages, owe_outage_start(i) PROVE OutInv'
<1> DEFINE fresh == Owed(i, "down", wants)
<1>1. /\ outPc = "judge" /\ i \in DOMAIN outages /\ outages[i].end = -1 /\ ToTell(i)
      /\ outages' = [outages EXCEPT ![i].told = TRUE]
      /\ emails' = emails \cup fresh
      /\ UNCHANGED <<minute, outPc, listening, heard, wrong, counts, snap, counted, wants, owing, inbox>>
  BY DEF owe_outage_start, OpenOutages
<1>2. OutTyped
  BY DEF OutInv
<1>3. ~outages[i].told
  BY <1>1 DEF ToTell, NewsOf
<1>4. /\ outages' \in Seq(OutageRow) /\ DOMAIN outages' = DOMAIN outages
      /\ outages'[i].told /\ i \in Nat
      /\ \A j \in DOMAIN outages :
           /\ outages'[j].end = outages[j].end /\ outages'[j].of = outages[j].of
           /\ outages'[j].start = outages[j].start
           /\ outages[j].told => outages'[j].told
  <2>1. outages \in Seq(OutageRow)
    BY <1>2 DEF OutTyped
  <2>2. [outages[i] EXCEPT !.told = TRUE] \in OutageRow
    <3>1. outages[i] \in OutageRow
      BY <1>1, <2>1
    <3>2. \A r \in OutageRow : [r EXCEPT !.told = TRUE] \in OutageRow
      BY <2>1 DEF OutageRow
    <3> QED
      BY <3>1, <3>2
  <2>3. outages' = [outages EXCEPT ![i] = [outages[i] EXCEPT !.told = TRUE]]
    BY <1>1
  <2>4. \A j \in DOMAIN outages : outages[j] \in OutageRow
    BY <2>1
  <2> QED
    BY <1>1, <2>1, <2>2, <2>3, <2>4 DEF OutageRow
<1>5. /\ \A e \in fresh : e \in EmailRow /\ e.of = i /\ e.kind = "down" /\ ~e.sent
      /\ \A e, f \in fresh : e.to = f.to => e = f
  BY <1>2, <1>4, OwedRows DEF Kinds, OutTyped
<1> HIDE DEF fresh
<1>6. OutTyped'
  BY <1>1, <1>2, <1>4, <1>5 DEF OutTyped
<1>7. OutagesApart'
  BY <1>4 DEF OutInv, OutagesApart
<1>8. EmailsOwed'
  <2>1. /\ \A e, f \in emails : Key(e) = Key(f) => e = f
        /\ \A e \in emails : /\ e.of \in DOMAIN outages
                             /\ e.kind = "down" => outages[e.of].told
                             /\ e.kind = "back" => outages[e.of].end # -1
    BY DEF OutInv, EmailsOwed
  <2>2. \A e \in emails : ~(e.kind = "down" /\ e.of = i)
    BY <2>1, <1>3
  <2>3. \A e, f \in fresh : Key(e) = Key(f) => e = f
    BY <1>5 DEF Key
  <2>4. \A e \in emails, f \in fresh : Key(e) # Key(f)
    BY <2>2, <1>5 DEF Key
  <2> QED
    BY <2>1, <2>3, <2>4, <1>1, <1>4, <1>5 DEF EmailsOwed
<1>9. DownBeforeBack' /\ CountsKept' /\ SnapTrue'
  <2>1. \A c : OpenFor(c)' = OpenFor(c)
    BY <1>4 DEF OpenFor, OpenOutages
  <2>2. CountsKept' /\ SnapTrue'
    BY <2>1, <1>1 DEF OutInv, CountsKept, SnapTrue
  <2> QED
    BY <2>2, <1>1, <1>5 DEF OutInv, DownBeforeBack
<1> QED
  BY <1>6, <1>7, <1>8, <1>9 DEF OutInv

(* An outage over: who was sent word of its start is owed word of its end.  *)
LEMMA EndSound ==
  ASSUME OutInv, NEW i \in OpenOutages, end_outage(i) PROVE OutInv'
<1> DEFINE people == HeardItBegin(i) \cap wants
           fresh == Owed(i, "back", people)
<1>1. /\ outPc = "judge" /\ i \in DOMAIN outages /\ outages[i].end = -1
      /\ outages' = [outages EXCEPT ![i].end = minute]
      /\ emails' = emails \/ emails' = emails \cup fresh
      /\ UNCHANGED <<minute, outPc, listening, heard, wrong, counts, snap, counted, wants, owing, inbox>>
  BY DEF end_outage, OpenOutages
<1>2. OutTyped
  BY DEF OutInv
<1>3. /\ outages' \in Seq(OutageRow) /\ DOMAIN outages' = DOMAIN outages
      /\ outages'[i].end # -1 /\ i \in Nat
      /\ \A j \in DOMAIN outages :
           /\ outages'[j].of = outages[j].of /\ outages'[j].start = outages[j].start
           /\ outages'[j].told = outages[j].told
           /\ j # i => outages'[j].end = outages[j].end
  <2>1. outages \in Seq(OutageRow) /\ minute \in Nat
    BY <1>2 DEF OutTyped
  <2>2. [outages[i] EXCEPT !.end = minute] \in OutageRow
    <3>1. outages[i] \in OutageRow
      BY <1>1, <2>1
    <3>2. \A r \in OutageRow : [r EXCEPT !.end = minute] \in OutageRow
      BY <2>1 DEF OutageRow
    <3> QED
      BY <3>1, <3>2
  <2>3. outages' = [outages EXCEPT ![i] = [outages[i] EXCEPT !.end = minute]]
    BY <1>1
  <2>4. \A j \in DOMAIN outages : outages[j] \in OutageRow
    BY <2>1
  <2> QED
    BY <1>1, <2>1, <2>2, <2>3, <2>4 DEF OutageRow
<1>4. \A h \in people : [of |-> i, kind |-> "down", to |-> h] \in inbox
  <2>1. \A h \in people : \E e \in emails : e.of = i /\ e.kind = "down" /\ e.sent /\ e.to = h
    BY DEF HeardItBegin
  <2>2. \A e \in emails : e.sent => Key(e) \in inbox
    BY DEF OutInv, DownBeforeBack
  <2> QED
    BY <2>1, <2>2 DEF Key
<1>5. people \in SUBSET OutHolders
  BY <1>2 DEF OutTyped
<1> HIDE DEF people
<1>6. /\ \A e \in fresh : e \in EmailRow /\ e.of = i /\ e.kind = "back" /\ ~e.sent /\ e.to \in people
      /\ \A e, f \in fresh : e.to = f.to => e = f
  BY <1>3, <1>5, OwedRows DEF Kinds
<1> HIDE DEF fresh
<1>7. OutTyped'
  BY <1>1, <1>2, <1>3, <1>6 DEF OutTyped
<1>8. OutagesApart'
  <2>1. /\ \A j, k \in DOMAIN outages :
             outages[j].end = -1 /\ outages[k].end = -1 /\ outages[j].of = outages[k].of => j = k
        /\ \A j, k \in DOMAIN outages :
             outages[j].of = Site /\ outages[k].of = Site /\ outages[j].start = outages[k].start => j = k
    BY DEF OutInv, OutagesApart
  <2> QED
    BY <2>1, <1>3 DEF OutagesApart
<1>9. EmailsOwed'
  <2>1. /\ \A e, f \in emails : Key(e) = Key(f) => e = f
        /\ \A e \in emails : /\ e.of \in DOMAIN outages
                             /\ e.kind = "down" => outages[e.of].told
                             /\ e.kind = "back" => outages[e.of].end # -1
    BY DEF OutInv, EmailsOwed
  <2>2. \A e \in emails : ~(e.kind = "back" /\ e.of = i)
    BY <2>1, <1>1
  <2>3. \A e, f \in fresh : Key(e) = Key(f) => e = f
    BY <1>6 DEF Key
  <2>4. \A e \in emails, f \in fresh : Key(e) # Key(f)
    BY <2>2, <1>6 DEF Key
  <2>5. \A e, f \in emails' : Key(e) = Key(f) => e = f
    BY <2>1, <2>3, <2>4, <1>1
  <2>6. \A e \in emails' : /\ e.of \in DOMAIN outages'
                           /\ e.kind = "down" => outages'[e.of].told
                           /\ e.kind = "back" => outages'[e.of].end # -1
    BY <2>1, <1>1, <1>3, <1>6
  <2> QED
    BY <2>5, <2>6 DEF EmailsOwed
<1>10. DownBeforeBack'
  <2>1. \A e \in fresh : ~e.sent /\ DownOf(e) \in inbox
    BY <1>4, <1>6 DEF DownOf
  <2> QED
    BY <2>1, <1>1 DEF OutInv, DownBeforeBack
<1>11. CountsKept' /\ SnapTrue'
  <2>1. \A c : OpenFor(c)' \subseteq OpenFor(c)
    BY <1>3 DEF OpenFor, OpenOutages
  <2> QED
    BY <2>1, <1>1 DEF OutInv, CountsKept, SnapTrue
<1> QED
  BY <1>7, <1>8, <1>9, <1>10, <1>11 DEF OutInv

LEMMA OwingSound == ASSUME OutInv, owed_outage_emails PROVE OutInv'
<1>1. /\ outPc' # "judge" /\ owing' \subseteq emails
      /\ UNCHANGED <<minute, listening, heard, wrong, counts, counted, outages, emails, wants, inbox>>
  BY DEF owed_outage_emails
<1>2. OutTyped' /\ OutagesApart' /\ EmailsOwed' /\ CountsKept' /\ SnapTrue'
  BY <1>1 DEF OutInv, OutTyped, OutagesApart, EmailsOwed, CountsKept, SnapTrue
<1>3. DownBeforeBack'
  BY <1>1 DEF OutInv, DownBeforeBack
<1> QED
  BY <1>2, <1>3 DEF OutInv

(* A try marked, under its key.                                             *)
Marked(x, e, taken) == IF Key(x) = Key(e) THEN [x EXCEPT !.tries = @ + 1, !.sent = taken] ELSE x

LEMMA MarkedRow ==
  ASSUME NEW x \in EmailRow, NEW e \in EmailRow, NEW taken \in BOOLEAN
  PROVE  /\ Marked(x, e, taken) \in EmailRow /\ Key(Marked(x, e, taken)) = Key(x)
         /\ Marked(x, e, taken).of = x.of /\ Marked(x, e, taken).kind = x.kind
         /\ Marked(x, e, taken).to = x.to
         /\ Marked(x, e, taken).sent => x.sent \/ (taken /\ Key(x) = Key(e))
<1>1. \A r \in EmailRow : \A n \in Nat : [r EXCEPT !.tries = n] \in EmailRow
  BY DEF EmailRow
<1>2. \A r \in EmailRow : [r EXCEPT !.sent = taken] \in EmailRow
  BY DEF EmailRow
<1>3. x.tries + 1 \in Nat
  BY DEF EmailRow
<1> DEFINE y == [x EXCEPT !.tries = @ + 1, !.sent = taken]
<1>4. /\ y = [[x EXCEPT !.tries = x.tries + 1] EXCEPT !.sent = taken]
      /\ y.of = x.of /\ y.kind = x.kind /\ y.to = x.to /\ y.sent = taken
  BY DEF EmailRow
<1>5. y \in EmailRow
  BY <1>1, <1>2, <1>3, <1>4
<1> HIDE DEF y
<1>6. Marked(x, e, taken) = IF Key(x) = Key(e) THEN y ELSE x
  BY DEF Marked, y
<1> QED
  BY <1>4, <1>5, <1>6 DEF Key

LEMMA SentSound ==
  ASSUME OutInv, NEW e \in owing, NEW taken \in BOOLEAN,
         Sent(e, taken) \/ SentButNotMarked(e)
  PROVE  OutInv'
<1>1. e \in EmailRow /\ Key(e) \in KeyRow /\ (e.kind = "back" => DownOf(e) \in inbox)
  BY DEF OutInv, OutTyped, DownBeforeBack, EmailRow, KeyRow, Key
<1>2. /\ inbox' = inbox \/ inbox' = inbox \cup {Key(e)}
      /\ Sent(e, taken) /\ taken => Key(e) \in inbox'
      /\ owing' \subseteq owing /\ outPc' # "judge"
      /\ UNCHANGED <<minute, listening, heard, wrong, counts, counted, outages, wants>>
  BY DEF Sent, SentButNotMarked
<1>3. \A k \in inbox' : k.kind = "back" => DownOf(k) \in inbox'
  BY <1>1, <1>2 DEF OutInv, DownBeforeBack, Key, DownOf
<1>4. /\ emails' \subseteq EmailRow
      /\ \A y \in emails' : \E x \in emails :
           /\ Key(y) = Key(x) /\ y.of = x.of /\ y.kind = x.kind /\ y.to = x.to
           /\ y.sent => x.sent \/ Key(x) \in inbox'
      /\ \A y, z \in emails' : Key(y) = Key(z) => y = z
  <2>1. emails \subseteq EmailRow /\ \A x, z \in emails : Key(x) = Key(z) => x = z
    BY DEF OutInv, OutTyped, EmailsOwed
  <2>2. CASE SentButNotMarked(e)
    <3>1. emails' = emails
      BY <2>2 DEF SentButNotMarked
    <3> QED
      BY <3>1, <2>1
  <2>3. CASE Sent(e, taken)
    <3>1. emails' = {Marked(x, e, taken) : x \in emails}
      BY <2>3 DEF Sent, Marked
    <3>2. \A x \in emails : 
            /\ Marked(x, e, taken) \in EmailRow /\ Key(Marked(x, e, taken)) = Key(x)
            /\ Marked(x, e, taken).of = x.of /\ Marked(x, e, taken).kind = x.kind
            /\ Marked(x, e, taken).to = x.to
            /\ Marked(x, e, taken).sent => x.sent \/ (taken /\ Key(x) = Key(e))
      BY <1>1, <2>1, MarkedRow
    <3>3. \A y \in emails' : \E x \in emails : y = Marked(x, e, taken)
      BY <3>1
    <3> QED
      BY <3>2, <3>3, <2>1, <2>3, <1>2
  <2> QED
    BY <2>2, <2>3
<1>5. OutTyped' /\ OutagesApart' /\ CountsKept' /\ SnapTrue'
  BY <1>1, <1>2, <1>4 DEF OutInv, OutTyped, OutagesApart, CountsKept, SnapTrue
<1>6. EmailsOwed'
  <2>1. \A x \in emails : /\ x.of \in DOMAIN outages
                          /\ x.kind = "down" => outages[x.of].told
                          /\ x.kind = "back" => outages[x.of].end # -1
    BY DEF OutInv, EmailsOwed
  <2>2. \A y \in emails' : /\ y.of \in DOMAIN outages
                           /\ y.kind = "down" => outages[y.of].told
                           /\ y.kind = "back" => outages[y.of].end # -1
    BY <2>1, <1>4
  <2> QED
    BY <2>2, <1>2, <1>4 DEF EmailsOwed
<1>7. DownBeforeBack'
  <2>1. /\ \A x \in emails : x.sent => Key(x) \in inbox
        /\ \A x \in emails \cup owing : x.kind = "back" => DownOf(x) \in inbox
    BY DEF OutInv, DownBeforeBack
  <2>2. \A y \in emails' : y.sent => Key(y) \in inbox'
    BY <2>1, <1>2, <1>4
  <2>3. \A y \in emails' : y.kind = "back" => DownOf(y) \in inbox'
    BY <2>1, <1>2, <1>4 DEF DownOf
  <2> QED
    BY <2>1, <2>2, <2>3, <1>2, <1>3 DEF DownBeforeBack
<1> QED
  BY <1>5, <1>6, <1>7 DEF OutInv

LEMMA OutStepSound == ASSUME OutInv, OutNext \/ UNCHANGED outVars PROVE OutInv'
<1>1. CASE UNCHANGED outVars
  <2>1. UNCHANGED <<minute, listening, heard, wrong, counts, snap, counted, outages, emails, wants,
                    owing, inbox, outPc>>
    BY <1>1 DEF outVars
  <2>2. SnapTrue'
    BY <2>1 DEF OutInv, SnapTrue, OpenFor, OpenOutages
  <2> QED
    BY <2>1, <2>2, OutagesStay DEF OutInv, OutTyped
<1>2. CASE OutNext
  <2>1. \/ MinutePasses \/ site_back \/ count_status \/ owed_outage_emails
        \/ \E m \in OutMachines : begin_outage(m) \/ \E bad \in BOOLEAN : RecordHeartbeat(m, bad)
        \/ \E i \in OpenOutages : owe_outage_start(i) \/ end_outage(i)
        \/ \E e \in owing : SentButNotMarked(e) \/ \E taken \in BOOLEAN : Sent(e, taken)
        \/ (\/ \E m \in OutMachines : SetCounts(m)
            \/ \E h \in OutHolders : set_outage_emails(h)
            \/ Stop \/ set_listening_since \/ MinuteDone)
    BY <1>2 DEF OutNext
  <2> QED
    BY <2>1, ClockSound, SiteBackSound, CountSound, OwingSound, BeginSound, HeardSound, ToldSound,
       EndSound, SentSound, AroundSound
<1> QED
  BY <1>1, <1>2

LEMMA OutInvGivesSound == OutInv => OutagesSound
<1> SUFFICES ASSUME OutInv PROVE OutagesSound
  OBVIOUS
<1>1. \A k \in inbox : k.kind = "back" => [k EXCEPT !.kind = "down"] \in inbox
  <2>1. \A k \in KeyRow : [k EXCEPT !.kind = "down"] = DownOf(k)
    BY DEF KeyRow, DownOf
  <2> QED
    BY <2>1 DEF OutInv, OutTyped, DownBeforeBack
<1>2. \A m \in OutMachines : Cardinality(OpenFor(m)) <= 1
  <2> SUFFICES ASSUME NEW m \in OutMachines PROVE Cardinality(OpenFor(m)) <= 1
    OBVIOUS
  <2>1. \A i, j \in OpenFor(m) : i = j
    BY DEF OpenFor, OpenOutages, OutInv, OutagesApart
  <2> QED
    BY <2>1, AtMostOne
<1>3. OutageTold
  BY <1>1, <1>2 DEF OutageTold, OutInv, EmailsOwed, OutagesApart
<1>4. MinutesCountedOnce
  BY DEF MinutesCountedOnce, OutInv, CountsKept
<1> QED
  BY <1>3, <1>4 DEF OutagesSound

(* Nobody is told that a machine is back who was not told it was down; an   *)
(* outage is one row and each minute is counted once (ccfleetd/outage.py,   *)
(* store.py), whatever the machines, the settings and the stops.            *)
THEOREM OutagesSoundAlways == ServerSpec => []OutagesSound
<1>1. ServerInit => OutInv
  BY OutInitSound DEF ServerInit
<1>2. ASSUME OutInv, [ServerNext]_<<focus, siteVars, vars>>
      PROVE  OutInv'
  <2>1. OutNext \/ UNCHANGED outVars
    BY <1>2 DEF ServerNext, OthersWait, siteVars
  <2> QED
    BY <1>2, <2>1, OutStepSound
<1>3. OutInv => OutagesSound
  BY OutInvGivesSound
<1> QED
  BY <1>1, <1>2, <1>3, PTL DEF ServerSpec

(* What a minute tells is judged by what it read of the machines.           *)
LEMMA NewsOfTheMachines ==
  ASSUME OutInv, OutNext \/ UNCHANGED outVars, NEW i \in DOMAIN outages
  PROVE  /\ outages[i].of \in DOMAIN snap /\ outages'[i].end # outages[i].end
              => minute - heard[outages[i].of] < DownAfter
         /\ outages'[i].told /\ ~outages[i].told =>
              \/ wrong[outages[i].of] # -1
              \/ /\ minute - heard[outages[i].of] >= DownAfter
                 /\ minute - listening >= NewsAfter
<1>1. outages \in Seq(OutageRow) /\ minute \in Nat /\ listening \in Nat
  BY DEF OutInv, OutTyped
<1>2. CASE outages'[i] = outages[i]
  BY <1>2
<1>3. ASSUME NEW j \in OpenOutages, owe_outage_start(j), j = i
      PROVE  /\ outages'[i].end = outages[i].end
             /\ \/ wrong[outages[i].of] # -1
                \/ /\ minute - heard[outages[i].of] >= DownAfter
                   /\ minute - listening >= NewsAfter
  <2>1. outPc = "judge" /\ outages' = [outages EXCEPT ![i].told = TRUE] /\ ToTell(i)
    BY <1>3 DEF owe_outage_start
  <2>2. outages[i] \in OutageRow
    BY <1>1
  <2>3. outages'[i].end = outages[i].end
    BY <2>1, <2>2, <1>1 DEF OutageRow
  <2>4. minute - listening >= NewsAfter
    BY <2>1, <2>2, <1>1, OutagesAssumption DEF ToTell, NewsOf, OutageRow
  <2>5. wrong[outages[i].of] # -1 \/ minute - heard[outages[i].of] >= DownAfter
    BY <2>1 DEF ToTell, OutInv, SnapTrue
  <2> QED
    BY <2>3, <2>4, <2>5
<1>4. ASSUME NEW j \in OpenOutages, end_outage(j), j = i
      PROVE  /\ outages'[i].told = outages[i].told
             /\ outages[i].of \in DOMAIN snap => minute - heard[outages[i].of] < DownAfter
  <2>1. outPc = "judge" /\ outages' = [outages EXCEPT ![i].end = minute] /\ ToEnd(i)
    BY <1>4 DEF end_outage
  <2>2. outages[i] \in OutageRow
    BY <1>1
  <2>3. outages'[i].told = outages[i].told
    BY <2>1, <2>2, <1>1 DEF OutageRow
  <2>4. i \in OpenFor(outages[i].of)
    BY <1>4 DEF OpenFor
  <2> QED
    BY <2>1, <2>3, <2>4 DEF ToEnd, OutInv, SnapTrue
<1>5. ASSUME NEW j \in OpenOutages, owe_outage_start(j) \/ end_outage(j), j # i
      PROVE  outages'[i] = outages[i]
  BY <1>5 DEF owe_outage_start, end_outage, OpenOutages
<1>6. ASSUME NEW row, outages' = Append(outages, row) PROVE outages'[i] = outages[i]
  BY <1>1, <1>6
<1>7. CASE site_back
  BY <1>7, <1>6, <1>2 DEF site_back
<1>8. ASSUME NEW m \in OutMachines, begin_outage(m) PROVE outages'[i] = outages[i]
  BY <1>6, <1>8 DEF begin_outage
<1>9. CASE UNCHANGED outages
  BY <1>2, <1>9
<1>10. \/ site_back \/ UNCHANGED outages
       \/ \E m \in OutMachines : begin_outage(m)
       \/ \E j \in OpenOutages : owe_outage_start(j) \/ end_outage(j)
  BY DEF OutNext, outVars, MinutePasses, Stop, set_listening_since, SetCounts, RecordHeartbeat,
         set_outage_emails, count_status, owed_outage_emails, MinuteDone, Sent, SentButNotMarked
<1> QED
  BY <1>2, <1>3, <1>4, <1>5, <1>7, <1>8, <1>9, <1>10

-----------------------------------------------------------------------------
(* Alerts: the inductive invariant.  A report has the time it came; an alert *)
(* about silence is of a node silent too long, and one about a credential is *)
(* of a shared machine.                                                      *)

LastWord(r) == IF r = Never THEN 0 ELSE r.at

AlTyped ==
  /\ alNow \in Nat /\ alListening \in Nat
  /\ alBeats = [n \in AlNodes |-> [latest |-> alBeats[n].latest, previous |-> alBeats[n].previous]]
  /\ \A n \in AlNodes : alBeats[n].latest # Never => alBeats[n].latest.at \in Nat

SilentTooLong ==
  \A a \in alerts :
    /\ a.node \in AlNodes
    /\ a.rule = "no_heartbeat" => alNow - LastWord(alBeats[a.node].latest) > AlMaxAge
    /\ a.rule \in CredentialRules => a.node \in AlShared

AlInv == AlTyped /\ SilentTooLong

(* Which rules say what.                                                     *)
LEMMA WhenHolds == ASSUME NEW c, NEW x, NEW f \in When(c, x) PROVE c /\ f = x
  BY DEF When

LEMMA OwnerRules ==
  ASSUME NEW r, NEW p, NEW n,
         NEW f \in claude_findings(r, p) \cup credential_findings(r) \cup disk_findings(r)
                     \cup quota_findings(n, r) \cup egress_findings(r, p) \cup remote_control_findings(r)
  PROVE  f.rule # "no_heartbeat" /\ f.rule \notin CredentialRules
<1>1. CASE f \in claude_findings(r, p)
  BY <1>1, WhenHolds DEF claude_findings, Critical, Warn, CredentialRules
<1>2. CASE f \in credential_findings(r)
  BY <1>2, WhenHolds DEF credential_findings, Critical, Warn, CredentialRules
<1>3. CASE f \in disk_findings(r)
  BY <1>3, WhenHolds DEF disk_findings, Critical, Warn, CredentialRules
<1>4. CASE f \in quota_findings(n, r)
  <2>1. f = Critical("quota_high") \/ f = Warn("quota_high")
    BY <1>4, WhenHolds DEF quota_findings
  <2> QED
    BY <2>1 DEF Critical, Warn, CredentialRules
<1>5. CASE f \in egress_findings(r, p)
  BY <1>5, WhenHolds DEF egress_findings, Critical, Warn, CredentialRules
<1>6. CASE f \in remote_control_findings(r)
  BY <1>6, WhenHolds DEF remote_control_findings, Critical, Warn, CredentialRules
<1> QED
  BY <1>1, <1>2, <1>3, <1>4, <1>5, <1>6

LEMMA SlotRules ==
  ASSUME NEW r, NEW n,
         NEW f \in slot_findings(n, r) \cup slot_credential_findings(n, r)
                     \cup slot_compatibility_findings(n, r)
  PROVE  f.rule # "no_heartbeat"
<1>1. CASE f \in slot_findings(n, r)
  BY <1>1, WhenHolds DEF slot_findings, Critical, Warn
<1>2. CASE f \in slot_credential_findings(n, r)
  BY <1>2, WhenHolds DEF slot_credential_findings, Critical, Warn
<1>3. CASE f \in slot_compatibility_findings(n, r)
  BY <1>3, WhenHolds DEF slot_compatibility_findings, Critical, Warn
<1> QED
  BY <1>1, <1>2, <1>3

(* What is found of a node says that it is silent just when it is, and says  *)
(* something of a credential only of a shared machine.                       *)
LEMMA FindingsSay ==
  ASSUME NEW n, NEW b
  PROVE  LET r == b[n].latest
             silent == alNow - SilentFrom(n, "no_heartbeat", IF r = Never THEN 0 ELSE r.at) > AlMaxAge
         IN /\ silent => Critical("no_heartbeat") \in evaluate(n, b)
            /\ \A f \in evaluate(n, b) :
                 /\ f.rule = "no_heartbeat" => silent
                 /\ f.rule \in CredentialRules => n \in AlShared
<1> DEFINE r == b[n].latest
           p == b[n].previous
           silent == alNow - SilentFrom(n, "no_heartbeat", IF r = Never THEN 0 ELSE r.at) > AlMaxAge
<1>1. heartbeat_findings(n, r) = When(silent, Critical("no_heartbeat"))
  BY DEF heartbeat_findings
<1>2. heartbeat_findings(n, r) \subseteq evaluate(n, b)
  BY DEF evaluate
<1>3. silent => Critical("no_heartbeat") \in evaluate(n, b)
  BY <1>1, <1>2 DEF When
<1>4. ASSUME NEW f \in heartbeat_findings(n, r) PROVE silent /\ f.rule \notin CredentialRules
  <2> HIDE DEF silent
  <2>1. silent /\ f = Critical("no_heartbeat")
    BY <1>1, <1>4, WhenHolds
  <2> QED
    BY <2>1 DEF Critical, CredentialRules
<1>5. ASSUME NEW f \in evaluate(n, b), n \notin AlShared, f \notin heartbeat_findings(n, r)
      PROVE  f.rule # "no_heartbeat" /\ f.rule \notin CredentialRules
  <2>1. CASE f \in When(elsewhere(n, b), Critical("account_elsewhere"))
    BY <2>1, WhenHolds DEF Critical, CredentialRules
  <2>2. CASE f \in claude_findings(r, p) \cup credential_findings(r) \cup disk_findings(r)
                     \cup quota_findings(n, r) \cup egress_findings(r, p) \cup remote_control_findings(r)
    BY <2>2, OwnerRules
  <2> QED
    BY <1>5, <2>1, <2>2 DEF evaluate
<1>6. ASSUME NEW f \in evaluate(n, b), n \in AlShared, f \notin heartbeat_findings(n, r)
      PROVE  f.rule # "no_heartbeat"
  <2>1. CASE f \in When(elsewhere(n, b), Critical("account_elsewhere"))
                     \cup When(account_changed(n, r), Critical("account_changed"))
    BY <2>1, WhenHolds DEF Critical
  <2>2. CASE f \in disk_findings(r) \cup egress_findings(r, p)
    BY <2>2, OwnerRules
  <2>3. CASE f \in slot_findings(n, r) \cup slot_credential_findings(n, r)
                     \cup slot_compatibility_findings(n, r)
    BY <2>3, SlotRules
  <2>4. f \in evaluate(n, b)
    OBVIOUS
  <2> QED
    BY <1>6, <2>1, <2>2, <2>3, <2>4 DEF evaluate
<1> HIDE DEF silent, r
<1>7. \A f \in evaluate(n, b) : /\ f.rule = "no_heartbeat" => silent
                                /\ f.rule \in CredentialRules => n \in AlShared
  BY <1>4, <1>5, <1>6
<1> USE DEF silent, r
<1> QED
  BY <1>3, <1>7

(* Reconciling a node leaves the alerts of the others, opens what was found, *)
(* and keeps what is undecided.                                              *)
LEMMA ReconciledIs ==
  ASSUME NEW n, NEW b
  PROVE  /\ \A a : a.node # n => (a \in Reconciled(n, b) <=> a \in alerts)
         /\ \A a \in Reconciled(n, b) : a.node = n =>
              \/ \E f \in evaluate(n, b) : f.rule = a.rule
              \/ a \in alerts /\ unconfirmed(n, b, a.rule)
         /\ \A f \in evaluate(n, b) : ~unconfirmed(n, b, f.rule) =>
              \E a \in Reconciled(n, b) : a.node = n /\ a.rule = f.rule
         /\ \A a \in alerts : a.node = n /\ unconfirmed(n, b, a.rule) => a \in Reconciled(n, b)
<1> DEFINE wanted == {f \in evaluate(n, b) : ~unconfirmed(n, b, f.rule)}
           mine == {a \in alerts : a.node = n}
           kept == {a \in mine : \/ [rule |-> a.rule, level |-> a.level] \in wanted
                                 \/ /\ unconfirmed(n, b, a.rule)
                                    /\ a.rule \notin {f.rule : f \in wanted}}
           opened == {f \in wanted : \A a \in kept : a.rule # f.rule}
           Opened(f) == [node |-> n, rule |-> f.rule, level |-> f.level, at |-> alNow]
           new == {Opened(f) : f \in opened}
<1>1. Reconciled(n, b) = (alerts \ mine) \cup kept \cup new
  BY DEF Reconciled
<1>2. /\ \A y \in new : \E f \in opened : y.node = n /\ y.rule = f.rule
      /\ \A f \in opened : \E y \in new : y.node = n /\ y.rule = f.rule
  <2>1. \A f : Opened(f).node = n /\ Opened(f).rule = f.rule
    OBVIOUS
  <2> HIDE DEF Opened, opened
  <2> QED
    BY <2>1
<1>3. \A f \in wanted : f \in evaluate(n, b) /\ ~unconfirmed(n, b, f.rule)
  OBVIOUS
<1>4. \A a \in kept : /\ a \in alerts /\ a.node = n
                      /\ unconfirmed(n, b, a.rule) \/ \E f \in wanted : f.rule = a.rule
  <2>1. \A a : [rule |-> a.rule, level |-> a.level].rule = a.rule
    OBVIOUS
  <2> HIDE DEF wanted
  <2> QED
    BY <2>1
<1>5. \A a \in alerts : a.node = n /\ unconfirmed(n, b, a.rule) => a \in kept
  OBVIOUS
<1>6. \A f \in wanted : f \in opened \/ \E a \in kept : a.rule = f.rule
  OBVIOUS
<1>7. \A f \in opened : f \in wanted
  OBVIOUS
<1>8. \A a : a \in mine <=> a \in alerts /\ a.node = n
  OBVIOUS
<1>9. \A f \in evaluate(n, b) : ~unconfirmed(n, b, f.rule) => f \in wanted
  OBVIOUS
<1> HIDE DEF wanted, mine, kept, opened, new
<1> QED
  BY <1>1, <1>2, <1>3, <1>4, <1>5, <1>6, <1>7, <1>8, <1>9

(* A node judged, with the reports the monitor then has of it.              *)
LEMMA JudgedSound ==
  ASSUME AlInv, NEW n \in AlNodes,
         alerts' = Reconciled(n, alBeats'), UNCHANGED <<alNow, alListening, alSlot>>,
         alBeats' = [m \in AlNodes |-> [latest |-> alBeats'[m].latest, previous |-> alBeats'[m].previous]],
         \A m \in AlNodes : m # n => alBeats'[m] = alBeats[m],
         \/ alBeats'[n].latest = alBeats[n].latest
         \/ alBeats'[n].latest.at = alNow /\ alBeats'[n].latest # Never
  PROVE  /\ AlInv'
         /\ \A m \in AlNodes :
              /\ Gone(m, "no_heartbeat") => alBeats'[m].latest.at = alNow
              /\ "no_heartbeat" \notin Raised(m) /\ (\E a \in alerts' : a.node = m /\ a.rule = "no_heartbeat")
                   => alNow - alListening > AlMaxAge
              /\ (/\ Raised(m) \cap CredentialRules # {} /\ alSlot[m].state = "active"
                  /\ alBeats'[m].latest # Never
                  /\ \A a \in alerts' : a.node = m => a.rule \notin CredentialRules)
                   => fresh_observation(alBeats'[m].latest)
<1> DEFINE r == alBeats'[n].latest
           silent == alNow - SilentFrom(n, "no_heartbeat", IF r = Never THEN 0 ELSE r.at) > AlMaxAge
<1>1. /\ alNow \in Nat /\ alListening \in Nat /\ AlMaxAge \in Nat
      /\ \A m \in AlNodes : alBeats[m].latest # Never => alBeats[m].latest.at \in Nat
  BY AlertsAssumption DEF AlInv, AlTyped
<1>2. /\ silent => \E f \in evaluate(n, alBeats') : f.rule = "no_heartbeat"
      /\ \A f \in evaluate(n, alBeats') : /\ f.rule = "no_heartbeat" => silent
                                          /\ f.rule \in CredentialRules => n \in AlShared
  BY FindingsSay DEF Critical
<1>3. ~unconfirmed(n, alBeats', "no_heartbeat")
  BY DEF unconfirmed, CredentialRules
<1>4. /\ \A a : a.node # n => (a \in alerts' <=> a \in alerts)
      /\ \A a \in alerts' : a.node = n =>
           \/ \E f \in evaluate(n, alBeats') : f.rule = a.rule
           \/ a \in alerts /\ unconfirmed(n, alBeats', a.rule)
      /\ \A f \in evaluate(n, alBeats') : ~unconfirmed(n, alBeats', f.rule) =>
           \E a \in alerts' : a.node = n /\ a.rule = f.rule
      /\ \A a \in alerts : a.node = n /\ unconfirmed(n, alBeats', a.rule) => a \in alerts'
  BY ReconciledIs
<1>5. \A a \in alerts : /\ a.node \in AlNodes
                        /\ a.rule = "no_heartbeat" => alNow - LastWord(alBeats[a.node].latest) > AlMaxAge
                        /\ a.rule \in CredentialRules => a.node \in AlShared
  BY DEF AlInv, SilentTooLong
<1>6. LastWord(r) \in Nat /\ silent = (alNow - SilentFrom(n, "no_heartbeat", LastWord(r)) > AlMaxAge)
  BY <1>1 DEF LastWord
<1>7. /\ LastWord(r) <= SilentFrom(n, "no_heartbeat", LastWord(r))
      /\ SilentFrom(n, "no_heartbeat", LastWord(r)) \in Nat
      /\ "no_heartbeat" \in Raised(n) => SilentFrom(n, "no_heartbeat", LastWord(r)) = LastWord(r)
      /\ "no_heartbeat" \notin Raised(n) => alListening <= SilentFrom(n, "no_heartbeat", LastWord(r))
  BY <1>1, <1>6 DEF SilentFrom, Later
<1>8. silent => alNow - LastWord(r) > AlMaxAge
  BY <1>1, <1>6, <1>7
<1>9. "no_heartbeat" \in Raised(n) /\ r = alBeats[n].latest => silent
  <2>1. ASSUME "no_heartbeat" \in Raised(n), r = alBeats[n].latest PROVE silent
    <3>1. \E a \in alerts : a.node = n /\ a.rule = "no_heartbeat"
      BY <2>1 DEF Raised
    <3>2. alNow - LastWord(r) > AlMaxAge
      BY <3>1, <1>5, <2>1
    <3> QED
      BY <3>2, <2>1, <1>6, <1>7
  <2> QED
    BY <2>1
<1> HIDE DEF silent
<1>10. \A a \in alerts' :
         /\ a.node \in AlNodes
         /\ a.rule = "no_heartbeat" => alNow - LastWord(alBeats'[a.node].latest) > AlMaxAge
         /\ a.rule \in CredentialRules => a.node \in AlShared
  <2> SUFFICES ASSUME NEW a \in alerts'
               PROVE  /\ a.node \in AlNodes
                      /\ a.rule = "no_heartbeat" => alNow - LastWord(alBeats'[a.node].latest) > AlMaxAge
                      /\ a.rule \in CredentialRules => a.node \in AlShared
    OBVIOUS
  <2>1. CASE a.node # n
    BY <2>1, <1>4, <1>5
  <2>2. CASE a.node = n
    <3>1. (\E f \in evaluate(n, alBeats') : f.rule = a.rule) \/ (a \in alerts /\ unconfirmed(n, alBeats', a.rule))
      BY <2>2, <1>4
    <3>2. a.rule = "no_heartbeat" => silent
      BY <3>1, <1>2, <1>3
    <3>3. a.rule \in CredentialRules => n \in AlShared
      BY <3>1, <1>2, <1>5, <2>2
    <3> QED
      BY <3>2, <3>3, <2>2, <1>8
  <2> QED
    BY <2>1, <2>2
<1>11. AlInv'
  <2>1. \A m \in AlNodes : alBeats'[m].latest # Never => alBeats'[m].latest.at \in Nat
    BY <1>1
  <2> QED
    BY <2>1, <1>1, <1>10 DEF AlInv, AlTyped, SilentTooLong
<1>12. ASSUME NEW m \in AlNodes, Gone(m, "no_heartbeat") PROVE alBeats'[m].latest.at = alNow
  <2>1. PICK a \in alerts : a.node = m /\ a.rule = "no_heartbeat"
    BY <1>12 DEF Gone, Raised
  <2>2. m = n
    BY <2>1, <1>4, <1>12 DEF Gone
  <2>3. ~silent
    BY <2>2, <1>12, <1>2, <1>3, <1>4 DEF Gone
  <2>4. "no_heartbeat" \in Raised(n)
    BY <2>2, <1>12 DEF Gone
  <2> QED
    BY <2>2, <2>3, <2>4, <1>9
<1>13. ASSUME NEW m \in AlNodes, "no_heartbeat" \notin Raised(m),
              NEW a \in alerts', a.node = m, a.rule = "no_heartbeat"
       PROVE  alNow - alListening > AlMaxAge
  <2>1. a \notin alerts
    BY <1>13 DEF Raised
  <2>2. m = n /\ silent
    BY <2>1, <1>13, <1>2, <1>4
  <2> DEFINE from == SilentFrom(n, "no_heartbeat", LastWord(r))
  <2>3. alNow - from > AlMaxAge /\ from \in Nat /\ alListening <= from
    BY <2>2, <1>13, <1>6, <1>7
  <2> HIDE DEF from
  <2> QED
    BY <2>3, <1>1
<1>14. ASSUME NEW m \in AlNodes, Raised(m) \cap CredentialRules # {}, alSlot[m].state = "active",
              alBeats'[m].latest # Never,
              \A a \in alerts' : a.node = m => a.rule \notin CredentialRules
       PROVE  fresh_observation(alBeats'[m].latest)
  <2>1. PICK a \in alerts : a.node = m /\ a.rule \in CredentialRules
    BY <1>14 DEF Raised
  <2>2. m = n /\ m \in AlShared
    BY <2>1, <1>4, <1>5, <1>14
  <2>3. ~unconfirmed(n, alBeats', a.rule)
    BY <2>1, <2>2, <1>4, <1>14
  <2> QED
    BY <2>1, <2>2, <2>3, <1>14 DEF unconfirmed
<1> QED
  BY <1>11, <1>12, <1>13, <1>14

(* No alert of a rule it had is gone, and none came.                        *)
LEMMA AlertsStay ==
  ASSUME UNCHANGED alerts, NEW m
  PROVE  /\ ~Gone(m, "no_heartbeat")
         /\ ~("no_heartbeat" \notin Raised(m) /\ \E a \in alerts' : a.node = m /\ a.rule = "no_heartbeat")
         /\ ~(/\ Raised(m) \cap CredentialRules # {}
              /\ \A a \in alerts' : a.node = m => a.rule \notin CredentialRules)
  BY DEF Gone, Raised

LEMMA AlStepSound ==
  ASSUME AlInv, AlNext \/ UNCHANGED alVars
  PROVE  /\ AlInv'
         /\ \A m \in AlNodes :
              /\ Gone(m, "no_heartbeat") => alBeats'[m].latest.at = alNow
              /\ "no_heartbeat" \notin Raised(m) /\ (\E a \in alerts' : a.node = m /\ a.rule = "no_heartbeat")
                   => alNow - alListening > AlMaxAge
              /\ (/\ Raised(m) \cap CredentialRules # {} /\ alSlot[m].state = "active"
                  /\ alBeats'[m].latest # Never
                  /\ \A a \in alerts' : a.node = m => a.rule \notin CredentialRules)
                   => fresh_observation(alBeats'[m].latest)
<1>1. /\ alNow \in Nat /\ alListening \in Nat
      /\ alBeats = [n \in AlNodes |-> [latest |-> alBeats[n].latest, previous |-> alBeats[n].previous]]
      /\ \A n \in AlNodes : alBeats[n].latest # Never => alBeats[n].latest.at \in Nat
  BY DEF AlInv, AlTyped
<1>2. ASSUME NEW n \in AlNodes, NEW shape, record_heartbeat(n, shape) PROVE Said(shape).at = alNow /\ Said(shape) # Never
  <2>1. Said(shape).at = alNow
    BY DEF Said
  <2> QED
    BY <2>1, <1>1 DEF Never
<1>3. ASSUME NEW n \in AlNodes, NEW shape, record_heartbeat(n, shape)
      PROVE  /\ alerts' = Reconciled(n, alBeats') /\ UNCHANGED <<alNow, alListening, alSlot>>
             /\ alBeats' = [m \in AlNodes |-> [latest |-> alBeats'[m].latest, previous |-> alBeats'[m].previous]]
             /\ \A m \in AlNodes : m # n => alBeats'[m] = alBeats[m]
             /\ alBeats'[n].latest.at = alNow /\ alBeats'[n].latest # Never
  <2> DEFINE now == Said(shape)
             both == [latest |-> now, previous |-> alBeats[n].latest]
  <2>1. now.at = alNow /\ now # Never
    BY <1>2, <1>3
  <2> HIDE DEF now
  <2>2. /\ alBeats' = [alBeats EXCEPT ![n] = both]
        /\ alerts' = Reconciled(n, alBeats') /\ UNCHANGED <<alNow, alListening, alSlot>>
    BY <1>3 DEF record_heartbeat, now
  <2>3. alBeats'[n] = both /\ \A m \in AlNodes : m # n => alBeats'[m] = alBeats[m]
    BY <2>2, <1>1
  <2>4. \A m \in AlNodes : alBeats'[m] = [latest |-> alBeats'[m].latest, previous |-> alBeats'[m].previous]
    <3>1. \A m \in AlNodes : alBeats[m] = [latest |-> alBeats[m].latest, previous |-> alBeats[m].previous]
      BY <1>1
    <3> QED
      BY <3>1, <2>3
  <2>5. alBeats' = [m \in AlNodes |-> alBeats'[m]]
    BY <2>2, <1>1
  <2>6. alBeats' = [m \in AlNodes |-> [latest |-> alBeats'[m].latest, previous |-> alBeats'[m].previous]]
    BY <2>4, <2>5
  <2> QED
    BY <2>1, <2>2, <2>3, <2>6
<1>4. ASSUME NEW n \in AlNodes, check_node(n)
      PROVE  /\ alerts' = Reconciled(n, alBeats') /\ UNCHANGED <<alNow, alListening, alSlot, alBeats>>
  BY <1>4 DEF check_node
<1>5. CASE prune_heartbeats
  <2> DEFINE kept(r) == IF r # Never /\ alNow - r.at > AlRetention THEN Never ELSE r
  <2>1. /\ alBeats' = [n \in AlNodes |-> [latest |-> kept(alBeats[n].latest),
                                          previous |-> kept(alBeats[n].previous)]]
        /\ UNCHANGED <<alNow, alListening, alSlot, alerts>>
    BY <1>5 DEF prune_heartbeats
  <2>2. \A n \in AlNodes : alBeats'[n].latest = alBeats[n].latest \/ alBeats'[n].latest = Never
    BY <2>1
  <2>3. alBeats' = [n \in AlNodes |-> [latest |-> alBeats'[n].latest, previous |-> alBeats'[n].previous]]
    <3> HIDE DEF kept
    <3>1. \A n \in AlNodes : alBeats'[n] = [latest |-> alBeats'[n].latest, previous |-> alBeats'[n].previous]
      BY <2>1
    <3>2. alBeats' = [n \in AlNodes |-> alBeats'[n]]
      BY <2>1
    <3> QED
      BY <3>1, <3>2
  <2>4. SilentTooLong'
    <3>1. ASSUME NEW a \in alerts, a.rule = "no_heartbeat"
          PROVE  alNow - LastWord(alBeats'[a.node].latest) > AlMaxAge
      <4>1. a.node \in AlNodes /\ alNow - LastWord(alBeats[a.node].latest) > AlMaxAge
        BY <3>1 DEF AlInv, SilentTooLong
      <4> QED
        BY <4>1, <2>2, <1>1, AlertsAssumption DEF LastWord
    <3> QED
      BY <3>1, <2>1 DEF AlInv, SilentTooLong
  <2>5. AlInv'
    BY <2>1, <2>2, <2>3, <2>4, <1>1 DEF AlInv, AlTyped
  <2> QED
    BY <2>5, <2>1, AlertsStay
<1>6. CASE \/ AlTick \/ AlStop \/ run_forever \/ UNCHANGED alVars
           \/ \E n \in AlShared : AlSlotMoves(n)
           \/ \E n \in AlNodes : SwitchNode(n)
  <2>1. /\ UNCHANGED <<alerts, alBeats>>
        /\ alNow' \in {alNow, alNow + 1} /\ alListening' \in {alListening, alNow}
    BY <1>6 DEF AlTick, AlStop, run_forever, alVars, AlSlotMoves, SwitchNode
  <2>2. SilentTooLong'
    <3>1. ASSUME NEW a \in alerts, a.rule = "no_heartbeat"
          PROVE  alNow' - LastWord(alBeats[a.node].latest) > AlMaxAge
      <4>1. a.node \in AlNodes /\ alNow - LastWord(alBeats[a.node].latest) > AlMaxAge
        BY <3>1 DEF AlInv, SilentTooLong
      <4> QED
        BY <4>1, <2>1, <1>1, AlertsAssumption DEF LastWord
    <3> QED
      BY <3>1, <2>1 DEF AlInv, SilentTooLong
  <2>3. AlInv'
    BY <2>1, <2>2, <1>1 DEF AlInv, AlTyped
  <2> QED
    BY <2>3, <2>1, AlertsStay
<1>7. \/ \E n \in AlNodes : \E shape \in AlSlotShapes \cup AlOwnShapes : record_heartbeat(n, shape)
      \/ \E n \in AlNodes : check_node(n)
      \/ prune_heartbeats
      \/ \/ AlTick \/ AlStop \/ run_forever \/ UNCHANGED alVars
         \/ \E n \in AlShared : AlSlotMoves(n)
         \/ \E n \in AlNodes : SwitchNode(n)
  BY DEF AlNext, AlNodes
<1> QED
  BY <1>1, <1>3, <1>4, <1>5, <1>6, <1>7, JudgedSound

(* Word of an outage is of the machine and not of the server, and an alert  *)
(* closes or opens only on word of what it is about (ccfleetd/outage.py,    *)
(* rules.py, monitor.py).                                                   *)
THEOREM NewsSoundAlways == ServerSpec => NewsSound
<1>1. ServerInit => OutInv /\ AlInv
  <2>1. AlInit => AlInv
    BY DEF AlInit, AlInv, AlTyped, SilentTooLong
  <2> QED
    BY <2>1, OutInitSound DEF ServerInit
<1>2. ASSUME OutInv /\ AlInv, [ServerNext]_<<focus, siteVars, vars>>
      PROVE  (OutInv /\ AlInv)'
  <2>1. (OutNext \/ UNCHANGED outVars) /\ (AlNext \/ UNCHANGED alVars)
    BY <1>2 DEF ServerNext, OthersWait, siteVars
  <2> QED
    BY <1>2, <2>1, OutStepSound, AlStepSound
<1>3. ASSUME OutInv /\ AlInv, [ServerNext]_<<focus, siteVars, vars>>
      PROVE  [\A i \in DOMAIN outages :
                /\ (outages[i].of \in DOMAIN snap /\ outages'[i].end # outages[i].end
                      => minute - heard[outages[i].of] < DownAfter)
                /\ (outages'[i].told /\ ~outages[i].told =>
                      \/ wrong[outages[i].of] # -1
                      \/ /\ minute - heard[outages[i].of] >= DownAfter
                         /\ minute - listening >= NewsAfter)]_outVars
  <2>1. OutNext \/ UNCHANGED outVars
    BY <1>3 DEF ServerNext, OthersWait, siteVars
  <2> QED
    BY <1>3, <2>1, NewsOfTheMachines
<1>4. ASSUME OutInv /\ AlInv, [ServerNext]_<<focus, siteVars, vars>>
      PROVE  [\A n \in AlNodes :
                /\ Gone(n, "no_heartbeat") => alBeats'[n].latest.at = alNow
                /\ "no_heartbeat" \notin Raised(n) /\ (\E a \in alerts' : a.node = n /\ a.rule = "no_heartbeat")
                     => alNow - alListening > AlMaxAge
                /\ (/\ Raised(n) \cap CredentialRules # {} /\ alSlot[n].state = "active"
                    /\ alBeats'[n].latest # Never
                    /\ \A a \in alerts' : a.node = n => a.rule \notin CredentialRules)
                     => fresh_observation(alBeats'[n].latest)]_alVars
  <2>1. AlNext \/ UNCHANGED alVars
    BY <1>4 DEF ServerNext, OthersWait, siteVars
  <2> QED
    BY <1>4, <2>1, AlStepSound
<1> QED
  BY <1>1, <1>2, <1>3, <1>4, PTL DEF ServerSpec, NewsSound, NewsIsTrue, AlertsNeedWord

-----------------------------------------------------------------------------
(* What each component's variables may hold beside, which types need: for   *)
(* sessions and trial keys, their clocks and what is counted.               *)
SesCounted == sesNow <= SesMaxTicks /\ Len(sesBegun) <= SesMaxFlows

LEMMA SesCountedKept ==
  ASSUME SesInv, SesCounted, SesNext \/ UNCHANGED sesVars
  PROVE  SesCounted'
<1>1. sesNow \in Nat /\ sesBegun \in Seq(Flow)
  BY DEF SesInv, SesTyped
<1>2. ASSUME UNCHANGED <<sesNow, sesBegun>> PROVE SesCounted'
  BY <1>2 DEF SesCounted
<1>3. ASSUME NEW p \in SesPeople, NEW site \in Sites, _sign_in_start(p, site) PROVE SesCounted'
  <2>1. /\ Len(sesBegun) < SesMaxFlows /\ sesNow' = sesNow
        /\ sesBegun' = Append(sesBegun, [by |-> p, site |-> site, at |-> sesNow])
    BY <1>3 DEF _sign_in_start
  <2>2. Len(sesBegun') = Len(sesBegun) + 1 /\ Len(sesBegun) \in Nat
    BY <1>1, <2>1
  <2> QED
    BY <2>1, <2>2, SessionsAssumption DEF SesCounted
<1>4. CASE SesTick
  BY <1>1, <1>4, SessionsAssumption DEF SesTick, SesCounted
<1>5. ASSUME NEW p \in SesPeople, NEW site \in Sites, account_for_session(p, site) \/ _sign_out(p, site)
      PROVE  SesCounted'
  BY <1>2, <1>5 DEF account_for_session, _sign_out
<1>6. ASSUME NEW p \in SesPeople, NEW s \in DOMAIN sesBegun, Consents(p, s) PROVE SesCounted'
  BY <1>2, <1>6 DEF Consents
<1>7. ASSUME NEW p \in SesPeople, NEW c \in sesCallbacks, _sign_in_callback(p, c) PROVE SesCounted'
  BY <1>2, <1>7 DEF _sign_in_callback
<1>8. ASSUME NEW t \in sesThreads, sign_in_session(t) PROVE SesCounted'
  BY <1>2, <1>8 DEF sign_in_session
<1>9. ASSUME NEW i \in DOMAIN sesAccounts, end_all_sessions(i) PROVE SesCounted'
  BY <1>2, <1>9 DEF end_all_sessions
<1>10. CASE UNCHANGED sesVars
  BY <1>2, <1>10 DEF sesVars
<1> QED
  BY <1>3, <1>4, <1>5, <1>6, <1>7, <1>8, <1>9, <1>10 DEF SesNext

LEMMA SesTypeFollows == ASSUME SesInv, SesCounted PROVE SesTypeOK
<1>1. SesTyped /\ sesNow \in 0..SesMaxTicks
  BY SessionsAssumption DEF SesInv, SesTyped, SesCounted
<1>2. \A i \in DOMAIN sesBegun : i \in 0..SesMaxFlows
  BY <1>1, SessionsAssumption DEF SesCounted, SesTyped
<1>3. sesFlowCookie \in [SesPeople -> 0..SesMaxFlows]
  <2>1. \A p \in SesPeople : sesFlowCookie[p] \in 0..SesMaxFlows
    BY <1>1, <1>2, SessionsAssumption DEF SesInv, FlowCookiesOwn, SesTyped
  <2> QED
    BY <1>1, <2>1 DEF SesTyped
<1>4. sesCookie \in [SesPeople -> [Sites -> 0..SesMaxFlows]]
  <2>1. \A p \in SesPeople, site \in Sites : sesCookie[p][site] \in 0..SesMaxFlows
    BY <1>1, <1>2, SessionsAssumption DEF SesInv, CookiesOwn, SesTyped
  <2>2. sesCookie \in [SesPeople -> [Sites -> Nat]]
    BY <1>1 DEF SesTyped
  <2>3. \A p \in SesPeople : sesCookie[p] \in [Sites -> 0..SesMaxFlows]
    BY <2>1, <2>2
  <2> QED
    BY <2>2, <2>3
<1>5. \A i \in DOMAIN sesAccounts : sesAccounts[i] \in [sub : SesPeople, email : SesAddresses]
  <2>1. \A i \in DOMAIN sesAccounts : sesAccounts[i] \in Account
    BY <1>1 DEF SesTyped
  <2> QED
    BY <2>1 DEF Account
<1>6. \A r \in sesRows : r.account \in DOMAIN sesAccounts /\ r.site \in Sites
  BY <1>1 DEF SesInv, SessionsAreTheCodes, SesTyped, Session
<1> QED
  BY <1>1, <1>3, <1>4, <1>5, <1>6 DEF SesTypeOK, SesTyped

(* Trial keys: no later than the clock goes.                                *)
TaCounted ==
  /\ taNow <= TaMaxTicks /\ taAsked \in 0..TaMaxAsked
  /\ \A k \in DOMAIN taKeys : taKeys[k].at <= TaMaxTicks
  /\ \A a \in TaAccounts : taRate[a] # NoRate => taRate[a].at <= TaMaxTicks

LEMMA KeysInTime ==
  ASSUME TaInv, TaCounted, NEW a \in TaAccounts,
         NEW K, K = [k \in DOMAIN taKeys |->
                       IF taKeys[k].account = a THEN [taKeys[k] EXCEPT !.revoked = TRUE] ELSE taKeys[k]]
  PROVE  DOMAIN K = DOMAIN taKeys /\ K \in Seq(TrialKey) /\ \A k \in DOMAIN K : K[k].at <= TaMaxTicks
<1>1. \A k \in DOMAIN taKeys : taKeys[k] \in TrialKey
  BY DEF TaInv, TaTyped
<1>2. \A k \in DOMAIN K : K[k] \in TrialKey /\ K[k].at = taKeys[k].at
  BY <1>1 DEF TrialKey
<1>3. DOMAIN K = 1..Len(taKeys) /\ Len(taKeys) \in Nat
  BY DEF TaInv, TaTyped
<1>4. K \in Seq(TrialKey)
  BY <1>2, <1>3
<1> QED
  BY <1>2, <1>4 DEF TaCounted

LEMMA TaCountedKept ==
  ASSUME TaInv, TaCounted, TaNext \/ UNCHANGED taVars
  PROVE  TaCounted'
<1>1. /\ taNow \in Nat /\ taKeys \in Seq(TrialKey)
      /\ taRate \in [TaAccounts -> Sample \cup {NoRate}]
  BY DEF TaInv, TaTyped
<1>2. CASE UNCHANGED taVars
  BY <1>2 DEF taVars, TaCounted
<1>3. CASE TaTick
  BY <1>3, TrialAccessAssumption DEF TaTick, TaCounted
<1>4. ASSUME NEW a \in TaAccounts, revoke_keys(a) PROVE TaCounted'
  BY <1>4, KeysInTime DEF revoke_keys, TaCounted
<1>5. ASSUME NEW a \in TaAccounts, create(a) PROVE TaCounted'
  <2> DEFINE K == [k \in DOMAIN taKeys |->
                     IF taKeys[k].account = a THEN [taKeys[k] EXCEPT !.revoked = TRUE] ELSE taKeys[k]]
             new == [account |-> a, at |-> taNow, revoked |-> FALSE]
  <2>1. K \in Seq(TrialKey) /\ \A k \in DOMAIN K : K[k].at <= TaMaxTicks
    BY KeysInTime
  <2>2. taKeys' = Append(K, new) /\ UNCHANGED <<taNow, taRate, taAsked>>
    BY <1>5 DEF create, RateAfterKey
  <2>3. new.at <= TaMaxTicks
    BY DEF TaCounted
  <2> HIDE DEF K, new
  <2>4. \A k \in DOMAIN taKeys' : taKeys'[k] = new \/ (k \in DOMAIN K /\ taKeys'[k] = K[k])
    BY <2>1, <2>2
  <2> QED
    BY <2>1, <2>2, <2>3, <2>4 DEF TaCounted
<1>6. ASSUME NEW k \in DOMAIN taKeys, take_request(k) PROVE TaCounted'
  <2> DEFINE a == taKeys[k].account
  <2>0. a \in TaAccounts
    <3>1. taKeys[k] \in TrialKey
      BY <1>1, <1>6
    <3> QED
      BY <3>1 DEF TrialKey
  <2>1. /\ taAsked < TaMaxAsked /\ taAsked' = taAsked + 1 /\ UNCHANGED <<taNow, taKeys>>
        /\ \E n : taRate' = [taRate EXCEPT ![a] = [tokens |-> n, at |-> taNow]]
    BY <1>6, Zenon DEF take_request
  <2>2. \A b \in TaAccounts : taRate'[b] # NoRate => taRate'[b].at <= TaMaxTicks
    BY <1>1, <2>0, <2>1 DEF TaCounted
  <2>3. taAsked' \in 0..TaMaxAsked
    BY <2>1, TrialAccessAssumption DEF TaCounted
  <2> QED
    BY <2>1, <2>2, <2>3 DEF TaCounted
<1> QED
  BY <1>2, <1>3, <1>4, <1>5, <1>6 DEF TaNext

LEMMA TaTypeFollows == ASSUME TaInv, TaCounted PROVE TaTypeOK
<1>1. \A k \in DOMAIN taKeys :
        taKeys[k] \in [account : TaAccounts, at : 0..TaMaxTicks, revoked : BOOLEAN]
  <2>1. \A k \in DOMAIN taKeys : taKeys[k] \in TrialKey /\ taKeys[k].at <= TaMaxTicks
    BY DEF TaInv, TaTyped, TaCounted
  <2> QED
    BY <2>1, TrialAccessAssumption DEF TrialKey
<1>2. \A a \in TaAccounts :
        taRate[a] = NoRate \/ taRate[a] \in [tokens : 0..(TaBurst * TaCost), at : 0..TaMaxTicks]
  <2>1. \A a \in TaAccounts : taRate[a] \in [tokens : 0..(TaBurst * TaCost), at : Nat] \cup {NoRate}
    BY DEF TaInv, TaTyped, Sample, Brim
  <2>2. PICK full : full = 0..(TaBurst * TaCost)
    OBVIOUS
  <2> QED
    BY <2>1, <2>2, TrialAccessAssumption DEF TaCounted
<1> QED
  BY <1>1, <1>2, TrialAccessAssumption DEF TaInv, TaTyped, TaCounted, TaTypeOK

-----------------------------------------------------------------------------
(* Outages: the clock and its bounds.  What is judged red was red since a   *)
(* minute there was.                                                        *)
MinutesCounted ==
  /\ minute <= OutLastMinute /\ listening <= OutLastMinute
  /\ stops \in 0..OutMaxStops /\ changes \in 0..OutMaxChanges
  /\ outPc \in {"idle", "count", "judge", "sending", "stopped"}
  /\ \A m \in OutMachines : heard[m] <= OutLastMinute /\ wrong[m] \in -1..OutLastMinute
  /\ counted.last \in -1..minute
  /\ DOMAIN snap \subseteq OutMachines
  /\ outPc = "judge" =>
       \A m \in DOMAIN snap : snap[m].level = "red" => snap[m].since \in 0..OutLastMinute

(* A step that leaves the snapshot, or takes it away.                       *)
LEMMA MinutesStay ==
  ASSUME OutInv, MinutesCounted,
         minute' <= OutLastMinute, minute <= minute', listening' <= OutLastMinute,
         stops' \in 0..OutMaxStops, changes' \in 0..OutMaxChanges,
         \A m \in OutMachines : heard'[m] <= OutLastMinute /\ wrong'[m] \in -1..OutLastMinute,
         counted' = counted, minute' \in Nat,
         snap' = snap \/ snap' = <<>>,
         outPc' \in {"idle", "count", "judge", "sending", "stopped"},
         outPc' = "judge" => outPc = "judge" /\ snap' = snap
  PROVE  MinutesCounted'
<1>1. counted.last \in -1..minute'
  BY DEF MinutesCounted, OutInv, OutTyped
<1>2. DOMAIN snap' \subseteq OutMachines
  BY DEF MinutesCounted
<1>3. outPc' = "judge" =>
        \A m \in DOMAIN snap' : snap'[m].level = "red" => snap'[m].since \in 0..OutLastMinute
  BY DEF MinutesCounted
<1> QED
  BY <1>1, <1>2, <1>3 DEF MinutesCounted

LEMMA ChangedCounts ==
  ASSUME MinutesCounted, NEW really \in BOOLEAN, Changed(really)
  PROVE  changes' \in 0..OutMaxChanges
BY OutagesAssumption DEF MinutesCounted, Changed

LEMMA RedSince ==
  ASSUME OutInv, MinutesCounted, NEW m \in OutMachines
  PROVE  WorstOf(Reasons(m)).level = "red" => WorstOf(Reasons(m)).since \in 0..OutLastMinute
<1>1. PICK w : w = WorstOf(Reasons(m))
  OBVIOUS
<1>2. w.level = "red" => w \in Reasons(m)
  BY <1>1, StateIsTheWorst
<1>3. /\ SinceFor(m) \in Nat /\ minute \in Nat /\ minute <= OutLastMinute
      /\ wrong[m] \in -1..OutLastMinute
  BY DEF OutInv, OutTyped, SinceFor, MinutesCounted
<1>4. \A r \in Reasons(m) : r.level = "red" => r.since \in 0..OutLastMinute
  BY <1>3, OutagesAssumption DEF Reasons
<1> QED
  BY <1>1, <1>2, <1>4

LEMMA MinutesCountedKept ==
  ASSUME OutInv, MinutesCounted, OutNext \/ UNCHANGED outVars
  PROVE  MinutesCounted'
<1>1. /\ minute \in Nat /\ listening \in Nat /\ minute <= OutLastMinute /\ listening <= OutLastMinute
      /\ stops \in 0..OutMaxStops /\ changes \in 0..OutMaxChanges
      /\ outPc \in {"idle", "count", "judge", "sending", "stopped"}
      /\ \A m \in OutMachines : heard[m] <= OutLastMinute /\ wrong[m] \in -1..OutLastMinute
      /\ heard \in [OutMachines -> Nat] /\ wrong \in [OutMachines -> Int]
  BY DEF OutInv, OutTyped, MinutesCounted
<1>2. CASE UNCHANGED outVars
  BY <1>1, <1>2, MinutesStay DEF outVars
<1>3. CASE MinutePasses
  <2>1. minute' = minute + 1 /\ minute < OutLastMinute /\ outPc # "judge"
        /\ UNCHANGED <<outPc, listening, heard, wrong, snap, counted, stops, changes>>
    BY <1>3 DEF MinutePasses, Unlocked
  <2> QED
    BY <1>1, <2>1, OutagesAssumption, MinutesStay
<1>4. CASE Stop
  BY <1>1, <1>4, OutagesAssumption, MinutesStay DEF Stop
<1>5. CASE set_listening_since
  BY <1>1, <1>5, MinutesStay DEF set_listening_since
<1>6. CASE site_back
  BY <1>1, <1>6, MinutesStay DEF site_back
<1>7. CASE owed_outage_emails \/ MinuteDone
  BY <1>1, <1>7, MinutesStay DEF owed_outage_emails, MinuteDone
<1>8. ASSUME NEW m \in OutMachines, SetCounts(m) PROVE MinutesCounted'
  <2>1. changes' \in 0..OutMaxChanges
    BY <1>8, ChangedCounts DEF SetCounts
  <2> QED
    BY <1>1, <1>8, <2>1, MinutesStay DEF SetCounts
<1>9. ASSUME NEW m \in OutMachines, begin_outage(m) PROVE MinutesCounted'
  BY <1>1, <1>9, MinutesStay DEF begin_outage
<1>10. ASSUME NEW m \in OutMachines, NEW bad \in BOOLEAN, RecordHeartbeat(m, bad) PROVE MinutesCounted'
  <2>1. changes' \in 0..OutMaxChanges
    <3>1. Changed(bad /\ wrong[m] = -1)
      BY <1>10 DEF RecordHeartbeat
    <3> QED
      BY <3>1, ChangedCounts
  <2>2. /\ heard' = [heard EXCEPT ![m] = minute]
        /\ wrong' = [wrong EXCEPT ![m] = IF ~bad THEN -1 ELSE IF @ = -1 THEN minute ELSE @]
        /\ outPc \in {"idle", "sending"}
        /\ UNCHANGED <<minute, outPc, listening, snap, counted, stops>>
    BY <1>10 DEF RecordHeartbeat
  <2>3. \A n \in OutMachines : heard'[n] <= OutLastMinute /\ wrong'[n] \in -1..OutLastMinute
    BY <1>1, <2>2, OutagesAssumption
  <2> QED
    BY <1>1, <2>1, <2>2, <2>3, MinutesStay
<1>11. ASSUME NEW h \in OutHolders, set_outage_emails(h) PROVE MinutesCounted'
  <2>1. changes' \in 0..OutMaxChanges
    BY <1>11, ChangedCounts DEF set_outage_emails
  <2> QED
    BY <1>1, <1>11, <2>1, MinutesStay DEF set_outage_emails
<1>12. ASSUME NEW i \in OpenOutages, owe_outage_start(i) \/ end_outage(i) PROVE MinutesCounted'
  BY <1>1, <1>12, MinutesStay DEF owe_outage_start, end_outage
<1>13. ASSUME NEW e \in owing, SentButNotMarked(e) PROVE MinutesCounted'
  BY <1>1, <1>13, OutagesAssumption, MinutesStay DEF SentButNotMarked
<1>14. ASSUME NEW e \in owing, NEW taken \in BOOLEAN, Sent(e, taken) PROVE MinutesCounted'
  <2>1. changes' \in 0..OutMaxChanges
    BY <1>14, ChangedCounts DEF Sent
  <2>2. UNCHANGED <<minute, outPc, listening, heard, wrong, counted, snap, stops>> /\ outPc = "sending"
    BY <1>14 DEF Sent
  <2> QED
    BY <1>1, <2>1, <2>2, MinutesStay
<1>15. CASE count_status
  <2>1. /\ outPc' = "judge" /\ counted' = Counted(counted, "green", "red")
        /\ snap' = [m \in counts |-> WorstOf(Reasons(m))]
        /\ UNCHANGED <<minute, listening, heard, wrong, stops, changes>>
    BY <1>15 DEF count_status
  <2>2. counts \subseteq OutMachines
    BY DEF OutInv, OutTyped
  <2>3. DOMAIN snap' \subseteq OutMachines
    BY <2>1, <2>2
  <2>4. \A m \in DOMAIN snap' : snap'[m].level = "red" => snap'[m].since \in 0..OutLastMinute
    BY <2>1, <2>2, RedSince
  <2>5. counted'.last \in -1..minute
    <3>1. counted \in [first : Int, last : Int, green : Int, yellow : Int, red : Int]
      BY DEF OutInv, CountsKept
    <3>2. CASE counted.last >= minute
      BY <2>1, <3>2 DEF MinutesCounted, Counted
    <3>3. CASE ~(counted.last >= minute)
      <4>1. \A c \in [first : Int, last : Int, green : Int, yellow : Int, red : Int] : \A n \in Int, l \in {"green", "red"} :
              [c EXCEPT ![l] = n] \in [first : Int, last : Int, green : Int, yellow : Int, red : Int]
        OBVIOUS
      <4>2. counted'.last = minute
        BY <1>1, <2>1, <3>1, <3>3 DEF Counted
      <4> QED
        BY <1>1, <4>2
    <3> QED
      BY <3>2, <3>3
  <2> QED
    BY <1>1, <2>1, <2>3, <2>4, <2>5 DEF MinutesCounted
<1> QED
  BY <1>2, <1>3, <1>4, <1>5, <1>6, <1>7, <1>8, <1>9, <1>10, <1>11, <1>12, <1>13, <1>14, <1>15 DEF OutNext

(* Rows of outages and emails.  An email still to try has tries left, under *)
(* its key and however often its row was read.                              *)
OutageRowsIn ==
  \A i \in DOMAIN outages :
    outages[i].start \in 0..OutLastMinute /\ outages[i].end \in -1..OutLastMinute

TriesIn ==
  /\ \A e \in emails \cup owing : e.tries \in 0..OutTries /\ e.of \in DOMAIN outages
  /\ outPc # "sending" => owing = {}
  /\ \A e, f \in owing : Key(e) = Key(f) => e = f
  /\ \A e \in owing, x \in emails : Key(x) = Key(e) => x.tries < OutTries

LEMMA RowsKept ==
  ASSUME OutInv, MinutesCounted, OutageRowsIn, OutNext \/ UNCHANGED outVars
  PROVE  OutageRowsIn' /\ DOMAIN outages \subseteq DOMAIN outages'
<1>1. /\ minute \in 0..OutLastMinute /\ outages \in Seq(OutageRow)
      /\ counted.last \in Int /\ counted.last >= -1
  BY DEF OutInv, OutTyped, MinutesCounted, CountsKept
<1>2. ASSUME UNCHANGED outages PROVE OutageRowsIn' /\ DOMAIN outages \subseteq DOMAIN outages'
  BY <1>2 DEF OutageRowsIn
<1>3. ASSUME NEW row \in OutageRow, row.start \in 0..OutLastMinute, row.end \in -1..OutLastMinute,
             outages' = Append(outages, row)
      PROVE  OutageRowsIn' /\ DOMAIN outages \subseteq DOMAIN outages'
  <2>1. /\ DOMAIN outages' = DOMAIN outages \cup {Len(outages')} /\ outages'[Len(outages')] = row
        /\ \A i \in DOMAIN outages : outages'[i] = outages[i]
    BY <1>3, RowAppended DEF OutInv
  <2> QED
    BY <1>3, <2>1 DEF OutageRowsIn
<1>4. CASE site_back
  <2> DEFINE row == [of |-> Site, start |-> counted.last + 1, end |-> minute, told |-> TRUE]
  <2>1. CASE UNCHANGED outages
    BY <1>2, <2>1
  <2>2. CASE /\ ~(minute - (counted.last + 1) < NewsAfter + OutGrace)
             /\ outages' = Append(outages, row)
    <3>1. row \in OutageRow /\ row.start = counted.last + 1 /\ row.end = minute
      BY <1>1 DEF OutageRow
    <3>2. row.start \in 0..OutLastMinute
      BY <3>1, <2>2, <1>1, OutagesAssumption
    <3>3. row.end \in -1..OutLastMinute
      BY <3>1, <1>1
    <3> HIDE DEF row
    <3> QED
      BY <1>3, <2>2, <3>1, <3>2, <3>3
  <2> QED
    BY <1>4, <2>1, <2>2 DEF site_back
<1>5. ASSUME NEW m \in OutMachines, begin_outage(m)
      PROVE  OutageRowsIn' /\ DOMAIN outages \subseteq DOMAIN outages'
  <2> DEFINE row == [of |-> m, start |-> snap[m].since, end |-> -1, told |-> FALSE]
  <2>1. /\ outPc = "judge" /\ m \in DOMAIN snap /\ snap[m].level = "red"
        /\ outages' = Append(outages, row)
    BY <1>5 DEF begin_outage, ToBegin
  <2>2. snap[m].since \in 0..OutLastMinute
    BY <2>1 DEF MinutesCounted
  <2>3. row \in OutageRow /\ row.start \in 0..OutLastMinute /\ row.end \in -1..OutLastMinute
    BY <2>2, OutagesAssumption DEF OutageRow
  <2> HIDE DEF row
  <2> QED
    BY <1>3, <2>1, <2>3
<1>6. ASSUME NEW i \in OpenOutages, owe_outage_start(i)
      PROVE  OutageRowsIn' /\ DOMAIN outages \subseteq DOMAIN outages'
  <2>1. outages' = [outages EXCEPT ![i].told = TRUE]
    BY <1>6 DEF owe_outage_start
  <2>2. DOMAIN outages' = DOMAIN outages
        /\ \A j \in DOMAIN outages : outages'[j].start = outages[j].start /\ outages'[j].end = outages[j].end
    BY <1>1, <2>1 DEF OutageRow
  <2> QED
    BY <2>2 DEF OutageRowsIn
<1>7. ASSUME NEW i \in OpenOutages, end_outage(i)
      PROVE  OutageRowsIn' /\ DOMAIN outages \subseteq DOMAIN outages'
  <2>1. outages' = [outages EXCEPT ![i].end = minute]
    BY <1>7 DEF end_outage
  <2>2. DOMAIN outages' = DOMAIN outages
        /\ \A j \in DOMAIN outages : outages'[j].start = outages[j].start
                                     /\ outages'[j].end \in {outages[j].end, minute}
    BY <1>1, <2>1 DEF OutageRow
  <2>3. minute \in -1..OutLastMinute
    BY <1>1
  <2> QED
    BY <2>2, <2>3 DEF OutageRowsIn
<1>8. CASE UNCHANGED outVars
  BY <1>2, <1>8 DEF outVars
<1>9. CASE MinutePasses \/ Stop \/ set_listening_since \/ count_status \/ owed_outage_emails \/ MinuteDone
  BY <1>2, <1>9 DEF MinutePasses, Stop, set_listening_since, count_status, owed_outage_emails, MinuteDone
<1>10. ASSUME NEW m \in OutMachines, NEW bad \in BOOLEAN, SetCounts(m) \/ RecordHeartbeat(m, bad)
       PROVE  UNCHANGED outages
  BY <1>10 DEF SetCounts, RecordHeartbeat
<1>11. ASSUME NEW h \in OutHolders, set_outage_emails(h) PROVE UNCHANGED outages
  BY <1>11 DEF set_outage_emails
<1>12. ASSUME NEW e \in owing, NEW taken \in BOOLEAN, Sent(e, taken) \/ SentButNotMarked(e)
       PROVE  UNCHANGED outages
  BY <1>12 DEF Sent, SentButNotMarked
<1> QED
  BY <1>2, <1>4, <1>5, <1>6, <1>7, <1>8, <1>9, <1>10, <1>11, <1>12 DEF OutNext

LEMMA TriesKept ==
  ASSUME OutInv, TriesIn, DOMAIN outages \subseteq DOMAIN outages', OutNext \/ UNCHANGED outVars
  PROVE  TriesIn'
<1>1. emails \subseteq EmailRow /\ owing \subseteq EmailRow /\ OutTries \in Nat \ {0}
  BY OutagesAssumption DEF OutInv, OutTyped
<1>2. ASSUME outPc # "sending" \/ owing = {}, owing' = owing,
             \A e \in emails' : e \in emails \/ (e.tries = 0 /\ e.of \in DOMAIN outages')
      PROVE  TriesIn'
  BY <1>1, <1>2 DEF TriesIn
<1>3. ASSUME emails' \subseteq emails, owing' \subseteq owing, outPc' = "sending" \/ owing' = {}
      PROVE  TriesIn'
  BY <1>3 DEF TriesIn
<1>4. CASE UNCHANGED outVars
  BY <1>3, <1>4 DEF outVars, TriesIn
<1>5. CASE MinutePasses \/ Stop \/ set_listening_since \/ count_status \/ MinuteDone
  <2>1. emails' = emails /\ owing' \subseteq owing
        /\ (outPc' = "sending" => outPc = "sending") /\ (outPc' = outPc \/ owing' = {} \/ outPc # "sending")
    BY <1>5 DEF MinutePasses, Stop, set_listening_since, count_status, MinuteDone
  <2> QED
    BY <1>3, <2>1 DEF TriesIn
<1>6. ASSUME NEW m \in OutMachines, NEW bad \in BOOLEAN,
             SetCounts(m) \/ begin_outage(m) \/ RecordHeartbeat(m, bad)
      PROVE  TriesIn'
  <2>1. UNCHANGED <<emails, owing, outPc>>
    BY <1>6 DEF SetCounts, begin_outage, RecordHeartbeat
  <2> QED
    BY <1>3, <2>1 DEF TriesIn
<1>7. ASSUME NEW h \in OutHolders, set_outage_emails(h) PROVE TriesIn'
  <2>1. emails' \subseteq emails /\ UNCHANGED <<owing, outPc>>
    BY <1>7 DEF set_outage_emails
  <2> QED
    BY <1>3, <2>1 DEF TriesIn
<1>9. CASE site_back
  <2>1. outPc = "idle" /\ owing' = owing
        /\ (emails' = emails \/ (/\ emails' = emails \cup Owed(Len(outages'), "site", wants)
                                 /\ \E r : outages' = Append(outages, r)))
    BY <1>9 DEF site_back
  <2>2. \A e \in Owed(Len(outages'), "site", wants) : e.tries = 0 /\ e.of = Len(outages')
    BY DEF Owed
  <2>3. ASSUME NEW r, outages' = Append(outages, r) PROVE Len(outages') \in DOMAIN outages'
    BY <2>3 DEF OutInv, OutTyped
  <2> QED
    BY <1>2, <2>1, <2>2, <2>3
<1>10. ASSUME NEW i \in OpenOutages, owe_outage_start(i) \/ end_outage(i) PROVE TriesIn'
  <2>1. outPc = "judge" /\ owing' = owing /\ i \in DOMAIN outages
    BY <1>10 DEF owe_outage_start, end_outage, OpenOutages
  <2>2. \A e \in emails' : e \in emails \/ (e.tries = 0 /\ e.of = i)
    BY <1>10 DEF owe_outage_start, end_outage, Owed
  <2> QED
    BY <1>2, <2>1, <2>2
<1>11. CASE owed_outage_emails
  <2>1. emails' = emails /\ owing' \subseteq {e \in emails : e.tries < OutTries} /\ outPc' = "sending"
    BY <1>11 DEF owed_outage_emails
  <2>2. \A e, f \in emails : Key(e) = Key(f) => e = f
    BY DEF OutInv, EmailsOwed
  <2> QED
    BY <2>1, <2>2 DEF TriesIn
<1>12. ASSUME NEW e \in owing, SentButNotMarked(e) PROVE TriesIn'
  BY <1>3, <1>12 DEF SentButNotMarked
<1>13. ASSUME NEW e \in owing, NEW taken \in BOOLEAN, Sent(e, taken) PROVE TriesIn'
  <2>1. /\ outPc = "sending" /\ outPc' = outPc /\ owing' = owing \ {e} /\ outages' = outages
        /\ emails' = {Marked(x, e, taken) : x \in emails}
    BY <1>13 DEF Sent, Marked
  <2>2. ASSUME NEW x \in emails
        PROVE  /\ Key(Marked(x, e, taken)) = Key(x) /\ Marked(x, e, taken).of = x.of
               /\ Marked(x, e, taken).tries \in 0..OutTries
               /\ Key(x) # Key(e) => Marked(x, e, taken) = x
    <3>1. x \in EmailRow /\ x.tries \in 0..OutTries /\ (Key(x) = Key(e) => x.tries < OutTries)
      BY <1>1 DEF TriesIn
    <3>2. Key(x) # Key(e) => Marked(x, e, taken) = x
      BY DEF Marked
    <3>3. Key(x) = Key(e) => Marked(x, e, taken).tries = x.tries + 1
      BY <3>1 DEF Marked, EmailRow
    <3>4. Key(Marked(x, e, taken)) = Key(x) /\ Marked(x, e, taken).of = x.of
      BY <1>1, <1>13, MarkedRow
    <3>5. x.tries < OutTries => x.tries + 1 \in 0..OutTries
      BY <1>1, <3>1
    <3> QED
      BY <3>1, <3>2, <3>3, <3>4, <3>5
  <2>3. \A y \in emails' : \E x \in emails : y = Marked(x, e, taken)
    BY <2>1
  <2>4. \A y \in emails' : y.tries \in 0..OutTries /\ y.of \in DOMAIN outages'
    BY <2>1, <2>2, <2>3 DEF TriesIn
  <2>5. \A f \in owing' : f \in owing /\ Key(f) # Key(e)
    BY <2>1 DEF TriesIn
  <2>6. \A f \in owing', y \in emails' : Key(y) = Key(f) => y.tries < OutTries
    <3> SUFFICES ASSUME NEW f \in owing', NEW y \in emails', Key(y) = Key(f) PROVE y.tries < OutTries
      OBVIOUS
    <3>1. PICK x \in emails : y = Marked(x, e, taken)
      BY <2>3
    <3>2. Key(x) = Key(f) /\ Key(x) # Key(e)
      BY <2>2, <2>5, <3>1
    <3>3. y = x
      BY <2>2, <3>1, <3>2
    <3> QED
      BY <2>5, <3>2, <3>3 DEF TriesIn
  <2> QED
    BY <2>1, <2>4, <2>5, <2>6 DEF TriesIn
<1> QED
  BY <1>4, <1>5, <1>6, <1>7, <1>9, <1>10, <1>11, <1>12, <1>13 DEF OutNext

OutBounded == MinutesCounted /\ OutageRowsIn /\ TriesIn

LEMMA OutBoundedInit == OutInit => OutBounded
<1> SUFFICES ASSUME OutInit PROVE OutBounded
  OBVIOUS
<1>1. MinutesCounted
  BY OutagesAssumption DEF OutInit, MinutesCounted
<1>2. OutageRowsIn /\ TriesIn
  BY DEF OutInit, OutageRowsIn, TriesIn
<1> QED
  BY <1>1, <1>2 DEF OutBounded

LEMMA OutBoundedKept ==
  ASSUME OutInv, OutBounded, OutNext \/ UNCHANGED outVars
  PROVE  OutBounded'
BY MinutesCountedKept, RowsKept, TriesKept DEF OutBounded

LEMMA OutTypeFollows == ASSUME OutInv, OutBounded PROVE OutTypeOK
<1>1. OutTyped /\ MinutesCounted /\ OutageRowsIn /\ TriesIn
  BY DEF OutInv, OutBounded
<1>2. /\ minute \in 0..OutLastMinute /\ listening \in 0..OutLastMinute
      /\ stops \in 0..OutMaxStops /\ changes \in 0..OutMaxChanges
      /\ outPc \in {"idle", "count", "judge", "sending", "stopped"}
      /\ counts \subseteq OutMachines /\ DOMAIN snap \subseteq OutMachines /\ wants \subseteq OutHolders
  BY <1>1, OutagesAssumption DEF OutTyped, MinutesCounted
<1>3. heard \in [OutMachines -> 0..OutLastMinute] /\ wrong \in [OutMachines -> -1..OutLastMinute]
  BY <1>1, OutagesAssumption DEF OutTyped, MinutesCounted
<1>4. \A i \in DOMAIN outages :
        outages[i] \in [of : {Site} \cup OutMachines, start : 0..OutLastMinute,
                        end : -1..OutLastMinute, told : BOOLEAN]
  <2>1. \A i \in DOMAIN outages : outages[i] \in OutageRow
    BY <1>1 DEF OutTyped
  <2> QED
    BY <1>1, <2>1 DEF OutageRow, OutageRowsIn
<1>5. emails \cup owing \subseteq [of : DOMAIN outages, kind : {"down", "back", "site"},
                                   to : OutHolders, tries : 0..OutTries, sent : BOOLEAN]
  <2>1. \A e \in emails \cup owing : e \in EmailRow
    BY <1>1 DEF OutTyped
  <2> QED
    BY <1>1, <2>1 DEF EmailRow, Kinds, TriesIn
<1> QED
  BY <1>2, <1>3, <1>4, <1>5 DEF OutTypeOK

-----------------------------------------------------------------------------
(* Alerts.  What is found says each rule at one level: which, the report    *)
(* tells.                                                                   *)
CriticalRules ==
  {"no_heartbeat", "claude_missing", "credentials_missing", "slot_wipe_failed", "slot_occupied",
   "slot_missing", "slot_token_expired", "account_elsewhere", "account_changed"}
LevelOf(r, rule) ==
  IF \/ rule \in CriticalRules
     \/ rule = "disk_high" /\ r.disk = "full"
     \/ rule = "quota_high" /\ r.quota = "spent"
  THEN "critical" ELSE "warn"
AtItsLevel(f, r) == f = [rule |-> f.rule, level |-> LevelOf(r, f.rule)]

LEMMA SaidCritical ==
  ASSUME NEW r, NEW rule \in CriticalRules PROVE AtItsLevel(Critical(rule), r)
BY DEF AtItsLevel, Critical, LevelOf

LEMMA SaidWarning ==
  ASSUME NEW r, NEW rule, rule \notin CriticalRules, rule \notin {"disk_high", "quota_high"}
  PROVE  AtItsLevel(Warn(rule), r)
BY DEF AtItsLevel, Warn, LevelOf

LEMMA OwnerFindingsLevel ==
  ASSUME NEW r, NEW p, NEW n,
         NEW f \in claude_findings(r, p) \cup credential_findings(r) \cup disk_findings(r)
                     \cup quota_findings(n, r) \cup egress_findings(r, p) \cup remote_control_findings(r)
  PROVE  AtItsLevel(f, r)
<1>1. CASE f \in claude_findings(r, p)
  <2>1. f = Critical("claude_missing") \/ f = Warn("version_mismatch")
    BY <1>1, WhenHolds DEF claude_findings
  <2> QED
    BY <2>1, SaidCritical, SaidWarning DEF CriticalRules
<1>2. CASE f \in credential_findings(r)
  <2>1. f = Critical("credentials_missing") \/ f = Warn("token_expired")
    BY <1>2, WhenHolds DEF credential_findings
  <2> QED
    BY <2>1, SaidCritical, SaidWarning DEF CriticalRules
<1>3. CASE f \in disk_findings(r)
  <2>1. \/ r.disk = "full" /\ f = Critical("disk_high")
        \/ r.disk = "high" /\ f = Warn("disk_high")
    BY <1>3, WhenHolds DEF disk_findings
  <2> QED
    BY <2>1 DEF AtItsLevel, Critical, Warn, LevelOf, CriticalRules
<1>4. CASE f \in quota_findings(n, r)
  <2>1. f = IF r.quota = "spent" THEN Critical("quota_high") ELSE Warn("quota_high")
    BY <1>4, WhenHolds DEF quota_findings
  <2> QED
    BY <2>1 DEF AtItsLevel, Critical, Warn, LevelOf, CriticalRules
<1>5. CASE f \in egress_findings(r, p) \cup remote_control_findings(r)
  <2>1. f = Warn("egress_changed") \/ f = Warn("remote_control_down")
    BY <1>5, WhenHolds DEF egress_findings, remote_control_findings
  <2> QED
    BY <2>1, SaidWarning DEF CriticalRules
<1> QED
  BY <1>1, <1>2, <1>3, <1>4, <1>5

LEMMA SlotFindingsLevel ==
  ASSUME NEW r, NEW n,
         NEW f \in slot_findings(n, r) \cup slot_credential_findings(n, r)
                     \cup slot_compatibility_findings(n, r)
  PROVE  AtItsLevel(f, r)
<1>1. CASE f \in slot_findings(n, r)
  <2>1. \/ f \in {Critical("slot_wipe_failed"), Critical("slot_occupied"), Critical("slot_missing")}
        \/ f = Warn("slot_provision_failed")
    BY <1>1, WhenHolds DEF slot_findings
  <2> QED
    BY <2>1, SaidCritical, SaidWarning DEF CriticalRules
<1>2. CASE f \in slot_credential_findings(n, r)
  <2>1. \/ f = Critical("slot_token_expired")
        \/ f \in {Warn("slot_credentials_missing"), Warn("slot_sign_in_required"),
                  Warn("slot_credential_renewal")}
    BY <1>2, WhenHolds DEF slot_credential_findings
  <2> QED
    BY <2>1, SaidCritical, SaidWarning DEF CriticalRules
<1>3. CASE f \in slot_compatibility_findings(n, r)
  <2>1. f = Warn("slot_native_compatibility")
    BY <1>3, WhenHolds DEF slot_compatibility_findings
  <2> QED
    BY <2>1, SaidWarning DEF CriticalRules
<1> QED
  BY <1>1, <1>2, <1>3

LEMMA FindingsLevel ==
  ASSUME NEW n, NEW b, NEW f \in evaluate(n, b)
  PROVE  AtItsLevel(f, b[n].latest)
<1> DEFINE r == b[n].latest
           p == b[n].previous
<1>1. CASE f \in heartbeat_findings(n, r)
  <2>1. f = Critical("no_heartbeat")
    BY <1>1, WhenHolds DEF heartbeat_findings
  <2> QED
    BY <2>1, SaidCritical DEF CriticalRules
<1>2. CASE f \in When(elsewhere(n, b), Critical("account_elsewhere"))
                   \cup When(account_changed(n, r), Critical("account_changed"))
  <2>1. f = Critical("account_elsewhere") \/ f = Critical("account_changed")
    BY <1>2, WhenHolds
  <2> QED
    BY <2>1, SaidCritical DEF CriticalRules
<1>3. CASE f \in claude_findings(r, p) \cup credential_findings(r) \cup disk_findings(r)
                   \cup quota_findings(n, r) \cup egress_findings(r, p) \cup remote_control_findings(r)
  BY <1>3, OwnerFindingsLevel
<1>4. CASE f \in slot_findings(n, r) \cup slot_credential_findings(n, r)
                   \cup slot_compatibility_findings(n, r)
  BY <1>4, SlotFindingsLevel
<1> QED
  BY <1>1, <1>2, <1>3, <1>4 DEF evaluate

LEMMA FindingsApart ==
  ASSUME NEW n, NEW b, NEW f \in evaluate(n, b), NEW g \in evaluate(n, b), f.rule = g.rule
  PROVE  f.level = g.level /\ f.level \in {"warn", "critical"}
<1>1. AtItsLevel(f, b[n].latest) /\ AtItsLevel(g, b[n].latest)
  BY FindingsLevel
<1>2. \A h : AtItsLevel(h, b[n].latest) => h.level = LevelOf(b[n].latest, h.rule)
  <2> SUFFICES ASSUME NEW h, AtItsLevel(h, b[n].latest) PROVE h.level = LevelOf(b[n].latest, h.rule)
    OBVIOUS
  <2>1. PICK l : l = LevelOf(b[n].latest, h.rule)
    OBVIOUS
  <2>2. PICK r : r = [rule |-> h.rule, level |-> l]
    OBVIOUS
  <2>3. h = r
    BY <2>1, <2>2 DEF AtItsLevel
  <2> QED
    BY <2>1, <2>2, <2>3
<1> QED
  BY <1>1, <1>2 DEF LevelOf

AlertsTyped ==
  /\ \A a \in alerts : /\ a.node \in AlNodes /\ a.level \in {"warn", "critical"}
                       /\ a.at \in 0..AlLastTick
  /\ \A a, c \in alerts : a.node = c.node /\ a.rule = c.rule => a = c

AlCounted ==
  /\ alNow <= AlLastTick /\ alListening <= AlLastTick /\ alServing \in BOOLEAN /\ alOn \subseteq AlNodes
  /\ \A n \in AlNodes : alBeats[n].latest # Never => alBeats[n].latest.at <= AlLastTick
  /\ alSlot \in [AlShared -> [state : DOMAIN AlNextState, since : Nat]]
  /\ AlertsTyped

LEMMA JudgedTyped ==
  ASSUME NEW n \in AlNodes, NEW b, alNow \in 0..AlLastTick, AlertsTyped, alerts' = Reconciled(n, b)
  PROVE  AlertsTyped'
<1> DEFINE wanted == {f \in evaluate(n, b) : ~unconfirmed(n, b, f.rule)}
           mine == {a \in alerts : a.node = n}
           kept == {a \in mine : \/ [rule |-> a.rule, level |-> a.level] \in wanted
                                 \/ /\ unconfirmed(n, b, a.rule)
                                    /\ a.rule \notin {f.rule : f \in wanted}}
           opened == {f \in wanted : \A a \in kept : a.rule # f.rule}
           Opened(f) == [node |-> n, rule |-> f.rule, level |-> f.level, at |-> alNow]
           new == {Opened(f) : f \in opened}
<1>1. alerts' = (alerts \ mine) \cup kept \cup new
  BY DEF Reconciled
<1>2. \A y \in new : \E f \in opened : y = [node |-> n, rule |-> f.rule, level |-> f.level, at |-> alNow]
  OBVIOUS
<1>3. \A f \in opened : f \in evaluate(n, b) /\ \A a \in kept : a.rule # f.rule
  OBVIOUS
<1>4. \A a \in kept : a \in alerts /\ a.node = n
  OBVIOUS
<1>5. \A a \in alerts : a.node = n => a \in mine
  OBVIOUS
<1>6. \A f, g \in opened : f.rule = g.rule => f.level = g.level /\ f.level \in {"warn", "critical"}
  <2> HIDE DEF opened
  <2> QED
    BY <1>3, FindingsApart
<1> HIDE DEF wanted, mine, kept, opened, new
<1>7. \A y \in new : /\ y.node = n /\ y.level \in {"warn", "critical"} /\ y.at = alNow
                     /\ \A a \in kept : a.rule # y.rule
  BY <1>2, <1>3, <1>6
<1>8. \A y, z \in new : y.rule = z.rule => y = z
  <2> SUFFICES ASSUME NEW y \in new, NEW z \in new, y.rule = z.rule PROVE y = z
    OBVIOUS
  <2>1. PICK f \in opened : y = [node |-> n, rule |-> f.rule, level |-> f.level, at |-> alNow]
    BY <1>2
  <2>2. PICK g \in opened : z = [node |-> n, rule |-> g.rule, level |-> g.level, at |-> alNow]
    BY <1>2
  <2>3. f.rule = g.rule
    BY <2>1, <2>2
  <2> QED
    BY <1>6, <2>1, <2>2, <2>3
<1>9. \A a \in alerts' : a \in new \/ a \in alerts
  BY <1>1, <1>4
<1>10. \A a \in alerts' : a.node = n => a \in new \/ a \in kept
  BY <1>1, <1>5
<1>11. \A a \in alerts' : a.node # n => a \in alerts
  BY <1>7, <1>9
<1>12. \A a \in alerts' : a.node \in AlNodes /\ a.level \in {"warn", "critical"} /\ a.at \in 0..AlLastTick
  BY <1>7, <1>9 DEF AlertsTyped
<1>13. \A a, c \in alerts' : a.node = c.node /\ a.rule = c.rule => a = c
  <2> SUFFICES ASSUME NEW a \in alerts', NEW c \in alerts', a.node = c.node, a.rule = c.rule PROVE a = c
    OBVIOUS
  <2>1. \A x, y \in alerts : x.node = y.node /\ x.rule = y.rule => x = y
    BY DEF AlertsTyped
  <2>2. CASE a.node # n
    BY <2>1, <2>2, <1>11
  <2>3. CASE a.node = n
    BY <2>1, <2>3, <1>4, <1>7, <1>8, <1>10
  <2> QED
    BY <2>2, <2>3
<1> QED
  BY <1>12, <1>13 DEF AlertsTyped

LEMMA AlCountedKept ==
  ASSUME AlInv, AlCounted, AlNext \/ UNCHANGED alVars
  PROVE  AlCounted'
<1>1. /\ alNow \in 0..AlLastTick /\ alListening \in 0..AlLastTick /\ AlLastTick \in Nat
      /\ alServing \in BOOLEAN /\ alOn \subseteq AlNodes
      /\ alSlot \in [AlShared -> [state : DOMAIN AlNextState, since : Nat]]
      /\ \A n \in AlNodes : alBeats[n].latest # Never => alBeats[n].latest.at <= AlLastTick
      /\ alBeats = [n \in AlNodes |-> [latest |-> alBeats[n].latest, previous |-> alBeats[n].previous]]
      /\ AlertsTyped
  BY AlertsAssumption DEF AlInv, AlTyped, AlCounted
<1>2. ASSUME NEW n \in AlNodes, NEW shape, record_heartbeat(n, shape) PROVE AlCounted'
  <2> DEFINE now == Said(shape)
  <2>1. now.at = alNow
    BY DEF Said
  <2> HIDE DEF now
  <2>2. /\ alBeats' = [alBeats EXCEPT ![n] = [latest |-> now, previous |-> @.latest]]
        /\ alerts' = Reconciled(n, alBeats')
        /\ UNCHANGED <<alNow, alListening, alServing, alOn, alSlot>>
    BY <1>2 DEF record_heartbeat, now
  <2>3. \A m \in AlNodes : alBeats'[m].latest = now \/ alBeats'[m].latest = alBeats[m].latest
    BY <2>2, <1>1
  <2>4. AlertsTyped'
    BY <1>1, <2>2, JudgedTyped
  <2>5. \A m \in AlNodes : alBeats'[m].latest # Never => alBeats'[m].latest.at <= AlLastTick
    <3>1. now.at <= AlLastTick
      BY <1>1, <2>1
    <3>2. \A m \in AlNodes : alBeats[m].latest # Never => alBeats[m].latest.at <= AlLastTick
      BY <1>1
    <3> QED
      BY <2>3, <3>1, <3>2
  <2> QED
    BY <1>1, <2>2, <2>4, <2>5 DEF AlCounted
<1>3. ASSUME NEW n \in AlNodes, check_node(n) PROVE AlCounted'
  <2>1. alerts' = Reconciled(n, alBeats)
        /\ UNCHANGED <<alNow, alListening, alServing, alOn, alBeats, alSlot>>
    BY <1>3 DEF check_node
  <2>2. AlertsTyped'
    BY <1>1, <2>1, JudgedTyped
  <2> QED
    BY <1>1, <2>1, <2>2 DEF AlCounted
<1>4. CASE prune_heartbeats
  <2> DEFINE kept(r) == IF r # Never /\ alNow - r.at > AlRetention THEN Never ELSE r
  <2>1. /\ alBeats' = [n \in AlNodes |-> [latest |-> kept(alBeats[n].latest),
                                          previous |-> kept(alBeats[n].previous)]]
        /\ UNCHANGED <<alNow, alListening, alServing, alOn, alSlot, alerts>>
    BY <1>4 DEF prune_heartbeats
  <2>2. \A n \in AlNodes : alBeats'[n].latest = alBeats[n].latest \/ alBeats'[n].latest = Never
    BY <2>1
  <2> HIDE DEF kept
  <2>3. AlertsTyped'
    BY <1>1, <2>1 DEF AlertsTyped
  <2> QED
    BY <1>1, <2>1, <2>2, <2>3 DEF AlCounted
<1>5. CASE AlTick \/ AlStop \/ run_forever
  <2>1. UNCHANGED <<alBeats, alOn, alSlot, alerts>>
    BY <1>5 DEF AlTick, AlStop, run_forever
  <2>2. alNow' \in 0..AlLastTick /\ alListening' \in 0..AlLastTick
    <3>1. alNow' = alNow \/ (alNow < AlLastTick /\ alNow' = alNow + 1)
      BY <1>5 DEF AlTick, AlStop, run_forever
    <3>2. alListening' \in {alListening, alNow}
      BY <1>5 DEF AlTick, AlStop, run_forever
    <3> QED
      BY <1>1, <3>1, <3>2
  <2>3. alServing' \in BOOLEAN
    BY <1>1, <1>5, Zenon DEF AlTick, AlStop, run_forever
  <2> QED
    BY <1>1, <2>1, <2>2, <2>3 DEF AlCounted, AlertsTyped
<1>6. ASSUME NEW n \in AlShared, AlSlotMoves(n) PROVE AlCounted'
  <2>1. PICK next \in {AlNextState[alSlot[n].state]} \cup ({"active"} \cap {alSlot[n].state}) :
          alSlot' = [alSlot EXCEPT ![n].state = next,
                                   ![n].since = IF next \in {"claiming", "active"} THEN alNow ELSE @]
    BY <1>6 DEF AlSlotMoves
  <2>2. alSlot[n] \in [state : DOMAIN AlNextState, since : Nat]
    BY <1>1
  <2>3. next \in DOMAIN AlNextState
    BY <2>2 DEF AlNextState
  <2>4. PICK from : from = IF next \in {"claiming", "active"} THEN alNow ELSE alSlot[n].since
    OBVIOUS
  <2>5. from \in Nat
    BY <1>1, <2>2, <2>4
  <2>6. alSlot' = [alSlot EXCEPT ![n] = [state |-> next, since |-> from]]
    <3>0. PICK states : states = DOMAIN AlNextState
      OBVIOUS
    <3>1. PICK row : row \in [state : states, since : Nat] /\ row = alSlot[n]
      BY <2>2, <3>0
    <3>2. [row EXCEPT !.state = next, !.since = from] = [state |-> next, since |-> from]
      <4>1. [row EXCEPT !.state = next] = [state |-> next, since |-> row.since]
        BY <3>1
      <4>2. [[state |-> next, since |-> row.since] EXCEPT !.since = from] = [state |-> next, since |-> from]
        OBVIOUS
      <4>3. [row EXCEPT !.state = next, !.since = from] = [[row EXCEPT !.state = next] EXCEPT !.since = from]
        BY <3>1
      <4> QED
        BY <4>1, <4>2, <4>3
    <3>3. alSlot' = [alSlot EXCEPT ![n] = [row EXCEPT !.state = next, !.since = from]]
      BY <1>1, <2>1, <2>4, <3>1
    <3> QED
      BY <3>2, <3>3
  <2>7. alSlot' \in [AlShared -> [state : DOMAIN AlNextState, since : Nat]]
    BY <1>1, <2>3, <2>5, <2>6
  <2>8. UNCHANGED <<alNow, alListening, alServing, alOn, alBeats, alerts>>
    BY <1>6 DEF AlSlotMoves
  <2> QED
    BY <1>1, <2>7, <2>8 DEF AlCounted, AlertsTyped
<1>7. ASSUME NEW n \in AlNodes, SwitchNode(n) PROVE AlCounted'
  <2>1. /\ UNCHANGED <<alNow, alListening, alServing, alBeats, alSlot, alerts>>
        /\ alOn' = (alOn \ {n}) \cup ({n} \ alOn)
    BY <1>7 DEF SwitchNode
  <2> QED
    BY <1>1, <2>1 DEF AlCounted, AlertsTyped
<1>8. CASE UNCHANGED alVars
  BY <1>1, <1>8 DEF alVars, AlCounted, AlertsTyped
<1> QED
  BY <1>2, <1>3, <1>4, <1>5, <1>6, <1>7, <1>8 DEF AlNext, AlNodes

LEMMA AlCountedInit == AlInit => AlCounted
BY AlertsAssumption DEF AlInit, AlCounted, AlertsTyped, AlNextState

LEMMA AlTypeFollows == ASSUME AlInv, AlCounted PROVE AlTypeOK
<1>1. \A n \in AlNodes : alBeats[n].latest.at \in -1..AlLastTick
  BY AlertsAssumption DEF AlInv, AlTyped, AlCounted, Never
<1>2. \A n \in AlShared : alSlot[n].state \in DOMAIN AlNextState
  BY DEF AlCounted
<1> QED
  BY <1>1, <1>2, AlertsAssumption DEF AlInv, AlTyped, AlCounted, AlertsTyped, AlTypeOK

-----------------------------------------------------------------------------
(* What the gateway's variables may hold beside: a claim is no newer than   *)
(* the last, the generations together are the changes so far, a key's slots *)
(* are a selection, and an answer has no more chunks than the bound.        *)
GwCounted ==
  /\ \A s \in GwSlots : gwClaim[s] <= gwClaims
  /\ Total(gwGen, GwSlots) <= GwMaxBumps
  /\ gwKey # NoGw => gwKey.slots \in Selections
  /\ gwReq # NoGw => /\ gwReq.chunks <= GwMaxChunks
                     /\ gwReq.pc = "writing" => gwReq.chunks < GwMaxChunks

LEMMA GwBumpsAre == GwBumps = Total(gwGen, GwSlots)
<1> DEFINE P(it) == it = [s \in SUBSET GwSlots |-> IF s = {} THEN 0
                           ELSE gwGen[CHOOSE x \in s : TRUE] + it[s \ {CHOOSE x \in s : TRUE}]]
<1>1. GwBumps = (CHOOSE it : P(it))[GwSlots]
  BY DEF GwBumps, FoldSet, MapThenFoldSet
<1>2. ASSUME NEW it PROVE P(it) <=> Adds(gwGen, GwSlots, it)
  BY DEF Adds, First
<1>3. PICK it : Adds(gwGen, GwSlots, it)
  BY AddsExists, GatewayAssumption
<1> HIDE DEF P
<1>4. P(CHOOSE jt : P(jt))
  BY <1>2, <1>3
<1>5. Adds(gwGen, GwSlots, CHOOSE jt : P(jt))
  BY <1>2, <1>4
<1> QED
  BY <1>1, <1>5, TotalIs, GatewayAssumption

LEMMA GwGenNoMore ==
  ASSUME GwInv, NEW s \in GwSlots
  PROVE  gwGen[s] <= Total(gwGen, GwSlots)
<1>1. \A x \in GwSlots : gwGen[x] \in Nat /\ gwGen[x] \in Int
  BY DEF GwInv, GwTyped
<1>2. Total(gwGen, GwSlots) = gwGen[s] + Total(gwGen, GwSlots \ {s})
  BY <1>1, TotalWithout, GatewayAssumption
<1>3. Total(gwGen, GwSlots \ {s}) \in Nat
  <2>1. IsFiniteSet(GwSlots \ {s}) /\ \A x \in GwSlots \ {s} : gwGen[x] \in Nat
    BY <1>1, FS_Subset, GatewayAssumption
  <2> QED
    BY <2>1, TotalNat
<1> QED
  BY <1>1, <1>2, <1>3

LEMMA BumpCounted ==
  ASSUME GwInv, GwCounted, NEW s \in GwSlots, GwBump(s)
  PROVE  Total(gwGen, GwSlots)' <= GwMaxBumps
<1>1. gwGen \in [GwSlots -> Nat] /\ gwGen' = [gwGen EXCEPT ![s] = @ + 1]
  BY DEF GwInv, GwTyped, GwBump
<1>0. PICK G : G = gwGen'
  OBVIOUS
<1>2. /\ \A y \in GwSlots : gwGen[y] \in Int /\ G[y] \in Int
      /\ \A y \in GwSlots : y # s => G[y] = gwGen[y]
      /\ G[s] = gwGen[s] + 1 /\ gwGen[s] \in Int
  BY <1>0, <1>1
<1>3. Total(gwGen, GwSlots) < GwMaxBumps
  BY GwBumpsAre DEF GwBump
<1>4. Total(gwGen, GwSlots) \in Int /\ Total(G, GwSlots) = Total(gwGen, GwSlots) + (G[s] - gwGen[s])
  <2>1. IsFiniteSet(GwSlots)
    BY GatewayAssumption
  <2>2. \A y \in GwSlots : gwGen[y] \in Int /\ G[y] \in Int
    BY <1>2
  <2>3. \A y \in GwSlots : y # s => G[y] = gwGen[y]
    BY <1>2
  <2> QED
    BY <2>1, <2>2, <2>3, TotalMoves
<1>5. Total(G, GwSlots) <= GwMaxBumps
  <2> DEFINE n == Total(gwGen, GwSlots)  m == Total(G, GwSlots)
  <2>1. n \in Int /\ n < GwMaxBumps /\ m = n + (G[s] - gwGen[s])
    BY <1>3, <1>4
  <2> HIDE DEF n, m
  <2>2. m <= GwMaxBumps
    BY <1>2, <2>1, GatewayAssumption
  <2> QED
    BY <2>2 DEF m
<1>6. Total(gwGen, GwSlots)' = Total(G, GwSlots)
  BY <1>0
<1> QED
  BY <1>5, <1>6

(* A key's slots are chosen among the selections, and only so.              *)
LEMMA KeySlotsStay ==
  ASSUME GwInv, GwCounted, gwKey # NoGw, gwKey'.slots = gwKey.slots
  PROVE  gwKey' # NoGw => gwKey'.slots \in Selections
<1>1. gwKey.slots \in Selections
  BY DEF GwCounted
<1> QED
  BY <1>1

LEMMA EditedKeepsSlots ==
  ASSUME NEW k \in GwKeys, NEW over, NEW x, NEW y
  PROVE  /\ [k EXCEPT !.revoked = over, !.gen = x, !.edits = y].slots = k.slots
         /\ [k EXCEPT !.gen = x, !.edits = y].slots = k.slots
  BY DEF GwKeys

LEMMA InvalidateKeepsSlots ==
  ASSUME GwInv, GwCounted, NEW s \in GwSlots, UNCHANGED gwKey \/ _invalidate_provider_keys(s)
  PROVE  (gwKey # NoGw => gwKey.slots \in Selections)'
<1>1. CASE UNCHANGED gwKey
  BY <1>1 DEF GwCounted
<1>2. CASE gwKey # NoGw /\ gwKey' = [gwKey EXCEPT !.gen = @ + 1, !.edits = @ + 1]
  <2>1. gwKey \in GwKeys
    BY <1>2 DEF GwInv, GwTyped
  <2>2. gwKey' = [gwKey EXCEPT !.gen = gwKey.gen + 1, !.edits = gwKey.edits + 1]
    BY <1>2, <2>1 DEF GwKeys
  <2>3. gwKey'.slots = gwKey.slots
    BY <2>1, <2>2, EditedKeepsSlots
  <2> QED
    BY <1>2, <2>3, KeySlotsStay
<1> QED
  BY <1>1, <1>2, Zenon DEF _invalidate_provider_keys

LEMMA GwStoreCounted ==
  ASSUME GwInv, GwCounted, NEW s \in GwSlots,
         \/ \E h \in GwOwners : GwClaimSlot(s, h)
         \/ GwReleaseSlot(s) \/ GwSlotStirs(s)
         \/ \E fp \in GwFingerprints : bind_gateway_provider(s, fp)
         \/ revoke_gateway_provider_binding(s)
  PROVE  GwCounted'
<1>1. /\ \A o \in GwSlots : gwClaim[o] \in Nat /\ gwClaim[o] <= gwClaims
      /\ gwClaims \in Nat /\ gwClaim \in [GwSlots -> Nat]
  BY DEF GwInv, GwTyped, GwCounted
<1>2. ASSUME NEW h \in GwOwners, GwClaimSlot(s, h) PROVE GwCounted'
  <2>1. /\ gwClaims' = gwClaims + 1 /\ gwClaim' = [gwClaim EXCEPT ![s] = gwClaims + 1]
        /\ GwBump(s) /\ UNCHANGED <<gwKey, gwReq>>
    BY <1>2 DEF GwClaimSlot, gwRequest
  <2>2. \A o \in GwSlots : gwClaim'[o] <= gwClaims'
    BY <1>1, <2>1
  <2> QED
    BY <2>1, <2>2, BumpCounted DEF GwCounted
<1>3. ASSUME GwReleaseSlot(s) PROVE GwCounted'
  <2>1. /\ gwClaim' = [gwClaim EXCEPT ![s] = 0] /\ gwClaims' = gwClaims
        /\ GwBump(s) /\ UNCHANGED <<gwKey, gwReq>>
    BY <1>3 DEF GwReleaseSlot, gwRequest
  <2>2. \A o \in GwSlots : gwClaim'[o] <= gwClaims'
    BY <1>1, <2>1
  <2> QED
    BY <2>1, <2>2, BumpCounted DEF GwCounted
<1>4. ASSUME GwSlotStirs(s) PROVE GwCounted'
  <2>1. GwBump(s) /\ UNCHANGED <<gwClaim, gwClaims, gwKey, gwReq>>
    BY <1>4 DEF GwSlotStirs, gwRequest
  <2> QED
    BY <2>1, BumpCounted DEF GwCounted
<1>5. ASSUME \/ \E fp \in GwFingerprints : bind_gateway_provider(s, fp)
             \/ revoke_gateway_provider_binding(s)
      PROVE  GwCounted'
  <2>1. /\ UNCHANGED <<gwSlotVars, gwRequest>>
        /\ UNCHANGED gwKey \/ _invalidate_provider_keys(s)
    BY <1>5 DEF bind_gateway_provider, revoke_gateway_provider_binding
  <2>2. UNCHANGED <<gwClaim, gwClaims, gwGen, gwReq>>
    BY <2>1 DEF gwSlotVars, gwRequest
  <2> QED
    BY <2>1, <2>2, InvalidateKeepsSlots DEF GwCounted
<1> QED
  BY <1>2, <1>3, <1>4, <1>5

LEMMA GwKeyCounted ==
  ASSUME GwInv, GwCounted,
         \/ \E p \in Providers, slots \in Selections :
              \/ \E h \in GwOwners : create_gateway_key(h, p, slots)
              \/ update_gateway_key(p, slots)
         \/ revoke_gateway_key \/ _rename_gateway_slots
  PROVE  GwCounted'
<1>1. UNCHANGED <<gwSlotVars, gwRequest>>
  BY DEF create_gateway_key, update_gateway_key, revoke_gateway_key, _rename_gateway_slots
<1>2. UNCHANGED <<gwClaim, gwClaims, gwGen, gwReq>>
  BY <1>1 DEF gwSlotVars, gwRequest
<1>3. ASSUME NEW p \in Providers, NEW slots \in Selections, NEW h \in GwOwners,
             create_gateway_key(h, p, slots)
      PROVE  gwKey'.slots \in Selections
  BY <1>3 DEF create_gateway_key, Chosen
<1>4. ASSUME NEW p \in Providers, NEW slots \in Selections, update_gateway_key(p, slots)
      PROVE  gwKey'.slots \in Selections
  <2>1. gwKey' = Edited(Chosen(gwKey.account, p, slots))
    BY <1>4 DEF update_gateway_key
  <2>2. gwKey'.slots = slots
    BY <2>1 DEF Edited, Chosen
  <2> QED
    BY <2>2
<1>5. ASSUME revoke_gateway_key \/ _rename_gateway_slots
      PROVE  gwKey # NoGw /\ gwKey'.slots = gwKey.slots
  <2>1. gwKey # NoGw
    BY <1>5 DEF revoke_gateway_key, _rename_gateway_slots
  <2>2. gwKey \in GwKeys
    BY <2>1 DEF GwInv, GwTyped
  <2>3. CASE revoke_gateway_key
    BY <2>2, <2>3 DEF revoke_gateway_key, GwKeys
  <2>4. CASE _rename_gateway_slots
    BY <2>2, <2>4 DEF _rename_gateway_slots, GwKeys
  <2> QED
    BY <1>5, <2>1, <2>3, <2>4
<1>6. gwKey' # NoGw => gwKey'.slots \in Selections
  BY <1>3, <1>4, <1>5, KeySlotsStay
<1> QED
  BY <1>2, <1>6 DEF GwCounted

(* A step of the request over a store that stays.                           *)
LEMMA ChunksKept ==
  ASSUME GwInv, GwCounted, UNCHANGED gwStore,
         gwReq' # NoGw => /\ gwReq'.chunks <= GwMaxChunks
                          /\ gwReq'.pc = "writing" => gwReq'.chunks < GwMaxChunks
  PROVE  GwCounted'
  BY DEF GwCounted, gwStore, gwSlotVars

LEMMA GoesOnCounted ==
  ASSUME GwInv, GwCounted, UNCHANGED gwStore, gwReq # NoGw,
         \/ \E pc \in GwSteps \ {"writing"} : GwTo(pc)
         \/ GwNextSlot
  PROVE  GwCounted'
<1>1. gwReq \in GwRequests /\ gwReq.chunks <= GwMaxChunks
  BY RequestFields DEF GwCounted
<1>2. ASSUME NEW pc \in GwSteps \ {"writing"}, GwTo(pc)
      PROVE  gwReq'.chunks = gwReq.chunks /\ gwReq'.pc # "writing"
  BY <1>1, <1>2 DEF GwTo, GwRequests
<1>3. ASSUME GwNextSlot PROVE gwReq'.chunks = gwReq.chunks /\ gwReq'.pc # "writing"
  <2>1. gwReq' = [gwReq EXCEPT !.pc = "trying", !.pos = gwReq.pos + 1]
    BY <1>1, <1>3 DEF GwNextSlot, GwRequests
  <2> QED
    BY <1>1, <2>1 DEF GwRequests
<1> QED
  BY <1>1, <1>2, <1>3, ChunksKept

LEMMA GwRequestCounted ==
  ASSUME GwInv, GwCounted,
         \/ authenticate \/ _targets \/ TrySlot \/ StartFails \/ admitted_before_send
         \/ _send_to_slot \/ StreamBreaks \/ Refused \/ GwAnswered
         \/ ChunkChecked \/ ChunkWritten \/ GwAnother
  PROVE  GwCounted'
<1>1. UNCHANGED gwStore
  BY DEF authenticate, _targets, TrySlot, StartFails, admitted_before_send, _send_to_slot,
         StreamBreaks, Refused, GwAnswered, ChunkChecked, ChunkWritten, GwAnother
<1>2. CASE authenticate
  <2>1. gwReq'.chunks = 0 /\ gwReq'.pc = "keyed"
    BY <1>2 DEF authenticate
  <2> QED
    BY <1>1, <2>1, ChunksKept, GatewayAssumption
<1>3. CASE _targets
  <2>1. gwReq # NoGw
    BY <1>3 DEF _targets, GwIn
  <2>2. CASE GwTo("done")
    BY <1>1, <2>1, <2>2, GoesOnCounted DEF GwSteps
  <2>3. CASE \E targets, pinned : gwReq' = [gwReq EXCEPT !.pc = "trying", !.pinned = pinned,
                                                         !.targets = targets]
    <3>1. gwReq \in GwRequests /\ gwReq.chunks <= GwMaxChunks
      BY <2>1, RequestFields DEF GwCounted
    <3>2. gwReq'.chunks = gwReq.chunks /\ gwReq'.pc = "trying"
      BY <2>3, <3>1 DEF GwRequests
    <3> QED
      BY <1>1, <3>1, <3>2, ChunksKept
  <2> QED
    BY <1>3, <2>2, <2>3, Zenon DEF _targets
<1>4. CASE TrySlot
  <2>1. gwReq # NoGw /\ (GwTo("done") \/ GwTo("starting") \/ GwNextSlot)
    BY <1>4 DEF TrySlot, GwIn
  <2> QED
    BY <1>1, <2>1, GoesOnCounted DEF GwSteps
<1>5. CASE StartFails
  <2>1. gwReq # NoGw /\ (GwTo("done") \/ GwNextSlot)
    BY <1>5 DEF StartFails, GwIn
  <2> QED
    BY <1>1, <2>1, GoesOnCounted DEF GwSteps
<1>6. CASE admitted_before_send \/ _send_to_slot \/ StreamBreaks
  <2>1. gwReq # NoGw /\ (GwTo("done") \/ GwTo("begun") \/ GwTo("sent"))
    BY <1>6 DEF admitted_before_send, _send_to_slot, StreamBreaks, GwIn
  <2> QED
    BY <1>1, <2>1, GoesOnCounted DEF GwSteps
<1>7. CASE Refused \/ GwAnswered
  <2>1. gwReq # NoGw /\ (GwTo("done") \/ GwTo("answering") \/ GwNextSlot)
    BY <1>7 DEF Refused, GwAnswered, GwIn
  <2> QED
    BY <1>1, <2>1, GoesOnCounted DEF GwSteps
<1>8. CASE ChunkChecked
  <2>1. gwReq # NoGw /\ gwReq.chunks < GwMaxChunks /\ (GwTo("done") \/ GwTo("writing"))
    BY <1>8 DEF ChunkChecked, GwIn
  <2>2. gwReq \in GwRequests
    BY <2>1, RequestFields
  <2>3. CASE GwTo("done")
    BY <1>1, <2>1, <2>3, GoesOnCounted DEF GwSteps
  <2>4. CASE GwTo("writing")
    <3>1. gwReq'.chunks = gwReq.chunks
      BY <2>2, <2>4 DEF GwTo, GwRequests
    <3>2. gwReq.chunks \in Nat
      BY <2>2 DEF GwRequests
    <3> QED
      BY <1>1, <2>1, <3>1, <3>2, ChunksKept, GatewayAssumption
  <2> QED
    BY <2>1, <2>3, <2>4
<1>9. CASE ChunkWritten
  <2>1. gwReq # NoGw /\ gwReq.pc = "writing"
        /\ gwReq' = [gwReq EXCEPT !.pc = "answering", !.chunks = @ + 1]
    BY <1>9 DEF ChunkWritten, GwIn
  <2>2. gwReq \in GwRequests /\ gwReq.chunks < GwMaxChunks
    BY <2>1, RequestFields DEF GwCounted
  <2>3. gwReq'.chunks = gwReq.chunks + 1 /\ gwReq'.pc = "answering" /\ gwReq.chunks \in Nat
    BY <2>1, <2>2 DEF GwRequests
  <2> QED
    BY <1>1, <2>2, <2>3, ChunksKept, GatewayAssumption
<1>10. CASE GwAnother
  <2>1. gwReq' = NoGw
    BY <1>10 DEF GwAnother
  <2> QED
    BY <1>1, <2>1, ChunksKept
<1> QED
  BY <1>2, <1>3, <1>4, <1>5, <1>6, <1>7, <1>8, <1>9, <1>10

LEMMA GwCountedKept ==
  ASSUME GwInv, GwCounted, GwNext \/ UNCHANGED gwVars
  PROVE  GwCounted'
<1>1. CASE UNCHANGED gwVars
  BY <1>1 DEF GwCounted, gwVars, gwStore, gwSlotVars, gwRequest
<1>2. CASE GwNext
  BY <1>2, GwStoreCounted, GwKeyCounted, GwRequestCounted DEF GwNext
<1> QED
  BY <1>1, <1>2

LEMMA TotalOfNothing ==
  ASSUME NEW S, IsFiniteSet(S), NEW F, \A y \in S : F[y] = 0
  PROVE  Total(F, S) = 0
<1> DEFINE Bad == {s \in SUBSET S : Total(F, s) # 0}
<1>1. ASSUME Bad # {} PROVE FALSE
  <2>0. PICK a \in Bad : \A b \in Bad : ~(b \subseteq a /\ b # a)
    <3>1. Bad \subseteq SUBSET S
      OBVIOUS
    <3> HIDE DEF Bad
    <3> QED
      BY <1>1, <3>1, SmallestSet
  <2>1. /\ Total(F, a) # 0 /\ a \in SUBSET S
        /\ \A b \in SUBSET S : b \subseteq a /\ b # a => Total(F, b) = 0
    BY <2>0
  <2>2. IsFiniteSet(a)
    BY <2>1, FS_Subset
  <2>3. a # {}
    BY <2>1, TotalEmpty
  <2>4. First(a) \in a
    BY <2>3, FirstIsIn
  <2>5. Total(F, a \ {First(a)}) = 0
    BY <2>1, <2>4
  <2>6. Total(F, a) = F[First(a)] + Total(F, a \ {First(a)})
    BY <2>2, <2>3, TotalFirst
  <2>7. F[First(a)] = 0
    BY <2>1, <2>4
  <2> QED
    BY <2>1, <2>5, <2>6, <2>7
<1> QED
  BY <1>1

LEMMA GwCountedInit ==
  ASSUME GwInit
  PROVE  GwCounted
<1>1. Total(gwGen, GwSlots) = 0
  <2>1. gwGen \in [GwSlots -> Nat]
    BY DEF GwInit
  <2>2. \A y \in GwSlots : gwGen[y] = 0
    BY DEF GwInit
  <2> QED
    BY <2>2, TotalOfNothing, GatewayAssumption
<1> QED
  BY <1>1, GatewayAssumption DEF GwInit, GwCounted

LEMMA GwTypeFollows == ASSUME GwInv, GwCounted PROVE GwTypeOK
<1>1. \A s \in GwSlots : gwGen[s] <= Total(gwGen, GwSlots)
  BY GwGenNoMore
<1>2. \A s \in GwSlots : gwGen[s] \in Nat /\ gwGen[s] <= GwMaxBumps
  <2>1. \A s \in GwSlots : gwGen[s] \in Nat
    BY DEF GwInv, GwTyped
  <2>2. Total(gwGen, GwSlots) \in Nat /\ Total(gwGen, GwSlots) <= GwMaxBumps
    BY <2>1, TotalNat, GatewayAssumption DEF GwCounted
  <2> DEFINE n == Total(gwGen, GwSlots)
  <2>3. n \in Nat /\ n <= GwMaxBumps /\ \A s \in GwSlots : gwGen[s] <= n
    BY <1>1, <2>2
  <2> HIDE DEF n
  <2> QED
    BY <2>1, <2>3, GatewayAssumption
<1>3. \A s \in GwSlots : gwGen[s] \in 0..GwMaxBumps
  BY <1>2, GatewayAssumption
<1>4. \A s \in GwSlots : gwHeld[s] \in GwOwners \cup {NoGw} /\ gwClaim[s] \in 0..gwClaims
                         /\ gwBinding[s].state \in {"none", "fresh", "revoked"}
  BY DEF GwInv, GwTyped, GwCounted, BindingRow
<1>5. gwReq = NoGw \/ gwReq.chunks \in 0..GwMaxChunks
  BY GatewayAssumption DEF GwInv, GwTyped, GwCounted, GwRequests
<1> QED
  BY <1>3, <1>4, <1>5 DEF GwTypeOK, GwInv, GwTyped, GwCounted

-----------------------------------------------------------------------------
(* Prepaid credit, which runs with two sets of constants: what is said of   *)
(* its variables' types takes them as parameters.  A form's identity is its *)
(* place among the forms, a claim's number is among those given, and a      *)
(* request that was answered has a Session.                                 *)
FormTyped(f, mf) ==
  /\ f.key \in 1..mf /\ f.op \in Operations /\ f.account \in Accounts /\ f.cents \in Int
  /\ f.op = "topup" => f.cents \in Amounts
  /\ f.op \in {"purchase", "renewal"} => f.slot \in Slots
FormsTyped(mf) == IsFiniteSet(forms) /\ \A f \in forms : FormTyped(f, mf)
LedgerTyped(mf) ==
  /\ \A e \in entries : e.key \in 1..mf /\ e.account \in Accounts /\ e.delta \in Int
  /\ \A t \in topups : t.key \in 1..mf /\ t.account \in Accounts /\ t.cents \in Amounts
  /\ \A r \in receipts : r.order \in 1..mf /\ r.kind \in PAID_EVENTS
  /\ resolved \subseteq holds
MonthsTyped ==
  /\ IsFiniteSet(purchases)
  /\ \A p \in purchases : p.claim \in 1..claims /\ p.start \in Nat /\ p.end \in Nat
HoldersTyped(mc) ==
  /\ held_by \in [Slots -> Accounts \cup {None}]
  /\ claim \in [Slots -> 0..mc] /\ claims \in 0..mc /\ \A s \in Slots : claim[s] <= claims
  /\ state \in [Slots -> {"free", "claiming", "claimed", "releasing"}]
  /\ \A s \in Slots : (state[s] = "free") = (held_by[s] = None) /\ (state[s] = "free") = (claim[s] = 0)
CheckoutsTyped(mf) ==
  /\ bound \subseteq sessions /\ sessions \subseteq [order : 1..mf, made : Times]
  /\ links \subseteq sessions /\ closed \subseteq sessions /\ payments \subseteq sessions
  /\ request \in [1..mf -> [at : {"none", "ordered", "created", "bound"}, now : Times]]
  /\ \A k \in 1..mf : request[k].at = "created" => \E x \in sessions : x.order = k
WalletTyped(prices, mf, mc) ==
  /\ clock \in Times
  /\ FormsTyped(mf) /\ LedgerTyped(mf) /\ MonthsTyped /\ HoldersTyped(mc)
  /\ price \in [Slots -> prices] /\ CheckoutsTyped(mf)

(* The steps of prepaid credit, as far as types tell, with the constants    *)
(* they depend on as parameters.                                            *)
Shows(f, mf) ==
  /\ Cardinality(forms) < mf
  /\ f.key = Cardinality(forms) + 1 /\ f.op \in Operations /\ f.account \in Accounts
  /\ f.cents \in Int /\ (f.op = "topup" => f.cents \in Amounts)
  /\ f.op \in {"purchase", "renewal"} => f.slot \in Slots
  /\ forms' = forms \cup {f}
  /\ UNCHANGED <<clock, links, ledgerVars, topupVars, slotVars, request, stripeVars>>
Adjusts(f) ==
  /\ \E delta \in {f.cents, -f.cents} : entries' = entries \cup {Entry(f, f.op, delta)}
  /\ UNCHANGED <<clock, pageVars, purchases, topupVars, slotVars, request, stripeVars>>
Claims(a, s, mc) ==
  /\ claims < mc /\ claims' = claims + 1
  /\ held_by' = [held_by EXCEPT ![s] = a]
  /\ claim' = [claim EXCEPT ![s] = claims + 1]
  /\ state' = [state EXCEPT ![s] = "claiming"]
Buys(f, mc) ==
  /\ f.op = "purchase" /\ Claims(f.account, f.slot, mc)
  /\ _wallet_order(f, claims + 1, clock)
  /\ UNCHANGED <<clock, pageVars, topupVars, price, request, stripeVars>>
Orders(f) ==
  /\ f.op = "topup" /\ request' = [request EXCEPT ![f.key] = [at |-> "ordered", now |-> clock]]
  /\ \/ UNCHANGED topups
     \/ topups' = topups \cup {[key |-> f.key, account |-> f.account,
                                cents |-> f.cents, created |-> clock]}
  /\ UNCHANGED <<clock, pageVars, ledgerVars, bound, receipts, holds, resolved, slotVars,
                 stripeVars>>
Settles(t, kind) ==
  /\ \/ /\ entries' = entries \cup
             {[seq |-> Cardinality(entries) + 1, key |-> t.key, account |-> t.account,
               kind |-> "stripe_topup", delta |-> t.cents, original |-> 0]}
        /\ receipts' = receipts \cup {[order |-> t.key, kind |-> kind]}
     \/ UNCHANGED <<entries, receipts>>
  /\ UNCHANGED <<clock, pageVars, purchases, topups, bound, holds, resolved, slotVars, request,
                 stripeVars>>
FleetMoves(s, prices, mc) ==
  \/ SlotMoves(s)
  \/ /\ \E a \in Accounts : Claims(a, s, mc)
     /\ UNCHANGED <<clock, pageVars, ledgerVars, topupVars, price, request, stripeVars>>
  \/ \E n \in prices : set_node_offer(s, n)
TimePasses ==
  /\ clock < MaxClock /\ clock' = clock + 1
  /\ UNCHANGED <<pageVars, ledgerVars, topupVars, slotVars, request, stripeVars>>
WalletMoves(prices, mf, mc) ==
  \/ \E f : Shows(f, mf)
  \/ \E f \in forms : Adjusts(f) \/ Buys(f, mc) \/ renew_paid_slot(f) \/ Orders(f)
  \/ Checkouts
  \/ \E t \in topups : hold_wallet_topup(t) \/ \E kind \in PAID_EVENTS : Settles(t, kind)
  \/ \E x \in sessions : session_expires(x) \/ customer_pays(x) \/ \E n : payment_reviewed(x, n)
  \/ \E s \in Slots : FleetMoves(s, prices, mc)
  \/ \E h \in holds : resolve_wallet_topup_hold(h)
  \/ TimePasses

LEMMA FormsTypedKept ==
  ASSUME NEW mf \in Nat, FormsTyped(mf),
         UNCHANGED forms \/ \E f : Shows(f, mf)
  PROVE  FormsTyped(mf)'
<1>1. CASE UNCHANGED forms
  BY <1>1 DEF FormsTyped, FormTyped
<1>2. ASSUME NEW f, Shows(f, mf) PROVE FormsTyped(mf)'
  <2>1. IsFiniteSet(forms) /\ Cardinality(forms) \in Nat /\ \A g \in forms : FormTyped(g, mf)
    BY FS_CardinalityType DEF FormsTyped
  <2>2. Cardinality(forms) < mf /\ f.key = Cardinality(forms) + 1 /\ forms' = forms \cup {f}
    BY <1>2 DEF Shows
  <2>3. f.key \in 1..mf
    BY <2>1, <2>2
  <2>4. FormTyped(f, mf)
    BY <1>2, <2>3 DEF Shows, FormTyped
  <2>5. IsFiniteSet(forms')
    BY <2>1, <2>2, FS_AddElement
  <2>6. \A g \in forms' : FormTyped(g, mf)
    BY <2>1, <2>2, <2>4
  <2> QED
    BY <2>5, <2>6 DEF FormsTyped, FormTyped
<1> QED
  BY <1>1, <1>2

(* One more entry, order or receipt.                                        *)
LEMMA LedgerTypedGrows ==
  ASSUME NEW mf, LedgerTyped(mf), resolved' \subseteq holds',
         entries' = entries \/ \E e : /\ e.key \in 1..mf /\ e.account \in Accounts /\ e.delta \in Int
                                      /\ entries' = entries \cup {e},
         topups' = topups \/ \E t : /\ t.key \in 1..mf /\ t.account \in Accounts
                                    /\ t.cents \in Amounts /\ topups' = topups \cup {t},
         receipts' = receipts \/ \E r : /\ r.order \in 1..mf /\ r.kind \in PAID_EVENTS
                                        /\ receipts' = receipts \cup {r}
  PROVE  LedgerTyped(mf)'
<1>1. \A e \in entries' : e.key \in 1..mf /\ e.account \in Accounts /\ e.delta \in Int
  BY DEF LedgerTyped
<1>2. \A t \in topups' : t.key \in 1..mf /\ t.account \in Accounts /\ t.cents \in Amounts
  BY DEF LedgerTyped
<1>3. \A r \in receipts' : r.order \in 1..mf /\ r.kind \in PAID_EVENTS
  BY DEF LedgerTyped
<1> QED
  BY <1>1, <1>2, <1>3 DEF LedgerTyped, PAID_EVENTS

LEMMA LedgerTypedKept ==
  ASSUME NEW prices, NEW mf, NEW mc, FormsTyped(mf), LedgerTyped(mf), WalletMoves(prices, mf, mc)
  PROVE  LedgerTyped(mf)'
<1>1. \A f \in forms : FormTyped(f, mf)
  BY DEF FormsTyped
<1>2. \A t \in topups : t.key \in 1..mf /\ t.account \in Accounts /\ t.cents \in Amounts
      /\ t.cents \in Int
  <2>1. \A n \in Amounts : n \in Int
    BY WalletAssumption
  <2> QED
    BY <2>1 DEF LedgerTyped
<1>3. CASE UNCHANGED <<entries, topups, receipts, holds, resolved>>
  BY <1>3, LedgerTypedGrows DEF LedgerTyped
<1>4. ASSUME NEW f \in forms, Adjusts(f) PROVE LedgerTyped(mf)'
  <2>1. PICK delta \in {f.cents, -f.cents} : entries' = entries \cup {Entry(f, f.op, delta)}
    BY <1>4 DEF Adjusts
  <2>2. UNCHANGED <<topups, receipts, holds, resolved>>
    BY <1>4 DEF Adjusts, topupVars
  <2>3. delta \in Int /\ f.key \in 1..mf /\ f.account \in Accounts
    BY <1>1 DEF FormTyped
  <2> DEFINE e == Entry(f, f.op, delta)
  <2>4. e.key \in 1..mf /\ e.account \in Accounts /\ e.delta \in Int
    BY <2>3 DEF Entry
  <2> HIDE DEF e
  <2> QED
    BY <2>1, <2>2, <2>4, LedgerTypedGrows DEF LedgerTyped, e
<1>5. ASSUME NEW f \in forms, NEW c, NEW start, _wallet_order(f, c, start), UNCHANGED topupVars
      PROVE  LedgerTyped(mf)'
  <2>1. entries' = entries \cup {Entry(f, "slot_purchase", -f.cents)}
    BY <1>5 DEF _wallet_order
  <2>2. UNCHANGED <<topups, receipts, holds, resolved>>
    BY <1>5 DEF topupVars
  <2>3. -f.cents \in Int /\ f.key \in 1..mf /\ f.account \in Accounts
    BY <1>1 DEF FormTyped
  <2> DEFINE e == Entry(f, "slot_purchase", -f.cents)
  <2>4. e.key \in 1..mf /\ e.account \in Accounts /\ e.delta \in Int
    BY <2>3 DEF Entry
  <2> HIDE DEF e
  <2> QED
    BY <2>1, <2>2, <2>4, LedgerTypedGrows DEF LedgerTyped, e
<1>6. ASSUME NEW f \in forms, Orders(f) PROVE LedgerTyped(mf)'
  <2> DEFINE t == [key |-> f.key, account |-> f.account, cents |-> f.cents, created |-> clock]
  <2>1. /\ topups' = topups \/ topups' = topups \cup {t}
        /\ UNCHANGED <<entries, receipts, holds, resolved>>
    BY <1>6 DEF Orders, ledgerVars
  <2>2. t.key \in 1..mf /\ t.account \in Accounts /\ t.cents \in Amounts
    BY <1>1, <1>6 DEF Orders, FormTyped
  <2> HIDE DEF t
  <2> QED
    BY <2>1, <2>2, LedgerTypedGrows DEF LedgerTyped
<1>7. ASSUME NEW t \in topups, NEW kind \in PAID_EVENTS, Settles(t, kind) PROVE LedgerTyped(mf)'
  <2> DEFINE e == [seq |-> Cardinality(entries) + 1, key |-> t.key, account |-> t.account,
                   kind |-> "stripe_topup", delta |-> t.cents, original |-> 0]
             r == [order |-> t.key, kind |-> kind]
  <2>1. /\ \/ entries' = entries \cup {e} /\ receipts' = receipts \cup {r}
           \/ entries' = entries /\ receipts' = receipts
        /\ UNCHANGED <<topups, holds, resolved>>
    BY <1>7 DEF Settles
  <2>2. /\ e.key \in 1..mf /\ e.account \in Accounts /\ e.delta \in Int
        /\ r.order \in 1..mf /\ r.kind \in PAID_EVENTS
    BY <1>2
  <2> HIDE DEF e, r
  <2> QED
    BY <2>1, <2>2, LedgerTypedGrows DEF LedgerTyped
<1>8. ASSUME NEW t \in topups, hold_wallet_topup(t) PROVE LedgerTyped(mf)'
  <2>1. holds \subseteq holds' /\ UNCHANGED <<entries, topups, receipts, resolved>>
    BY <1>8 DEF hold_wallet_topup, ledgerVars
  <2> QED
    BY <2>1, LedgerTypedGrows DEF LedgerTyped
<1>9. ASSUME NEW h \in holds, resolve_wallet_topup_hold(h) PROVE LedgerTyped(mf)'
  <2>1. resolved' = resolved \cup {h} /\ UNCHANGED <<entries, topups, receipts, holds>>
    BY <1>9 DEF resolve_wallet_topup_hold, ledgerVars
  <2> QED
    BY <2>1, LedgerTypedGrows DEF LedgerTyped
<1>10. CASE \/ \E f : Shows(f, mf)
            \/ Checkouts
            \/ \E x \in sessions : session_expires(x) \/ customer_pays(x) \/ \E n : payment_reviewed(x, n)
            \/ \E s \in Slots : FleetMoves(s, prices, mc)
            \/ TimePasses
  <2>1. UNCHANGED <<entries, topups, receipts, holds, resolved>>
    BY <1>10 DEF Shows, Checkouts, create_session, bind_wallet_checkout, retrieve_open_session,
       hand_out, request_ends, session_expires, customer_pays, payment_reviewed, FleetMoves,
       SlotMoves, set_node_offer, TimePasses, ledgerVars, topupVars
  <2> QED
    BY <1>3, <2>1
<1>11. CASE \E f \in forms : Buys(f, mc) \/ renew_paid_slot(f)
  BY <1>5, <1>11 DEF Buys, renew_paid_slot
<1> QED
  BY <1>4, <1>6, <1>7, <1>8, <1>9, <1>10, <1>11 DEF WalletMoves

LEMMA HoldersTypedKept ==
  ASSUME NEW prices, NEW mf, NEW mc \in Nat, FormsTyped(mf), HoldersTyped(mc),
         WalletMoves(prices, mf, mc)
  PROVE  HoldersTyped(mc)' /\ claims <= claims'
<1>1. /\ held_by \in [Slots -> Accounts \cup {None}] /\ claim \in [Slots -> 0..mc]
      /\ claims \in 0..mc /\ \A s \in Slots : claim[s] <= claims
      /\ state \in [Slots -> {"free", "claiming", "claimed", "releasing"}]
      /\ \A s \in Slots : (state[s] = "free") = (held_by[s] = None) /\ (state[s] = "free") = (claim[s] = 0)
  BY DEF HoldersTyped
<1>2. CASE UNCHANGED <<held_by, claim, state, claims>>
  BY <1>1, <1>2 DEF HoldersTyped
<1>3. ASSUME NEW a \in Accounts, NEW s \in Slots, Claims(a, s, mc)
      PROVE  HoldersTyped(mc)' /\ claims <= claims'
  <2>1. /\ claims < mc /\ claims' = claims + 1 /\ held_by' = [held_by EXCEPT ![s] = a]
        /\ claim' = [claim EXCEPT ![s] = claims + 1] /\ state' = [state EXCEPT ![s] = "claiming"]
    BY <1>3 DEF Claims
  <2>2. claims' \in 0..mc /\ claims <= claims' /\ claims' # 0 /\ claims' = claims + 1
    BY <1>1, <2>1
  <2>3. claim' \in [Slots -> 0..mc] /\ \A o \in Slots : claim'[o] <= claims'
    BY <1>1, <2>1, <2>2
  <2>4. /\ held_by' \in [Slots -> Accounts \cup {None}]
        /\ state' \in [Slots -> {"free", "claiming", "claimed", "releasing"}]
    BY <1>1, <2>1
  <2>5. /\ held_by'[s] = a /\ claim'[s] = claims' /\ state'[s] = "claiming" /\ a # None
        /\ \A o \in Slots : o # s => /\ held_by'[o] = held_by[o] /\ claim'[o] = claim[o]
                                     /\ state'[o] = state[o]
    BY <1>1, <2>1, <2>2, WalletAssumption
  <2>6. \A o \in Slots : /\ (state'[o] = "free") = (held_by'[o] = None)
                         /\ (state'[o] = "free") = (claim'[o] = 0)
    BY <1>1, <2>2, <2>5
  <2> QED
    BY <2>2, <2>3, <2>4, <2>6 DEF HoldersTyped
<1>4. ASSUME NEW s \in Slots, slot_moves(s), UNCHANGED claims
      PROVE  HoldersTyped(mc)' /\ claims <= claims'
  <2>1. \/ \E st \in {"claimed", "releasing"} :
              /\ state[s] \in {"claiming", "claimed"}
              /\ state' = [state EXCEPT ![s] = st] /\ UNCHANGED <<held_by, claim>>
        \/ _free_released(s)
    BY <1>4 DEF slot_moves
  <2>2. ASSUME NEW st \in {"claimed", "releasing"}, state[s] \in {"claiming", "claimed"},
               state' = [state EXCEPT ![s] = st], UNCHANGED <<held_by, claim>>
        PROVE  HoldersTyped(mc)' /\ claims <= claims'
    <3>1. /\ state' \in [Slots -> {"free", "claiming", "claimed", "releasing"}]
          /\ \A o \in Slots : (state'[o] = "free") = (state[o] = "free")
      BY <1>1, <2>2
    <3> QED
      BY <1>1, <1>4, <2>2, <3>1 DEF HoldersTyped
  <2>3. ASSUME _free_released(s) PROVE HoldersTyped(mc)' /\ claims <= claims'
    <3>1. /\ state' = [state EXCEPT ![s] = "free"] /\ held_by' = [held_by EXCEPT ![s] = None]
          /\ claim' = [claim EXCEPT ![s] = 0]
      BY <2>3 DEF _free_released
    <3>2. /\ held_by' \in [Slots -> Accounts \cup {None}] /\ claim' \in [Slots -> 0..mc]
          /\ state' \in [Slots -> {"free", "claiming", "claimed", "releasing"}]
          /\ \A o \in Slots : claim'[o] <= claims
      BY <1>1, <3>1
    <3>3. \A o \in Slots : /\ (state'[o] = "free") = (held_by'[o] = None)
                           /\ (state'[o] = "free") = (claim'[o] = 0)
      BY <1>1, <3>1
    <3> QED
      BY <1>1, <1>4, <3>2, <3>3 DEF HoldersTyped
  <2> QED
    BY <2>1, <2>2, <2>3
<1>5. ASSUME NEW f \in forms, Buys(f, mc) PROVE HoldersTyped(mc)' /\ claims <= claims'
  <2>1. f.slot \in Slots /\ f.account \in Accounts /\ Claims(f.account, f.slot, mc)
    BY <1>5 DEF FormsTyped, FormTyped, Buys
  <2> QED
    BY <1>3, <2>1
<1>6. ASSUME NEW s \in Slots, FleetMoves(s, prices, mc) PROVE HoldersTyped(mc)' /\ claims <= claims'
  <2>1. CASE SlotMoves(s)
    BY <1>4, <2>1 DEF SlotMoves
  <2>2. CASE \E a \in Accounts : Claims(a, s, mc)
    BY <1>3, <2>2
  <2>3. CASE \E n \in prices : set_node_offer(s, n)
    BY <1>1, <1>2, <2>3 DEF set_node_offer
  <2> QED
    BY <1>6, <2>1, <2>2, <2>3 DEF FleetMoves
<1>7. CASE \/ \E f : Shows(f, mf)
           \/ \E f \in forms : Adjusts(f) \/ renew_paid_slot(f) \/ Orders(f)
           \/ Checkouts
           \/ \E t \in topups : hold_wallet_topup(t) \/ \E kind \in PAID_EVENTS : Settles(t, kind)
           \/ \E x \in sessions : session_expires(x) \/ customer_pays(x) \/ \E n : payment_reviewed(x, n)
           \/ \E h \in holds : resolve_wallet_topup_hold(h)
           \/ TimePasses
  <2>1. UNCHANGED <<held_by, claim, state, claims>>
    BY <1>7 DEF Shows, Adjusts, renew_paid_slot, Orders, Checkouts, create_session,
       bind_wallet_checkout, retrieve_open_session, hand_out, request_ends, hold_wallet_topup,
       Settles, session_expires, customer_pays, payment_reviewed, resolve_wallet_topup_hold,
       TimePasses, slotVars
  <2> QED
    BY <1>1, <1>2, <2>1
<1> QED
  BY <1>5, <1>6, <1>7 DEF WalletMoves

LEMMA PriceTypedKept ==
  ASSUME NEW prices, NEW mf, NEW mc, price \in [Slots -> prices], WalletMoves(prices, mf, mc)
  PROVE  price' \in [Slots -> prices]
<1>1. ASSUME NEW s \in Slots, FleetMoves(s, prices, mc) PROVE price' \in [Slots -> prices]
  <2>1. UNCHANGED price \/ \E n \in prices : price' = [price EXCEPT ![s] = n]
    BY <1>1 DEF FleetMoves, SlotMoves, set_node_offer
  <2> QED
    BY <2>1
<1>2. CASE \/ \E f : Shows(f, mf)
           \/ \E f \in forms : Adjusts(f) \/ Buys(f, mc) \/ renew_paid_slot(f) \/ Orders(f)
           \/ Checkouts
           \/ \E t \in topups : hold_wallet_topup(t) \/ \E kind \in PAID_EVENTS : Settles(t, kind)
           \/ \E x \in sessions : session_expires(x) \/ customer_pays(x) \/ \E n : payment_reviewed(x, n)
           \/ \E h \in holds : resolve_wallet_topup_hold(h)
           \/ TimePasses
  <2>1. UNCHANGED price
    BY <1>2 DEF Shows, Adjusts, Buys, renew_paid_slot, Orders, Checkouts, create_session,
       bind_wallet_checkout, retrieve_open_session, hand_out, request_ends, hold_wallet_topup,
       Settles, session_expires, customer_pays, payment_reviewed, resolve_wallet_topup_hold,
       TimePasses, slotVars
  <2> QED
    BY <2>1
<1> QED
  BY <1>1, <1>2 DEF WalletMoves

(* The end of what is paid for is that of one of the months.                *)
LEMMA MaxIsIn ==
  ASSUME NEW S, IsFiniteSet(S), \A y \in S : y \in Int, S # {}
  PROVE  Max(S) \in S
<1>1. PICK m \in S : \A n \in S : n <= m
  BY LargestOf
<1>2. \A n \in S : m >= n
  BY <1>1
<1> QED
  BY <1>2 DEF Max

LEMMA RenewalIsLater ==
  ASSUME MonthsTyped, clock \in Nat, NEW f, paid_slot_through(f.slot, f.claim) # None
  PROVE  RenewalStart(f) \in Nat
<1> DEFINE P == PeriodsOf(f.slot, f.claim)
           E == {p.end : p \in P}
<1>1. paid_slot_through(f.slot, f.claim) = Max(E) /\ P # {}
  BY DEF paid_slot_through
<1>2. P \subseteq purchases /\ IsFiniteSet(P) /\ \A p \in P : p.end \in Nat
  BY FS_Subset DEF PeriodsOf, MonthsTyped
<1>3. IsFiniteSet(E)
  <2> DEFINE g == [p \in P |-> p.end]
  <2>1. g \in Surjection(P, E)
    BY DEF Surjection
  <2> HIDE DEF g, P, E
  <2> QED
    BY <1>2, <2>1, FS_Surjection
<1>4. E # {} /\ \A y \in E : y \in Nat /\ y \in Int
  BY <1>1, <1>2
<1> HIDE DEF E, P
<1>5. Max(E) \in Nat
  BY <1>3, <1>4, MaxIsIn
<1>6. PICK n \in Nat : n = Max(E)
  BY <1>5
<1>7. RenewalStart(f) = Max({clock, n})
  BY <1>1, <1>6 DEF RenewalStart
<1>8. Max({clock, n}) \in {clock, n}
  <2>1. IsFiniteSet({clock, n})
    <3>1. IsFiniteSet({n})
      BY FS_Singleton
    <3>2. {clock, n} = {n} \cup {clock}
      OBVIOUS
    <3> QED
      BY <3>1, <3>2, FS_AddElement
  <2> QED
    BY <1>6, <2>1, MaxIsIn
<1> QED
  BY <1>6, <1>7, <1>8

LEMMA MonthsTypedKept ==
  ASSUME NEW prices, NEW mf, NEW mc \in Nat, clock \in Times, FormsTyped(mf), MonthsTyped,
         HoldersTyped(mc), WalletMoves(prices, mf, mc)
  PROVE  MonthsTyped'
<1>1. claims \in Nat /\ claims' \in Nat /\ claims <= claims' /\ clock \in Nat
  BY HoldersTypedKept, WalletAssumption DEF HoldersTyped, Times
<1>2. \A p \in purchases : p.claim \in 1..claims' /\ p.start \in Nat /\ p.end \in Nat
  BY <1>1 DEF MonthsTyped
<1>3. CASE UNCHANGED purchases
  BY <1>2, <1>3 DEF MonthsTyped
<1>4. ASSUME NEW f \in forms, NEW c, NEW start \in Nat, _wallet_order(f, c, start), c \in 1..claims'
      PROVE  MonthsTyped'
  <2> DEFINE p == [key |-> f.key, operation |-> f.op, account |-> f.account, slot |-> f.slot,
                   claim |-> c, cents |-> f.cents, start |-> start, end |-> start + Month]
  <2>1. purchases' = purchases \cup {p}
    BY <1>4 DEF _wallet_order
  <2>2. p.claim \in 1..claims' /\ p.start \in Nat /\ p.end \in Nat
    BY <1>4, WalletAssumption
  <2> HIDE DEF p
  <2>3. IsFiniteSet(purchases')
    BY <2>1, FS_AddElement DEF MonthsTyped
  <2>4. \A q \in purchases' : q.claim \in 1..claims' /\ q.start \in Nat /\ q.end \in Nat
    BY <1>2, <2>1, <2>2
  <2> QED
    BY <2>3, <2>4 DEF MonthsTyped
<1>5. ASSUME NEW f \in forms, Buys(f, mc) PROVE MonthsTyped'
  <2>1. _wallet_order(f, claims + 1, clock) /\ claims' = claims + 1
    BY <1>5 DEF Buys, Claims
  <2>2. claims + 1 \in 1..claims'
    BY <1>1, <2>1
  <2> QED
    BY <1>1, <1>4, <2>1, <2>2
<1>6. ASSUME NEW f \in forms, renew_paid_slot(f) PROVE MonthsTyped'
  <2>1. /\ f.op = "renewal" /\ _wallet_current_slot(f)
        /\ paid_slot_through(f.slot, f.claim) # None
        /\ _wallet_order(f, claim[f.slot], RenewalStart(f))
    BY <1>6 DEF renew_paid_slot
  <2>2. f.slot \in Slots /\ state[f.slot] = "claimed"
    BY <2>1 DEF FormsTyped, FormTyped, _wallet_current_slot
  <2>3. claim[f.slot] \in 1..claims
    <3>1. claim[f.slot] \in 0..mc /\ claim[f.slot] <= claims /\ claim[f.slot] # 0
      BY <2>2 DEF HoldersTyped
    <3> QED
      BY <1>1, <3>1
  <2>4. claim[f.slot] \in 1..claims'
    BY <1>1, <2>3
  <2>5. RenewalStart(f) \in Nat
    BY <1>1, <2>1, RenewalIsLater
  <2> QED
    BY <1>4, <2>1, <2>4, <2>5
<1>7. CASE \/ \E f : Shows(f, mf)
           \/ \E f \in forms : Adjusts(f) \/ Orders(f)
           \/ Checkouts
           \/ \E t \in topups : hold_wallet_topup(t) \/ \E kind \in PAID_EVENTS : Settles(t, kind)
           \/ \E x \in sessions : session_expires(x) \/ customer_pays(x) \/ \E n : payment_reviewed(x, n)
           \/ \E s \in Slots : FleetMoves(s, prices, mc)
           \/ \E h \in holds : resolve_wallet_topup_hold(h)
           \/ TimePasses
  <2>1. UNCHANGED purchases
    BY <1>7 DEF Shows, Adjusts, Orders, Checkouts, create_session,
       bind_wallet_checkout, retrieve_open_session, hand_out, request_ends, hold_wallet_topup,
       Settles, session_expires, customer_pays, payment_reviewed, resolve_wallet_topup_hold,
       FleetMoves, SlotMoves, set_node_offer, TimePasses, ledgerVars
  <2> QED
    BY <1>3, <2>1
<1> QED
  BY <1>5, <1>6, <1>7 DEF WalletMoves

(* What an answered request has of Stripe is one of its Sessions.           *)
LEMMA AnsweredIsASession ==
  ASSUME NEW mf \in Nat, CheckoutsTyped(mf), NEW k \in 1..mf, \E x \in sessions : x.order = k
  PROVE  Answered(k) \in sessions
<1> DEFINE M == {x.made : x \in {y \in sessions : y.order = k}}
<1>1. \A x \in sessions : x.made \in 0..MaxClock
  BY DEF CheckoutsTyped, Times
<1>2. IsFiniteSet(M) /\ M # {} /\ \A n \in M : n \in Int
  <2>1. M \subseteq 0..MaxClock
    BY <1>1
  <2>2. IsFiniteSet(0..MaxClock)
    BY FS_Interval, WalletAssumption
  <2>3. IsFiniteSet(M)
    BY <2>1, <2>2, FS_Subset
  <2>4. M # {}
    OBVIOUS
  <2>5. \A n \in M : n \in Int
    BY <2>1, WalletAssumption
  <2> QED
    BY <2>3, <2>4, <2>5
<1> HIDE DEF M
<1>3. PICK m \in M : \A n \in M : n <= m
  BY <1>2, LargestOf
<1>4. PICK x \in sessions : x.order = k /\ x.made = m
  BY <1>3 DEF M
<1>5. \A y \in sessions : y.order = k => y.made <= x.made
  BY <1>3, <1>4 DEF M
<1>6. \E y \in sessions : y.order = k /\ \A z \in sessions : z.order = k => z.made <= y.made
  BY <1>4, <1>5
<1> QED
  BY <1>6 DEF Answered

Waits == [at : {"none", "ordered", "created", "bound"}, now : Times]

LEMMA RequestSet ==
  ASSUME NEW mf, request \in [1..mf -> Waits], NEW k \in 1..mf, NEW w \in Waits,
         request' = [request EXCEPT ![k] = w]
  PROVE  request' \in [1..mf -> Waits] /\ request'[k] = w
         /\ \A o \in 1..mf : o # k => request'[o] = request[o]
  OBVIOUS

LEMMA RequestAt ==
  ASSUME NEW mf, request \in [1..mf -> Waits], NEW k \in 1..mf,
         NEW where \in {"none", "ordered", "created", "bound"}, At(k, where)
  PROVE  request' \in [1..mf -> Waits] /\ request'[k].at = where
         /\ \A o \in 1..mf : o # k => request'[o] = request[o]
<1>1. request' = [request EXCEPT ![k].at = where] /\ request[k] \in Waits
  BY DEF At
<1>2. PICK w : w = [request[k] EXCEPT !.at = where]
  OBVIOUS
<1>3. w \in Waits /\ w.at = where
  BY <1>1, <1>2 DEF Waits
<1>4. request' = [request EXCEPT ![k] = w]
  BY <1>1, <1>2
<1> QED
  BY <1>3, <1>4, RequestSet

(* The Sessions and what is known of them grow.                             *)
LEMMA CheckoutsTypedGrow ==
  ASSUME NEW mf, CheckoutsTyped(mf), sessions \subseteq sessions',
         sessions' \subseteq [order : 1..mf, made : Times],
         bound' \subseteq sessions', links' \subseteq sessions',
         closed' \subseteq sessions', payments' \subseteq sessions',
         request' \in [1..mf -> Waits],
         \A k \in 1..mf : request'[k].at = "created" =>
            request[k].at = "created" \/ \E x \in sessions' : x.order = k
  PROVE  CheckoutsTyped(mf)'
<1>1. \A k \in 1..mf : request'[k].at = "created" => \E x \in sessions' : x.order = k
  BY DEF CheckoutsTyped
<1> QED
  BY <1>1 DEF CheckoutsTyped, Waits, Times

LEMMA CheckoutsTypedKept ==
  ASSUME NEW prices, NEW mf \in Nat, NEW mc, clock \in Times, FormsTyped(mf), LedgerTyped(mf),
         CheckoutsTyped(mf), WalletMoves(prices, mf, mc)
  PROVE  CheckoutsTyped(mf)'
<1>1. /\ bound \subseteq sessions /\ sessions \subseteq [order : 1..mf, made : Times]
      /\ links \subseteq sessions /\ closed \subseteq sessions /\ payments \subseteq sessions
      /\ request \in [1..mf -> Waits]
      /\ \A k \in 1..mf : request[k].at = "created" => \E x \in sessions : x.order = k
  BY DEF CheckoutsTyped, Waits
<1>2. \A t \in topups : t.key \in 1..mf
  BY DEF LedgerTyped
<1>3. 0 \in Times
  BY WalletAssumption DEF Times
<1>4. ASSUME UNCHANGED <<bound, sessions, links, closed, payments, request>>
      PROVE  CheckoutsTyped(mf)'
  BY <1>1, <1>4, CheckoutsTypedGrow
<1>5. ASSUME NEW f \in forms, Orders(f) PROVE CheckoutsTyped(mf)'
  <2> DEFINE w == [at |-> "ordered", now |-> clock]
  <2>1. /\ request' = [request EXCEPT ![f.key] = w] /\ UNCHANGED <<bound, links>>
        /\ UNCHANGED <<sessions, closed, payments>>
    BY <1>5 DEF Orders, pageVars, stripeVars
  <2>2. f.key \in 1..mf
    BY DEF FormsTyped, FormTyped
  <2>3. w \in Waits /\ w.at = "ordered"
    BY DEF Waits
  <2> HIDE DEF w
  <2>4. request' \in [1..mf -> Waits] /\ request'[f.key] = w
        /\ \A o \in 1..mf : o # f.key => request'[o] = request[o]
    BY <1>1, <2>1, <2>2, <2>3, RequestSet
  <2>5. \A k \in 1..mf : request'[k].at = "created" => request[k].at = "created"
    BY <2>3, <2>4
  <2> QED
    BY <1>1, <2>1, <2>4, <2>5, CheckoutsTypedGrow
<1>6. ASSUME NEW t \in topups, create_session(t) PROVE CheckoutsTyped(mf)'
  <2> DEFINE new == [order |-> t.key, made |-> clock]
  <2>1. /\ sessions' = IF Remembered(t.key) # {} THEN sessions ELSE sessions \cup {new}
        /\ At(t.key, "created") /\ UNCHANGED <<bound, links, closed, payments>>
    BY <1>6 DEF create_session, pageVars, topupVars
  <2>2. new \in [order : 1..mf, made : Times] /\ new.order = t.key
    BY <1>2
  <2> HIDE DEF new
  <2>3. sessions \subseteq sessions' /\ sessions' \subseteq [order : 1..mf, made : Times]
    BY <1>1, <2>1, <2>2
  <2>4. \E x \in sessions' : x.order = t.key
    BY <2>1, <2>2 DEF Remembered
  <2>5. request' \in [1..mf -> Waits] /\ \A o \in 1..mf : o # t.key => request'[o] = request[o]
    BY <1>1, <1>2, <2>1, RequestAt
  <2>6. \A k \in 1..mf : request'[k].at = "created" =>
          request[k].at = "created" \/ \E x \in sessions' : x.order = k
    BY <2>4, <2>5
  <2> QED
    BY <1>1, <2>1, <2>3, <2>5, <2>6, CheckoutsTypedGrow
<1>7. ASSUME NEW t \in topups, bind_wallet_checkout(t) PROVE CheckoutsTyped(mf)'
  <2>1. /\ request[t.key].at = "created" /\ bound' = bound \cup {Answered(t.key)}
        /\ At(t.key, "bound") /\ UNCHANGED <<links, sessions, closed, payments>>
    BY <1>7 DEF bind_wallet_checkout, pageVars, stripeVars
  <2>2. Answered(t.key) \in sessions
    BY <1>1, <1>2, <2>1, AnsweredIsASession
  <2>3. /\ request' \in [1..mf -> Waits] /\ request'[t.key].at = "bound"
        /\ \A o \in 1..mf : o # t.key => request'[o] = request[o]
    BY <1>1, <1>2, <2>1, RequestAt
  <2>4. \A k \in 1..mf : request'[k].at = "created" => request[k].at = "created"
    BY <2>3
  <2> QED
    BY <1>1, <2>1, <2>2, <2>3, <2>4, CheckoutsTypedGrow
<1>8. ASSUME NEW t \in topups, retrieve_open_session(t) PROVE CheckoutsTyped(mf)'
  <2>1. At(t.key, "bound") /\ UNCHANGED <<bound, links, sessions, closed, payments>>
    BY <1>8 DEF retrieve_open_session, pageVars, topupVars, stripeVars
  <2>3. /\ request' \in [1..mf -> Waits] /\ request'[t.key].at = "bound"
        /\ \A o \in 1..mf : o # t.key => request'[o] = request[o]
    BY <1>1, <1>2, <2>1, RequestAt
  <2>4. \A k \in 1..mf : request'[k].at = "created" => request[k].at = "created"
    BY <2>3
  <2> QED
    BY <1>1, <2>1, <2>3, <2>4, CheckoutsTypedGrow
<1>9. ASSUME NEW t \in topups, hand_out(t) \/ request_ends(t) PROVE CheckoutsTyped(mf)'
  <2> DEFINE w == [at |-> "none", now |-> 0]
  <2>1. /\ request' = [request EXCEPT ![t.key] = w]
        /\ links' \subseteq links \cup bound /\ UNCHANGED <<bound, sessions, closed, payments>>
    BY <1>9 DEF hand_out, request_ends, Done, BoundTo, pageVars, topupVars, stripeVars
  <2>3. w \in Waits /\ w.at = "none"
    BY <1>3 DEF Waits
  <2> HIDE DEF w
  <2>4. request' \in [1..mf -> Waits] /\ request'[t.key] = w
        /\ \A o \in 1..mf : o # t.key => request'[o] = request[o]
    BY <1>1, <1>2, <2>1, <2>3, RequestSet
  <2>5. \A k \in 1..mf : request'[k].at = "created" => request[k].at = "created"
    BY <2>3, <2>4
  <2> QED
    BY <1>1, <2>1, <2>4, <2>5, CheckoutsTypedGrow
<1>10. ASSUME NEW x \in sessions, session_expires(x) \/ customer_pays(x)
       PROVE  CheckoutsTyped(mf)'
  <2>1. /\ closed' \subseteq closed \cup {x} /\ payments' \subseteq payments \cup {x}
        /\ UNCHANGED <<bound, links, sessions, request>>
    BY <1>10 DEF session_expires, customer_pays, pageVars, topupVars
  <2> QED
    BY <1>1, <2>1, CheckoutsTypedGrow
<1>11. CASE \/ \E f : Shows(f, mf)
            \/ \E f \in forms : Adjusts(f) \/ Buys(f, mc) \/ renew_paid_slot(f)
            \/ \E t \in topups : hold_wallet_topup(t) \/ \E kind \in PAID_EVENTS : Settles(t, kind)
            \/ \E x \in sessions : \E n : payment_reviewed(x, n)
            \/ \E s \in Slots : FleetMoves(s, prices, mc)
            \/ \E h \in holds : resolve_wallet_topup_hold(h)
            \/ TimePasses
  <2>1. UNCHANGED <<bound, sessions, links, closed, payments, request>>
    BY <1>11 DEF Shows, Adjusts, Buys, renew_paid_slot, hold_wallet_topup, Settles,
       payment_reviewed, resolve_wallet_topup_hold, FleetMoves, SlotMoves, set_node_offer,
       TimePasses, pageVars, topupVars, stripeVars
  <2> QED
    BY <1>4, <2>1
<1> QED
  BY <1>5, <1>6, <1>7, <1>8, <1>9, <1>10, <1>11 DEF WalletMoves, Checkouts

LEMMA WalletTypedKept ==
  ASSUME NEW prices, NEW mf \in Nat, NEW mc \in Nat, WalletTyped(prices, mf, mc),
         WalletMoves(prices, mf, mc)
  PROVE  WalletTyped(prices, mf, mc)'
<1>1. /\ clock \in Times /\ FormsTyped(mf) /\ LedgerTyped(mf) /\ MonthsTyped /\ HoldersTyped(mc)
      /\ price \in [Slots -> prices] /\ CheckoutsTyped(mf)
  BY DEF WalletTyped
<1>2. (UNCHANGED forms \/ \E f : Shows(f, mf)) /\ (UNCHANGED clock \/ TimePasses)
  BY DEF WalletMoves, Shows, Adjusts, Buys, renew_paid_slot, Orders, Checkouts, create_session,
     bind_wallet_checkout, retrieve_open_session, hand_out, request_ends, hold_wallet_topup,
     Settles, session_expires, customer_pays, payment_reviewed, resolve_wallet_topup_hold,
     FleetMoves, SlotMoves, set_node_offer, TimePasses, pageVars
<1>3. clock' \in Times
  BY <1>1, <1>2, WalletAssumption DEF TimePasses, Times
<1>4. FormsTyped(mf)' /\ LedgerTyped(mf)' /\ MonthsTyped' /\ HoldersTyped(mc)'
  BY <1>1, <1>2, FormsTypedKept, LedgerTypedKept, MonthsTypedKept, HoldersTypedKept
<1>5. price' \in [Slots -> prices] /\ CheckoutsTyped(mf)'
  BY <1>1, PriceTypedKept, CheckoutsTypedKept
<1> QED
  BY <1>3, <1>4, <1>5 DEF WalletTyped, Times

LEMMA WalletTypedStays ==
  ASSUME NEW prices, NEW mf, NEW mc, WalletTyped(prices, mf, mc), UNCHANGED vars
  PROVE  WalletTyped(prices, mf, mc)'
<1>1. /\ UNCHANGED <<clock, forms, links, entries, purchases, topups, bound, receipts, holds>>
      /\ UNCHANGED <<resolved, held_by, claim, state, price, claims, request, sessions>>
      /\ UNCHANGED <<closed, payments, reviews>>
  BY DEF vars, pageVars, ledgerVars, topupVars, slotVars, stripeVars
<1>2. FormsTyped(mf)' /\ LedgerTyped(mf)' /\ MonthsTyped'
  BY <1>1 DEF WalletTyped, FormsTyped, FormTyped, LedgerTyped, MonthsTyped
<1>3. HoldersTyped(mc)' /\ CheckoutsTyped(mf)'
  BY <1>1 DEF WalletTyped, HoldersTyped, CheckoutsTyped
<1>4. clock' \in Times /\ price' \in [Slots -> prices]
  BY <1>1 DEF WalletTyped
<1> QED
  BY <1>2, <1>3, <1>4 DEF WalletTyped, Times

LEMMA WalletTypedInit ==
  ASSUME NEW prices, NEW mf \in Nat, NEW mc \in Nat, price \in [Slots -> prices],
         clock = 0, forms = {}, links = {}, entries = {}, purchases = {},
         topups = {}, bound = {}, receipts = {}, resolved = {},
         held_by = [s \in Slots |-> None], claim = [s \in Slots |-> 0],
         state = [s \in Slots |-> "free"], claims = 0,
         request = [k \in 1..mf |-> [at |-> "none", now |-> 0]],
         sessions = {}, closed = {}, payments = {}
  PROVE  WalletTyped(prices, mf, mc)
<1>1. 0 \in Times /\ 0 \in 0..mc
  BY WalletAssumption DEF Times
<1>2. FormsTyped(mf) /\ LedgerTyped(mf) /\ MonthsTyped
  BY FS_EmptySet DEF FormsTyped, LedgerTyped, MonthsTyped
<1>3. HoldersTyped(mc)
  BY <1>1 DEF HoldersTyped
<1>4. CheckoutsTyped(mf)
  BY <1>1 DEF CheckoutsTyped
<1> QED
  BY <1>1, <1>2, <1>3, <1>4 DEF WalletTyped

LEMMA FormShows ==
  ASSUME NEW f, Show(f), f.key = Cardinality(forms) + 1, f.op \in Operations,
         f.account \in Accounts, f.cents \in Int, f.op = "topup" => f.cents \in Amounts,
         f.op \in {"purchase", "renewal"} => f.slot \in Slots
  PROVE  Shows(f, MaxForms)
  BY DEF Show, Shows

(* The months' steps are such steps, with the constants of the run.         *)
LEMMA MonthsMove ==
  ASSUME price \in [Slots -> Prices], Next
  PROVE  WalletMoves(Prices, MaxForms, MaxClaims)
<1>1. /\ \A n \in Amounts : n \in Int
      /\ \A s \in Slots : price[s] \in Int
  <2>1. \A n \in Amounts \cup Prices : n \in Int
    BY WalletAssumption
  <2> QED
    BY <2>1
<1>2. ASSUME NEW op \in Operations, NEW a \in Accounts, NEW s, NEW c, NEW n \in Int, NEW of,
             Show(Form(op, a, s, c, n, of)), op = "topup" => n \in Amounts,
             op \in {"purchase", "renewal"} => s \in Slots
      PROVE  \E f : Shows(f, MaxForms)
  <2> DEFINE f == Form(op, a, s, c, n, of)
  <2>1. /\ f.key = Cardinality(forms) + 1 /\ f.op \in Operations /\ f.account \in Accounts
        /\ f.cents \in Int /\ (f.op = "topup" => f.cents \in Amounts)
        /\ f.op \in {"purchase", "renewal"} => f.slot \in Slots
    BY <1>2 DEF Form
  <2> HIDE DEF f
  <2>2. Show(f)
    BY <1>2 DEF f
  <2> QED
    BY <2>1, <2>2, FormShows
<1>3. /\ "topup" \in Operations /\ "purchase" \in Operations /\ "renewal" \in Operations
      /\ "admin_credit" \in Operations /\ "admin_debit" \in Operations
      /\ "purchase_return" \in Operations
  BY DEF Operations
<1>4. CASE Pages
  <2>1. ASSUME NEW a \in Accounts, topup_page(a) PROVE \E f : Shows(f, MaxForms)
    BY <1>1, <1>2, <1>3, <2>1 DEF topup_page
  <2>2. ASSUME NEW a \in Accounts, adjust_page(a) PROVE \E f : Shows(f, MaxForms)
    BY <1>1, <1>2, <1>3, <2>2 DEF adjust_page
  <2>3. ASSUME NEW a \in Accounts, NEW s \in Slots, purchase_page(a, s)
        PROVE  \E f : Shows(f, MaxForms)
    BY <1>1, <1>2, <1>3, <2>3 DEF purchase_page
  <2>4. ASSUME NEW a \in Accounts, NEW s \in Slots, renew_page(a, s)
        PROVE  \E f : Shows(f, MaxForms)
    BY <1>1, <1>2, <1>3, <2>4 DEF renew_page
  <2> QED
    BY <1>4, <2>1, <2>2, <2>3, <2>4 DEF Pages, WalletMoves
<1>5. CASE Submissions
  <2>1. PICK f \in forms : _adjust_wallet_credit(f) \/ purchase_slot(f) \/ renew_paid_slot(f)
                           \/ create_wallet_topup(f)
    BY <1>5 DEF Submissions
  <2>2. _adjust_wallet_credit(f) => Adjusts(f)
    BY DEF _adjust_wallet_credit, Adjusts
  <2>3. purchase_slot(f) => Buys(f, MaxClaims)
    BY DEF purchase_slot, Buys, Claims
  <2>4. create_wallet_topup(f) => Orders(f)
    BY DEF create_wallet_topup, Orders
  <2> QED
    BY <2>1, <2>2, <2>3, <2>4 DEF WalletMoves
<1>6. CASE Webhooks
  <2>1. ASSUME NEW t, NEW kind, settle_wallet_topup(t, kind) PROVE Settles(t, kind)
    BY <2>1 DEF settle_wallet_topup, Settles
  <2> QED
    BY <1>6, <2>1 DEF Webhooks, WalletMoves
<1>7. CASE Fleet
  <2>1. PICK s \in Slots : \/ SlotMoves(s)
                           \/ \E a \in Accounts : claim_slot(a, s)
                           \/ \E n \in Prices : set_node_offer(s, n)
    BY <1>7 DEF Fleet
  <2>2. \A a : claim_slot(a, s) =>
          /\ Claims(a, s, MaxClaims)
          /\ UNCHANGED <<clock, pageVars, ledgerVars, topupVars, price, request, stripeVars>>
    BY DEF claim_slot, Claims
  <2>3. FleetMoves(s, Prices, MaxClaims)
    BY <2>1, <2>2 DEF FleetMoves
  <2> QED
    BY <2>3 DEF WalletMoves
<1>8. Tick => TimePasses
  BY DEF Tick, TimePasses
<1> QED
  BY <1>4, <1>5, <1>6, <1>7, <1>8 DEF Next, WalletMoves, Stripe

(* The top-ups run under the same actions: those the constants of the       *)
(* instance do not touch are the same, word for word.                       *)
LEMMA SameForTopups ==
  /\ \A S : Topups!Cardinality(S) = Cardinality(S) /\ Topups!Max(S) = Max(S)
  /\ \A f, op, d : Topups!Entry(f, op, d) = Entry(f, op, d)
  /\ \A op, a, s, c, n, of : Topups!Form(op, a, s, c, n, of) = Form(op, a, s, c, n, of)
  /\ \A s, c : Topups!paid_slot_through(s, c) = paid_slot_through(s, c)
  /\ \A f : Topups!RenewalStart(f) = RenewalStart(f)
  /\ Topups!PAID_EVENTS = PAID_EVENTS
<1>1. ASSUME NEW S PROVE Topups!Cardinality(S) = Cardinality(S)
  BY DEF Topups!Cardinality, Cardinality
<1>2. ASSUME NEW S PROVE Topups!Max(S) = Max(S)
  BY DEF Topups!Max, Max
<1>3. \A f, op, d : Topups!Entry(f, op, d) = Entry(f, op, d)
  BY <1>1 DEF Topups!Entry, Entry
<1>4. \A op, a, s, c, n, of : Topups!Form(op, a, s, c, n, of) = Form(op, a, s, c, n, of)
  BY <1>1 DEF Topups!Form, Form
<1>5. ASSUME NEW s, NEW c PROVE Topups!paid_slot_through(s, c) = paid_slot_through(s, c)
  BY <1>2 DEF Topups!paid_slot_through, paid_slot_through, Topups!PeriodsOf, PeriodsOf
<1>6. \A f : Topups!RenewalStart(f) = RenewalStart(f)
  BY <1>2, <1>5 DEF Topups!RenewalStart, RenewalStart
<1> QED
  BY <1>1, <1>2, <1>3, <1>4, <1>5, <1>6 DEF Topups!PAID_EVENTS, PAID_EVENTS

LEMMA TopupsVars ==
  /\ Topups!pageVars = pageVars /\ Topups!ledgerVars = ledgerVars
  /\ Topups!topupVars = topupVars /\ Topups!slotVars = slotVars
  /\ Topups!stripeVars = stripeVars
  /\ Topups!pageVars' = pageVars' /\ Topups!ledgerVars' = ledgerVars'
  /\ Topups!topupVars' = topupVars' /\ Topups!slotVars' = slotVars'
  /\ Topups!stripeVars' = stripeVars'
  BY DEF Topups!pageVars, pageVars, Topups!ledgerVars, ledgerVars, Topups!topupVars, topupVars,
     Topups!slotVars, slotVars, Topups!stripeVars, stripeVars

LEMMA TopupsShow ==
  ASSUME NEW op \in Operations, NEW a \in Accounts, NEW s, NEW c, NEW n \in Int, NEW of,
         Topups!Show(Topups!Form(op, a, s, c, n, of)), op = "topup" => n \in Amounts,
         op \in {"purchase", "renewal"} => s \in Slots
  PROVE  \E f : Shows(f, 2)
<1> DEFINE f == Form(op, a, s, c, n, of)
<1>1. /\ f.key = Cardinality(forms) + 1 /\ f.op \in Operations /\ f.account \in Accounts
      /\ f.cents \in Int /\ (f.op = "topup" => f.cents \in Amounts)
      /\ f.op \in {"purchase", "renewal"} => f.slot \in Slots
  BY DEF Form
<1>2. f = Topups!Form(op, a, s, c, n, of)
  BY SameForTopups
<1> HIDE DEF f
<1>3. Topups!Show(f)
  BY <1>2
<1>4. /\ Cardinality(forms) < 2 /\ forms' = forms \cup {f}
      /\ UNCHANGED <<clock, links, ledgerVars, topupVars, slotVars, request, stripeVars>>
  BY <1>3, SameForTopups, TopupsVars DEF Topups!Show
<1> QED
  BY <1>1, <1>4 DEF Shows

LEMMA TopupsPages ==
  ASSUME price \in [Slots -> {2}], Topups!Pages
  PROVE  \E f : Shows(f, 2)
<1>1. /\ \A n \in Amounts : n \in Int
      /\ \A s \in Slots : price[s] \in Int
  BY WalletAssumption
<1>3. /\ "topup" \in Operations /\ "purchase" \in Operations /\ "renewal" \in Operations
      /\ "admin_credit" \in Operations /\ "admin_debit" \in Operations
      /\ "purchase_return" \in Operations
  BY DEF Operations
<1>4. ASSUME NEW a \in Accounts, Topups!topup_page(a) PROVE \E f : Shows(f, 2)
  BY <1>1, <1>3, <1>4, TopupsShow DEF Topups!topup_page
<1>5. ASSUME NEW a \in Accounts, Topups!adjust_page(a) PROVE \E f : Shows(f, 2)
  BY <1>1, <1>3, <1>5, TopupsShow DEF Topups!adjust_page
<1>6. ASSUME NEW a \in Accounts, NEW s \in Slots, Topups!purchase_page(a, s)
      PROVE  \E f : Shows(f, 2)
  BY <1>1, <1>3, <1>6, TopupsShow DEF Topups!purchase_page
<1>7. ASSUME NEW a \in Accounts, NEW s \in Slots, Topups!renew_page(a, s)
      PROVE  \E f : Shows(f, 2)
  BY <1>1, <1>3, <1>7, TopupsShow DEF Topups!renew_page
<1> QED
  BY <1>4, <1>5, <1>6, <1>7 DEF Topups!Pages

LEMMA TopupsSubmissions ==
  ASSUME Topups!Submissions
  PROVE  \E f \in forms : Adjusts(f) \/ Buys(f, 1) \/ renew_paid_slot(f) \/ Orders(f)
<1>1. PICK f \in forms : \/ Topups!_adjust_wallet_credit(f) \/ Topups!purchase_slot(f)
                         \/ Topups!renew_paid_slot(f) \/ Topups!create_wallet_topup(f)
  BY DEF Topups!Submissions
<1>2. Topups!_adjust_wallet_credit(f) => Adjusts(f)
  BY SameForTopups, TopupsVars DEF Topups!_adjust_wallet_credit, Adjusts
<1>3. \A c, start : Topups!_wallet_order(f, c, start) => _wallet_order(f, c, start)
  BY SameForTopups DEF Topups!_wallet_order, _wallet_order
<1>4. Topups!purchase_slot(f) => Buys(f, 1)
  BY <1>3, TopupsVars DEF Topups!purchase_slot, Buys, Claims
<1>5. Topups!renew_paid_slot(f) => renew_paid_slot(f)
  <2>1. Topups!_wallet_balance(f.account) = _wallet_balance(f.account)
    BY DEF Topups!_wallet_balance, _wallet_balance, Topups!EntriesOf, EntriesOf,
       Topups!MapThenSumSet, MapThenSumSet, Topups!MapThenFoldSet, MapThenFoldSet,
       Topups!Delta, Delta
  <2>2. Topups!Payable(f) => Payable(f)
    BY <2>1 DEF Topups!Payable, Payable, Topups!Used, Used, Topups!spending_blocked, spending_blocked
  <2>3. Topups!_wallet_current_slot(f) => _wallet_current_slot(f)
    BY DEF Topups!_wallet_current_slot, _wallet_current_slot
  <2>4. ASSUME Topups!renew_paid_slot(f) PROVE renew_paid_slot(f)
    <3>1. /\ f.op = "renewal" /\ Topups!Payable(f) /\ Topups!_wallet_current_slot(f)
          /\ Topups!paid_slot_through(f.slot, f.claim) # None
          /\ Topups!_wallet_order(f, claim[f.slot], Topups!RenewalStart(f))
          /\ UNCHANGED <<clock, pageVars, topupVars, slotVars, request, stripeVars>>
      BY <2>4, TopupsVars DEF Topups!renew_paid_slot
    <3>2. _wallet_order(f, claim[f.slot], RenewalStart(f))
      BY <1>3, <3>1, SameForTopups
    <3> QED
      BY <2>2, <2>3, <3>1, <3>2, SameForTopups DEF renew_paid_slot
  <2> QED
    BY <2>4
<1>6. Topups!create_wallet_topup(f) => Orders(f)
  BY TopupsVars DEF Topups!create_wallet_topup, Orders
<1> QED
  BY <1>1, <1>2, <1>4, <1>5, <1>6

LEMMA TopupsCheckouts == ASSUME Topups!Checkouts PROVE Checkouts
<1>1. PICK t \in topups : \/ Topups!create_session(t) \/ Topups!bind_wallet_checkout(t)
                          \/ Topups!retrieve_open_session(t) \/ Topups!hand_out(t)
                          \/ Topups!request_ends(t)
  BY DEF Topups!Checkouts
<1>2. /\ \A k, where : Topups!At(k, where) => At(k, where)
      /\ \A k : Topups!Done(k) => Done(k)
      /\ \A k : Topups!BoundTo(k) = BoundTo(k) /\ Topups!Remembered(k) = Remembered(k)
      /\ \A k : Topups!Answered(k) = Answered(k)
      /\ \A a : Topups!spending_blocked(a) = spending_blocked(a)
  BY DEF Topups!At, At, Topups!Done, Done, Topups!BoundTo, BoundTo, Topups!Remembered, Remembered,
     Topups!Answered, Answered, Topups!spending_blocked, spending_blocked
<1>3. Topups!create_session(t) => create_session(t)
  BY <1>2, TopupsVars DEF Topups!create_session, create_session, Topups!InWindow, InWindow
<1>4. Topups!bind_wallet_checkout(t) => bind_wallet_checkout(t)
  BY <1>2, TopupsVars DEF Topups!bind_wallet_checkout, bind_wallet_checkout
<1>5. Topups!retrieve_open_session(t) => retrieve_open_session(t)
  BY <1>2, TopupsVars DEF Topups!retrieve_open_session, retrieve_open_session
<1>6. Topups!hand_out(t) => hand_out(t)
  BY <1>2, TopupsVars DEF Topups!hand_out, hand_out
<1>7. Topups!request_ends(t) => request_ends(t)
  BY <1>2, TopupsVars DEF Topups!request_ends, request_ends
<1> QED
  BY <1>1, <1>3, <1>4, <1>5, <1>6, <1>7 DEF Checkouts

LEMMA TopupsTold ==
  /\ Topups!Webhooks => \E t \in topups :
       hold_wallet_topup(t) \/ \E kind \in PAID_EVENTS : Settles(t, kind)
  /\ Topups!Stripe => \E x \in sessions :
       session_expires(x) \/ customer_pays(x) \/ \E n : payment_reviewed(x, n)
  /\ \A h : Topups!resolve_wallet_topup_hold(h) => resolve_wallet_topup_hold(h)
<1>1. \A t : Topups!hold_wallet_topup(t) => hold_wallet_topup(t)
  BY TopupsVars DEF Topups!hold_wallet_topup, hold_wallet_topup
<1>2. \A t, kind : Topups!settle_wallet_topup(t, kind) => Settles(t, kind)
  BY SameForTopups, TopupsVars DEF Topups!settle_wallet_topup, Settles
<1>3. Topups!Webhooks => \E t \in topups :
       hold_wallet_topup(t) \/ \E kind \in PAID_EVENTS : Settles(t, kind)
  BY <1>1, <1>2, SameForTopups DEF Topups!Webhooks
<1>4. \A x : /\ Topups!session_expires(x) => session_expires(x)
             /\ Topups!customer_pays(x) => customer_pays(x)
  BY TopupsVars DEF Topups!session_expires, session_expires, Topups!customer_pays, customer_pays
<1>5. \A x, n : Topups!payment_reviewed(x, n) => payment_reviewed(x, n)
  BY TopupsVars DEF Topups!payment_reviewed, payment_reviewed
<1>6. Topups!Stripe => \E x \in sessions :
       session_expires(x) \/ customer_pays(x) \/ \E n : payment_reviewed(x, n)
  BY <1>4, <1>5 DEF Topups!Stripe
<1>7. \A h : Topups!resolve_wallet_topup_hold(h) => resolve_wallet_topup_hold(h)
  BY TopupsVars DEF Topups!resolve_wallet_topup_hold, resolve_wallet_topup_hold,
     Topups!Resolvable, Resolvable
<1> QED
  BY <1>3, <1>6, <1>7

LEMMA TopupsFleet ==
  ASSUME Topups!Fleet
  PROVE  \E s \in Slots : FleetMoves(s, {2}, 1)
<1>1. PICK s \in Slots : \/ Topups!SlotMoves(s)
                         \/ \E a \in Accounts : Topups!claim_slot(a, s)
                         \/ \E n \in {2} : Topups!set_node_offer(s, n)
  BY DEF Topups!Fleet
<1>2. Topups!SlotMoves(s) => SlotMoves(s)
  BY TopupsVars DEF Topups!SlotMoves, SlotMoves, Topups!slot_moves, slot_moves,
     Topups!_free_released, _free_released
<1>3. \A a : Topups!claim_slot(a, s) =>
        /\ Claims(a, s, 1)
        /\ UNCHANGED <<clock, pageVars, ledgerVars, topupVars, price, request, stripeVars>>
  BY TopupsVars DEF Topups!claim_slot, Claims
<1>4. \A n : Topups!set_node_offer(s, n) => set_node_offer(s, n)
  BY TopupsVars DEF Topups!set_node_offer, set_node_offer
<1>5. FleetMoves(s, {2}, 1)
  BY <1>1, <1>2, <1>3, <1>4 DEF FleetMoves
<1> QED
  BY <1>5

LEMMA TopupsMove ==
  ASSUME price \in [Slots -> {2}], Topups!Next
  PROVE  WalletMoves({2}, 2, 1)
<1>1. Topups!Pages => \E f : Shows(f, 2)
  BY TopupsPages
<1>2. Topups!Tick => TimePasses
  BY TopupsVars DEF Topups!Tick, TimePasses
<1> QED
  BY <1>1, <1>2, TopupsSubmissions, TopupsCheckouts, TopupsTold, TopupsFleet
  DEF Topups!Next, WalletMoves

(* Either set of constants' type invariant is that part of it.              *)
LEMMA MonthsTypeFollows == ASSUME WalletTyped(Prices, MaxForms, MaxClaims) PROVE TypeOK
<1>1. \A f \in forms : f.key \in Keys /\ f.op \in Operations /\ f.account \in Accounts
  BY DEF WalletTyped, FormsTyped, FormTyped, Keys
<1> QED
  BY <1>1 DEF WalletTyped, LedgerTyped, MonthsTyped, HoldersTyped, CheckoutsTyped, TypeOK,
     Keys, Sessions, Times

LEMMA TopupsTypeFollows == ASSUME WalletTyped({2}, 2, 1) PROVE Topups!TypeOK
<1>1. /\ Topups!Keys = 1..2 /\ Topups!Times = Times /\ Topups!Operations = Operations
      /\ Topups!Sessions = [order : 1..2, made : Times] /\ Topups!PAID_EVENTS = PAID_EVENTS
  BY DEF Topups!Keys, Topups!Times, Topups!Operations, Topups!Sessions, Topups!PAID_EVENTS,
     Times, Operations, PAID_EVENTS
<1>2. \A f \in forms : f.key \in 1..2 /\ f.op \in Operations /\ f.account \in Accounts
  BY DEF WalletTyped, FormsTyped, FormTyped
<1> QED
  BY <1>1, <1>2 DEF WalletTyped, LedgerTyped, MonthsTyped, HoldersTyped, CheckoutsTyped,
     Topups!TypeOK

LEMMA MonthsTypedInit == ASSUME Init PROVE WalletTyped(Prices, MaxForms, MaxClaims)
  BY WalletTypedInit, WalletAssumption DEF Init, Keys

LEMMA TopupsTypedInit == ASSUME Topups!Init PROVE WalletTyped({2}, 2, 1)
<1>1. Topups!Keys = 1..2
  BY DEF Topups!Keys
<1> QED
  BY <1>1, WalletTypedInit DEF Topups!Init

-----------------------------------------------------------------------------
(* All of them together: whichever component moves, the others stay, and    *)
(* the prices of the wallet are those of the constants it runs with.        *)
ServerInv ==
  /\ focus \in {"gateway", "outages", "alerts", "sessions", "trial access", "names",
                "months", "topups"}
  /\ GwInv /\ GwCounted /\ OutInv /\ OutBounded /\ AlInv /\ AlCounted
  /\ SesInv /\ SesCounted /\ TaInv /\ TaCounted /\ NmInv
  /\ focus = "months" => WalletTyped(Prices, MaxForms, MaxClaims)
  /\ focus = "topups" => WalletTyped({2}, 2, 1)

LEMMA ServerInvInit == ServerInit => ServerInv
<1> SUFFICES ASSUME ServerInit PROVE ServerInv
  OBVIOUS
<1>1. GwInit /\ OutInit /\ AlInit /\ SesInit /\ TaInit /\ NmInit
  BY DEF ServerInit
<1>2. GwInv /\ GwCounted /\ OutInv /\ OutBounded /\ AlCounted /\ SesInv /\ TaInv /\ NmInv
  BY <1>1, GwInitSound, GwCountedInit, OutInitSound, OutBoundedInit, AlCountedInit, SesInitSound,
     TaInitSound, NmInitSound
<1>3. AlInv
  BY <1>1 DEF AlInit, AlInv, AlTyped, SilentTooLong
<1>4. SesCounted
  BY <1>1, SessionsAssumption DEF SesInit, SesCounted
<1>5. TaCounted
  BY <1>1, TrialAccessAssumption DEF TaInit, TaCounted
<1>6. focus = "months" => WalletTyped(Prices, MaxForms, MaxClaims)
  BY MonthsTypedInit DEF ServerInit
<1>7. focus = "topups" => WalletTyped({2}, 2, 1)
  BY TopupsTypedInit DEF ServerInit
<1>8. focus \in {"gateway", "outages", "alerts", "sessions", "trial access", "names",
                 "months", "topups"}
  BY DEF ServerInit
<1> QED
  BY <1>2, <1>3, <1>4, <1>5, <1>6, <1>7, <1>8 DEF ServerInv

LEMMA WalletStepKept ==
  ASSUME ServerInv, [ServerNext]_<<focus, siteVars, vars>>
  PROVE  /\ focus' = focus
         /\ focus' = "months" => WalletTyped(Prices, MaxForms, MaxClaims)'
         /\ focus' = "topups" => WalletTyped({2}, 2, 1)'
<1>1. /\ focus' = focus
      /\ focus = "months" => Next \/ UNCHANGED vars
      /\ focus = "topups" => Topups!Next \/ UNCHANGED vars
  BY DEF ServerNext, OthersWait, TopupsNext
<1>2. ASSUME focus = "months" PROVE WalletTyped(Prices, MaxForms, MaxClaims)'
  <2>1. WalletTyped(Prices, MaxForms, MaxClaims)
    BY <1>2 DEF ServerInv
  <2>2. price \in [Slots -> Prices]
    BY <2>1 DEF WalletTyped
  <2>3. CASE Next
    BY <2>1, <2>2, <2>3, MonthsMove, WalletTypedKept, WalletAssumption
  <2>4. CASE UNCHANGED vars
    BY <2>1, <2>4, WalletTypedStays
  <2> QED
    BY <1>1, <1>2, <2>3, <2>4
<1>3. ASSUME focus = "topups" PROVE WalletTyped({2}, 2, 1)'
  <2>1. WalletTyped({2}, 2, 1)
    BY <1>3 DEF ServerInv
  <2>2. price \in [Slots -> {2}]
    BY <2>1 DEF WalletTyped
  <2>3. CASE Topups!Next
    BY <2>1, <2>2, <2>3, TopupsMove, WalletTypedKept
  <2>4. CASE UNCHANGED vars
    BY <2>1, <2>4, WalletTypedStays
  <2> QED
    BY <1>1, <1>3, <2>3, <2>4
<1> QED
  BY <1>1, <1>2, <1>3

LEMMA ServerInvKept ==
  ASSUME ServerInv, [ServerNext]_<<focus, siteVars, vars>>
  PROVE  ServerInv'
<1>1. /\ GwNext \/ UNCHANGED gwVars
      /\ OutNext \/ UNCHANGED outVars
      /\ AlNext \/ UNCHANGED alVars
      /\ SesNext \/ UNCHANGED sesVars
      /\ TaNext \/ UNCHANGED taVars
      /\ NmNext \/ UNCHANGED nmVars
  BY DEF ServerNext, OthersWait, siteVars
<1>2. GwInv' /\ GwCounted'
  BY <1>1, GwStepSound, GwCountedKept DEF ServerInv
<1>3. OutInv' /\ OutBounded'
  BY <1>1, OutStepSound, OutBoundedKept DEF ServerInv
<1>4. AlInv' /\ AlCounted'
  BY <1>1, AlStepSound, AlCountedKept DEF ServerInv
<1>5. SesInv' /\ SesCounted' /\ TaInv' /\ TaCounted' /\ NmInv'
  BY <1>1, SesStepSound, SesCountedKept, TaStepSound, TaCountedKept, NmStepKeeps DEF ServerInv
<1> QED
  BY <1>2, <1>3, <1>4, <1>5, WalletStepKept DEF ServerInv

LEMMA ServerInvTyped == ServerInv => ServerTypeOK
<1> SUFFICES ASSUME ServerInv PROVE ServerTypeOK
  OBVIOUS
<1>1. GwTypeOK /\ OutTypeOK /\ AlTypeOK /\ SesTypeOK /\ TaTypeOK /\ NmTypeOK
  BY GwTypeFollows, OutTypeFollows, AlTypeFollows, SesTypeFollows, TaTypeFollows
  DEF ServerInv, NmInv, NmTyped
<1>2. (focus = "months" => TypeOK) /\ (focus = "topups" => Topups!TypeOK)
  BY MonthsTypeFollows, TopupsTypeFollows DEF ServerInv
<1> QED
  BY <1>1, <1>2 DEF ServerInv, ServerTypeOK

(* Every variable of the component that moves holds what its code may put   *)
(* there: a claim, a generation, an outage's minute or a try of its mail is *)
(* within what was given so far, an alert is at its rule's level, a session *)
(* or a name is of an account, machine or slot there is, and of prepaid     *)
(* credit, a form, an entry, an order and a month, with either set of       *)
(* constants, and a slot is free just when it has neither holder nor claim. *)
THEOREM ServerTypeCorrect == ServerSpec => []ServerTypeOK
<1>1. ServerInit => ServerInv
  BY ServerInvInit
<1>2. ASSUME ServerInv, [ServerNext]_<<focus, siteVars, vars>> PROVE ServerInv'
  BY <1>2, ServerInvKept
<1>3. ServerInv => ServerTypeOK
  BY ServerInvTyped
<1> QED
  BY <1>1, <1>2, <1>3, PTL DEF ServerSpec
=============================================================================
