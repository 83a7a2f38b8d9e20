---------------------------- MODULE TrialAccess ----------------------------
(* The trial's own keys and its request bucket (ccfleetd/trial_access.py): a *)
(* database beside the ledger's, kept over restarts and opened anew by each  *)
(* request.  A key names its account; the bucket is the account's and not    *)
(* the key's.  Tokens are counted in parts: a tick of the clock refills one. *)
EXTENDS Integers, Sequences, FiniteSets

CONSTANTS
  TaAccounts,       \* accounts with a verified sign-in
  TaCost,           \* parts of one token
  TaBurst,          \* tokens a full bucket holds
  TaKeysADay,       \* keys an account may make in a UTC day
  TaDay,            \* ticks in a day
  TaTTL,            \* ticks a key lasts
  TaMaxTicks,       \* bound: the clock
  TaMaxKeys,        \* bound: keys made
  TaMaxAsked        \* bound: requests

ASSUME TrialAccessAssumption ==
  /\ TaCost \in Nat \ {0} /\ TaBurst \in Nat \ {0} /\ TaKeysADay \in Nat
  /\ TaDay \in Nat \ {0} /\ TaTTL \in Nat \ {0}
  /\ TaMaxTicks \in Nat /\ TaMaxAsked \in Nat

VARIABLES
  taNow,            \* the server's clock, which may be set back
  taKeys,           \* trial_access, in the order made: a key is its index
  taRate,           \* trial_api_rate: parts left and when counted, none before a request
  taAdmitted,       \* ghost: when each of the account's requests was let in
  taAsked           \* requests so far

taVars == <<taNow, taKeys, taRate, taAdmitted, taAsked>>

NoRate == [tokens |-> -1, at |-> -1]
TaInit ==
  /\ taNow = 0 /\ taKeys = <<>> /\ taAsked = 0
  /\ taRate = [a \in TaAccounts |-> NoRate]
  /\ taAdmitted = [a \in TaAccounts |-> <<>>]

DayStart == (taNow \div TaDay) * TaDay
MadeToday(a) == {k \in DOMAIN taKeys : taKeys[k].account = a /\ taKeys[k].at >= DayStart}

\* Mutant: making a key starts its account's bucket again.
RateAfterKey_anew(a) == [taRate EXCEPT ![a] = NoRate]
RateAfterKey(a) == taRate

\* The account's other keys are revoked with it.
create(a) ==
  /\ Len(taKeys) < TaMaxKeys
  /\ Cardinality(MadeToday(a)) < TaKeysADay
  /\ taKeys' = Append([k \in DOMAIN taKeys |->
                         IF taKeys[k].account = a THEN [taKeys[k] EXCEPT !.revoked = TRUE] ELSE taKeys[k]],
                      [account |-> a, at |-> taNow, revoked |-> FALSE])
  /\ taRate' = RateAfterKey(a)
  /\ UNCHANGED <<taNow, taAdmitted, taAsked>>

revoke_keys(a) ==
  /\ taKeys' = [k \in DOMAIN taKeys |->
                  IF taKeys[k].account = a THEN [taKeys[k] EXCEPT !.revoked = TRUE] ELSE taKeys[k]]
  /\ UNCHANGED <<taNow, taRate, taAdmitted, taAsked>>

active(k) == ~taKeys[k].revoked /\ taKeys[k].at + TaTTL > taNow

\* Mutant: the bucket fills past its brim.
Refilled_past_the_brim(r) == IF r = NoRate THEN TaBurst * TaCost ELSE r.tokens + (taNow - r.at)

\* A clock behind the last sample refuses without touching the bucket.
Refilled(r) == IF r = NoRate \/ r.tokens + (taNow - r.at) > TaBurst * TaCost THEN TaBurst * TaCost
               ELSE r.tokens + (taNow - r.at)

take_request(k) ==
  LET a == taKeys[k].account  r == taRate[a]  tokens == Refilled(r)  accepted == tokens >= TaCost IN
  /\ taAsked < TaMaxAsked /\ active(k)
  /\ taAsked' = taAsked + 1
  /\ taNow >= r.at
  /\ taRate' = [taRate EXCEPT ![a] = [tokens |-> IF accepted THEN tokens - TaCost ELSE tokens, at |-> taNow]]
  /\ taAdmitted' = IF accepted THEN [taAdmitted EXCEPT ![a] = Append(@, taNow)] ELSE taAdmitted
  /\ UNCHANGED <<taNow, taKeys>>

TaTick ==
  /\ \E t \in {taNow + 1, taNow - 1} \cap 0..TaMaxTicks : taNow' = t
  /\ UNCHANGED <<taKeys, taRate, taAdmitted, taAsked>>

TaNext ==
  \/ \E a \in TaAccounts : create(a) \/ revoke_keys(a)
  \/ \E k \in DOMAIN taKeys : take_request(k)
  \/ TaTick

TaSpec == TaInit /\ [][TaNext]_taVars

-----------------------------------------------------------------------------
TaTypeOK ==
  /\ taNow \in 0..TaMaxTicks /\ taAsked \in 0..TaMaxAsked
  /\ \A k \in DOMAIN taKeys : taKeys[k] \in [account : TaAccounts, at : 0..TaMaxTicks, revoked : BOOLEAN]
  /\ \A a \in TaAccounts : taRate[a] = NoRate \/ taRate[a] \in [tokens : 0..(TaBurst * TaCost), at : 0..TaMaxTicks]

\* Over any stretch of time an account has no more requests let in than a full bucket and what
\* that stretch refills, however its keys are changed and the clock is set back; it has one
\* live key at most, and makes no more than the day's keys on any day.
RateKept ==
  \A a \in TaAccounts :
    /\ \A i, j \in DOMAIN taAdmitted[a] :
         i <= j => (j - i + 1) * TaCost <= TaBurst * TaCost + (taAdmitted[a][j] - taAdmitted[a][i])
    /\ Cardinality({k \in DOMAIN taKeys : taKeys[k].account = a /\ ~taKeys[k].revoked}) <= 1
    /\ \A d \in 0..(TaMaxTicks \div TaDay) :
         Cardinality({k \in DOMAIN taKeys : taKeys[k].account = a /\ taKeys[k].at \div TaDay = d}) <= TaKeysADay
=============================================================================
