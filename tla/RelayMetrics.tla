---------------------------- MODULE RelayMetrics ----------------------------
(***************************************************************************)
(* What a slot keeps of its model requests (ccfleet_agent/relay_metrics.py)*)
(* each relay, a process of its own, adds its request to the counts of a   *)
(* day, in one small file replaced under a lock, and gives up rather than  *)
(* wait; the slot's report adds up the last days of the account that is    *)
(* bound to the slot.  A request ends at one moment and gets the lock at   *)
(* another: after a later one, on the next day, or under another account.  *)
(*                                                                         *)
(* And what one relay learns of an answer it forwards (UsageCollector): an *)
(* upstream that counts cumulatively, may fall back to another model, and  *)
(* may be cut off or garbled, seen event by event.                         *)
(*                                                                         *)
(* A day is two moments long.  Of an outcome only that it is one is kept,  *)
(* and of usage only one count and its model.                              *)
(***************************************************************************)
EXTENDS Integers

LOCAL INSTANCE Functions

CONSTANTS
  RmRelays,      \* relays at work at the same time
  RmWindow,      \* the days a report covers (7)
  RmMaxMoment,   \* bound: the last moment
  RmMaxRecords,  \* bound: requests recorded
  RmMaxSwaps,    \* bound: times the account changes
  RmMaxEvents,   \* bound: events of one answer
  RmMaxTokens    \* bound: what an answer counts up to

ASSUME MetricsAssumption ==
  /\ RmWindow \in Nat \ {0} /\ RmMaxMoment \in Nat /\ RmMaxRecords \in Nat /\ RmMaxSwaps \in Nat
  /\ RmMaxEvents \in Nat /\ RmMaxTokens \in Nat
  /\ 0 \notin RmRelays    \* who holds the lock while nobody does

VARIABLES
  rmNow, rmAccount, rmSwaps,  \* the slot's clock, and the account bound to it
  rmStore,       \* the file: an account and, for each day, how many and the last moment
  rmLock, rmRelay,            \* who holds the lock; each relay's request
  rmSaved,       \* history: requests recorded, for each account and day
  rmSince,       \* history: recorded since this account was bound
  rmDisturbed,   \* history: days of which an account may miss some
  rmAnswer, rmUsage, rmEvents   \* one answer: what upstream does, and what the collector has

countVars == <<rmNow, rmAccount, rmSwaps, rmStore, rmLock, rmRelay, rmSaved, rmSince, rmDisturbed>>
sampleVars == <<rmAnswer, rmUsage, rmEvents>>
rmVars == <<countVars, sampleVars>>

Accounts == {1, 2}
Day(t) == t \div 2
Days == 0..Day(RmMaxMoment)
NoBucket == [n |-> 0, updated |-> 0]
Empty_store(fp) == [fp |-> fp, buckets |-> [d \in Days |-> NoBucket]]
NoRequest == [at |-> "none", fp |-> 0, t |-> 0]
Answer == [model |-> 0, n |-> 0, fell |-> FALSE, over |-> FALSE, garbled |-> FALSE]
NoUsage ==
  [bad |-> FALSE, delta |-> FALSE, stopped |-> FALSE, n |-> 0, model |-> 0,
   unpriced |-> FALSE, fallback |-> FALSE, replace |-> FALSE]

RmInit ==
  /\ rmNow = 0 /\ rmAccount = 1 /\ rmSwaps = 0 /\ rmStore = Empty_store(1) /\ rmLock = 0
  /\ rmRelay = [r \in RmRelays |-> NoRequest]
  /\ rmSaved = [p \in Accounts \X Days |-> 0] /\ rmSince = 0 /\ rmDisturbed = {}
  /\ rmAnswer = Answer /\ rmUsage = NoUsage /\ rmEvents = 0

-----------------------------------------------------------------------------
(* The counts.                                                               *)

(* The buckets of one account in the window that ends today; a report hides  *)
(* one that was written later than it looks, a writer keeps it.              *)
_current(store, fp, now, hide_future) ==
  [d \in Days |->
     IF /\ store.fp = fp /\ Day(now) - d \in 0..RmWindow - 1
        /\ ~hide_future \/ store.buckets[d].updated <= now
     THEN store.buckets[d] ELSE NoBucket]

(* A request ends, of the account the relay noted when it began.             *)
Finishes(r) ==
  /\ rmRelay[r].at = "none"
  /\ \E fp \in IF rmSwaps = 0 THEN {rmAccount} ELSE Accounts :
       rmRelay' = [rmRelay EXCEPT ![r] = [at |-> "lock", fp |-> fp, t |-> rmNow]]
  /\ UNCHANGED <<rmNow, rmAccount, rmSwaps, rmStore, rmLock, rmSaved, rmSince, rmDisturbed>>

RelayEnds(r) == rmRelay' = [rmRelay EXCEPT ![r] = NoRequest]

_acquire(r) ==
  /\ rmRelay[r].at = "lock" /\ rmLock = 0 /\ rmLock' = r
  /\ rmRelay' = [rmRelay EXCEPT ![r].at = "locked"]
  /\ UNCHANGED <<rmNow, rmAccount, rmSwaps, rmStore, rmSaved, rmSince, rmDisturbed>>

(* Not in time, or killed, or the disk full: not recorded, not tried again.  *)
gives_up(r) ==
  /\ rmRelay[r].at # "none" /\ RelayEnds(r)
  /\ rmLock' = IF rmLock = r THEN 0 ELSE rmLock
  /\ UNCHANGED <<rmNow, rmAccount, rmSwaps, rmStore, rmSaved, rmSince, rmDisturbed>>

(* Under the lock: an account that is no longer bound is not recorded.       *)
still_bound(r) ==
  /\ rmRelay[r].at = "locked"
  /\ IF rmAccount = rmRelay[r].fp
     THEN rmRelay' = [rmRelay EXCEPT ![r].at = "bound"] /\ UNCHANGED rmLock
     ELSE RelayEnds(r) /\ rmLock' = 0
  /\ UNCHANGED <<rmNow, rmAccount, rmSwaps, rmStore, rmSaved, rmSince, rmDisturbed>>

(* Mutant: a writer hides what a report hides.                               *)
KeptCounts_as_reported(r) == _current(rmStore, rmRelay[r].fp, rmRelay[r].t, TRUE)

KeptCounts(r) == _current(rmStore, rmRelay[r].fp, rmRelay[r].t, FALSE)

(* The file is read, counted up and replaced.                                *)
metrics_record(r) ==
  LET q == rmRelay[r]
      day == Day(q.t)
      old == KeptCounts(r)[day]
      new == [n |-> old.n + 1, updated |-> IF old.updated > q.t THEN old.updated ELSE q.t]
  IN /\ q.at = "bound"
     /\ FoldFunction(+, 0, rmSaved) < RmMaxRecords
     /\ rmStore' = [fp |-> q.fp, buckets |-> [KeptCounts(r) EXCEPT ![day] = new]]
     /\ rmSaved' = [rmSaved EXCEPT ![<<q.fp, day>>] = @ + 1]
     /\ rmSince' = IF q.fp = rmAccount THEN rmSince + 1 ELSE rmSince
     /\ rmDisturbed' = rmDisturbed
          \cup (IF rmStore.fp # q.fp THEN {rmStore.fp} \X Days ELSE {})
          \cup ({q.fp} \X {d \in Days : d > day \/ d <= day - RmWindow})
     /\ rmLock' = 0 /\ RelayEnds(r)
     /\ UNCHANGED <<rmNow, rmAccount, rmSwaps>>

(* What the slot reports: the days of the account that is bound.             *)
reported == _current(rmStore, rmAccount, rmNow, TRUE)

(* The clock goes on, or is set back.                                        *)
Clock ==
  /\ rmNow' \in {rmNow + 1} \cup 0..rmNow /\ rmNow' # rmNow /\ rmNow' <= RmMaxMoment
  /\ UNCHANGED <<rmAccount, rmSwaps, rmStore, rmLock, rmRelay, rmSaved, rmSince, rmDisturbed>>

AccountSwapped ==
  /\ rmSwaps < RmMaxSwaps /\ rmSwaps' = rmSwaps + 1
  /\ rmAccount' = 3 - rmAccount /\ rmSince' = 0
  /\ UNCHANGED <<rmNow, rmStore, rmLock, rmRelay, rmSaved, rmDisturbed>>

CountNext ==
  /\ UNCHANGED sampleVars
  /\ \/ \E r \in RmRelays : Finishes(r) \/ _acquire(r) \/ gives_up(r) \/ still_bound(r) \/ metrics_record(r)
     \/ Clock \/ AccountSwapped

-----------------------------------------------------------------------------
(* One answer.  What an event says of usage is a count, a model where it     *)
(* names one, and whether it lists a fallback among its attempts.  Upstream's*)
(* own events come in their order; anything else is garbled.                 *)
_reject == rmUsage' = [rmUsage EXCEPT !.bad = TRUE]

_mark_fallback_unreplaced(u) == [u EXCEPT !.unpriced = TRUE, !.fallback = TRUE]

(* From here on usage is of another attempt.                                 *)
_mark_fallback(u) == [u EXCEPT !.unpriced = TRUE, !.fallback = TRUE, !.replace = TRUE]

_iterations(u, listed) ==
  CASE listed = "none" -> u
    [] listed = "fallback" -> IF u.fallback THEN u ELSE _mark_fallback(u)
    [] listed = "others" -> [u EXCEPT !.unpriced = TRUE]

(* Cumulative: replaced at first and after a fallback, never less otherwise. *)
_merge(u, n, initial) ==
  IF initial \/ u.replace THEN [u EXCEPT !.n = n, !.replace = FALSE]
  ELSE IF n < u.n THEN [u EXCEPT !.bad = TRUE] ELSE [u EXCEPT !.n = n]

Next_event(answer) == rmEvents < RmMaxEvents /\ rmEvents' = rmEvents + 1 /\ rmAnswer' = answer
Feeds(u) == rmUsage' = IF rmUsage.bad THEN rmUsage ELSE u

message_start ==
  \E m \in {1, 2}, n \in 0..RmMaxTokens :
    /\ rmAnswer.model = 0 /\ Next_event([rmAnswer EXCEPT !.model = m, !.n = n])
    /\ Feeds(_merge([rmUsage EXCEPT !.model = m], n, TRUE))

(* Another model goes on; its own count begins anew.                         *)
FallsBack ==
  /\ rmAnswer.model # 0 /\ ~rmAnswer.over
  /\ \E n \in 0..RmMaxTokens :
       /\ Next_event([rmAnswer EXCEPT !.fell = TRUE, !.n = n])
       /\ Feeds(_mark_fallback(rmUsage))

message_delta ==
  /\ rmAnswer.model # 0 /\ ~rmAnswer.over
  /\ \E n \in rmAnswer.n..RmMaxTokens, listed \in {"none", "others"} \cup
                                       (IF rmAnswer.fell THEN {"fallback"} ELSE {}) :
       /\ Next_event([rmAnswer EXCEPT !.n = n])
       /\ Feeds([_merge(_iterations(rmUsage, listed), n, FALSE) EXCEPT !.delta = TRUE])

message_stop ==
  /\ rmAnswer.model # 0 /\ ~rmAnswer.over /\ Next_event([rmAnswer EXCEPT !.over = TRUE])
  /\ Feeds(IF rmUsage.delta THEN [rmUsage EXCEPT !.stopped = TRUE]
                            ELSE [rmUsage EXCEPT !.bad = TRUE])

(* Too long, doubled, not what was expected, or an error upstream reports.   *)
Garbled == Next_event([rmAnswer EXCEPT !.garbled = TRUE]) /\ _reject

SampleNext ==
  /\ UNCHANGED countVars
  /\ message_start \/ FallsBack \/ message_delta \/ message_stop \/ Garbled

(* What finish gives at this point, 0 for nothing; and the model it names,   *)
(* 0 for `other`.                                                            *)
finish == ~rmUsage.bad /\ rmUsage.stopped /\ ~rmUsage.replace
public_model == IF rmUsage.unpriced THEN 0 ELSE rmUsage.model

RmNext == CountNext \/ SampleNext

-----------------------------------------------------------------------------
(* Every variable holds what the code may put there.                         *)
RmTypeOK ==
  /\ rmNow \in 0..RmMaxMoment /\ rmAccount \in Accounts /\ rmSwaps \in 0..RmMaxSwaps
  /\ rmStore.fp \in Accounts /\ \A d \in Days : rmStore.buckets[d].updated \in 0..RmMaxMoment
  /\ \A d \in Days : rmStore.buckets[d].n > 0 => Day(rmStore.buckets[d].updated) = d
  /\ rmLock \in {0} \cup RmRelays
  /\ \A r \in RmRelays : rmRelay[r].at \in {"none", "lock", "locked", "bound"}
  /\ rmDisturbed \subseteq Accounts \X Days
  /\ rmAnswer.n \in 0..RmMaxTokens /\ rmUsage.n \in 0..RmMaxTokens /\ rmEvents \in 0..RmMaxEvents

(* A day's count is of that account's requests of that day, each once, in    *)
(* whatever order their relays got the lock; none is missing unless a        *)
(* request of another day or account was recorded after it; and a report     *)
(* gives the bound account nothing of another.                               *)
EachCountedOnce ==
  \A d \in Days :
    LET p == <<rmStore.fp, d>>
    IN /\ rmStore.buckets[d].n <= rmSaved[p]
       /\ p \notin rmDisturbed => rmStore.buckets[d].n = rmSaved[p]
       /\ reported[d].n <= rmSaved[<<rmAccount, d>>]

(* A request of the account before never wipes out what the account that is  *)
(* bound now has recorded.                                                   *)
BoundIsKept == rmSince > 0 => rmStore.fp = rmAccount

(* Usage comes only of an answer that was seen whole, is what its returned   *)
(* attempt counted, and names a model only if that model gave all of it.     *)
UsageIsOfTheAnswer ==
  finish => /\ rmAnswer.over /\ ~rmAnswer.garbled /\ rmUsage.n = rmAnswer.n
            /\ public_model # 0 => public_model = rmAnswer.model /\ ~rmAnswer.fell

MetricsSound == EachCountedOnce /\ BoundIsKept /\ UsageIsOfTheAnswer
=============================================================================
