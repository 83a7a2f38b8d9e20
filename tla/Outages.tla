------------------------------ MODULE Outages ------------------------------
(* Outages and the emails about them: the minute the serving loop counts for *)
(* the status page (ccfleetd/status.py), the outages it opens and ends       *)
(* (ccfleetd/outage.py) and the emails owed to the holders who asked for     *)
(* them, over restarts of the server.  Each store method is one transaction, *)
(* and the server may stop between any two; the emails go out after the      *)
(* monitor's lock is let go.  Time is counted in minutes.                    *)
EXTENDS Integers, Sequences, FiniteSets

CONSTANTS
  OutMachines,      \* machines that carry a slot
  OutHolders,       \* accounts holding a slot on each of them
  LateAfter,        \* status.thresholds: minutes unheard until yellow,
  DownAfter,        \*   and until red
  NewsAfter,        \* DOWN_AFTER_S: minutes an outage lasts before it is news
  OutGrace,         \* status.grace_minutes: minutes a check may run late
  OutTries,         \* MAX_TRIES
  OutLastMinute,    \* bound: the clock stops there
  OutMaxStops,      \* bound: times the server stops
  OutMaxChanges     \* bound: alerts raised, settings changed, sends refused

Site == "site"

ASSUME OutagesAssumption ==
  /\ Site \notin OutMachines
  /\ LateAfter \in Nat /\ DownAfter \in Nat /\ LateAfter <= DownAfter
  /\ NewsAfter \in Nat /\ OutGrace \in Nat /\ OutTries \in Nat \ {0}
  /\ OutLastMinute \in Nat /\ OutMaxStops \in Nat /\ OutMaxChanges \in Nat

VARIABLES
  minute,           \* the clock
  outPc,            \* where record_status stands; "stopped" when nothing serves
  listening,        \* settings: when the serving loop last began
  heard,            \* each machine's last report, stored
  wrong,            \* since when an open alert says the machine is down, -1 for none
  counts,           \* machines switched on and carrying a slot
  snap,             \* this minute's states, as read
  counted,          \* status_minutes of the site, all days together
  outages,          \* outages, oldest first
  emails,           \* outage_emails
  wants,            \* accounts.outage_emails
  owing,            \* the emails this minute read as owed, still to try
  inbox,            \* what Resend took: a repeat under the same key is not sent again
  stops,            \* stops of the server so far
  changes           \* changes so far

outVars == <<minute, outPc, listening, heard, wrong, counts, snap, counted, outages, emails,
             wants, owing, inbox, stops, changes>>

Rank == [green |-> 0, yellow |-> 1, red |-> 2]

OutInit ==
  /\ minute = 0 /\ outPc = "idle" /\ listening = 0 /\ stops = 0 /\ changes = 0
  /\ heard = [m \in OutMachines |-> 0]
  /\ wrong = [m \in OutMachines |-> -1]
  /\ counts = OutMachines
  /\ snap = <<>>
  /\ counted = [first |-> -1, last |-> -1, green |-> 0, yellow |-> 0, red |-> 0]
  /\ outages = <<>> /\ emails = {} /\ owing = {} /\ inbox = {}
  /\ wants = OutHolders

-----------------------------------------------------------------------------
(* A machine's state.                                                        *)

OpenOutages == {i \in DOMAIN outages : outages[i].end = -1}
OpenFor(c) == {i \in OpenOutages : outages[i].of = c}

\* A bug: the silence of a machine already out counts from the restart too.
SinceFor_from_the_restart(m) == IF heard[m] > listening THEN heard[m] ELSE listening

\* Since when a machine's silence counts: not from the restart for one already out.
SinceFor(m) == IF OpenFor(m) # {} THEN heard[m]
               ELSE IF heard[m] > listening THEN heard[m] ELSE listening

Reasons(m) ==
  LET from == SinceFor(m)  age == minute - from
  IN (IF age >= DownAfter THEN {[level |-> "red", since |-> from + DownAfter]}
      ELSE IF age >= LateAfter THEN {[level |-> "yellow", since |-> from + LateAfter]}
      ELSE {})
     \cup (IF wrong[m] = -1 THEN {} ELSE {[level |-> "red", since |-> wrong[m]]})

\* The worst of them, since the earliest at that level.
WorstOf(reasons) ==
  IF reasons = {} THEN [level |-> "green", since |-> -1]
  ELSE CHOOSE r \in reasons : \A q \in reasons :
         \/ Rank[q.level] < Rank[r.level]
         \/ q.level = r.level /\ r.since <= q.since

\* A bug: only the minute itself is counted, never the ones missed.
Counted_leaving_gaps_out(c, level, gap) ==
  IF c.last >= minute THEN c
  ELSE [c EXCEPT ![level] = @ + 1, !.last = minute, !.first = IF @ = -1 THEN minute ELSE @]

\* count_status: each minute once; a short gap takes the state, a long one `gap`, if any.
Counted(c, level, gap) ==
  IF c.last >= minute THEN c
  ELSE LET missed == IF c.last = -1 THEN 0 ELSE minute - c.last - 1
           fill == IF missed <= OutGrace THEN level ELSE gap
           filled == IF fill = "none" THEN c ELSE [c EXCEPT ![fill] = @ + missed]
       IN [filled EXCEPT ![level] = @ + 1, !.last = minute,
                         !.first = IF @ = -1 THEN minute ELSE @]

-----------------------------------------------------------------------------
(* What happens around the server.                                           *)

Changed(really) == /\ really => changes < OutMaxChanges
                   /\ changes' = changes + (IF really THEN 1 ELSE 0)
Unlocked == outPc \in {"idle", "sending", "stopped"}

\* The loop counts every minute while it runs, unless it is still sending.
MinutePasses ==
  /\ Unlocked /\ minute < OutLastMinute
  /\ outPc = "idle" => counted.last = minute
  /\ minute' = minute + 1
  /\ UNCHANGED <<outPc, listening, heard, wrong, counts, snap, counted, outages, emails, wants,
                 owing, inbox, stops, changes>>

\* A report is stored and judged under the monitor's lock: it may raise or close the alert.
RecordHeartbeat(m, bad) ==
  /\ outPc \in {"idle", "sending"}
  /\ heard' = [heard EXCEPT ![m] = minute]
  /\ wrong' = [wrong EXCEPT ![m] = IF ~bad THEN -1 ELSE IF @ = -1 THEN minute ELSE @]
  /\ Changed(bad /\ wrong[m] = -1)
  /\ UNCHANGED <<minute, outPc, listening, counts, snap, counted, outages, emails, wants,
                 owing, inbox, stops>>

\* An operator switches the machine off or on, or takes its slot away.
SetCounts(m) ==
  /\ Unlocked
  /\ counts' = (counts \ {m}) \cup ({m} \ counts)
  /\ Changed(TRUE)
  /\ UNCHANGED <<minute, outPc, listening, heard, wrong, snap, counted, outages, emails, wants,
                 owing, inbox, stops>>

set_outage_emails(h) ==
  /\ outPc # "stopped"
  /\ wants' = (wants \ {h}) \cup ({h} \ wants)
  /\ emails' = IF h \in wants THEN {e \in emails : e.to # h \/ e.sent} ELSE emails
  /\ Changed(TRUE)
  /\ UNCHANGED <<minute, outPc, listening, heard, wrong, counts, snap, counted, outages, owing,
                 inbox, stops>>

Stop ==
  /\ outPc # "stopped" /\ stops < OutMaxStops
  /\ outPc' = "stopped" /\ stops' = stops + 1
  /\ snap' = <<>> /\ owing' = {}
  /\ UNCHANGED <<minute, listening, heard, wrong, counts, counted, outages, emails, wants, inbox,
                 changes>>

\* run_forever notes when listening began.
set_listening_since ==
  /\ outPc = "stopped"
  /\ outPc' = "idle" /\ listening' = minute
  /\ UNCHANGED <<minute, heard, wrong, counts, snap, counted, outages, emails, wants, owing,
                 inbox, stops, changes>>

-----------------------------------------------------------------------------
(* record_status, transaction by transaction.                                *)

Owed(i, kind, people) == {[of |-> i, kind |-> kind, to |-> h, tries |-> 0, sent |-> FALSE] : h \in people}

\* The site's own silence, told once it is over, once per start.
\* The loop comes round once a minute, or at once when it starts.
site_back ==
  /\ outPc = "idle" /\ (counted.last < minute \/ listening = minute)
  /\ outPc' = "count"
  /\ LET from == counted.last + 1 IN
     IF counted.last = -1 \/ minute - from < NewsAfter + OutGrace
        \/ \E i \in DOMAIN outages : outages[i].of = Site /\ outages[i].start = from
     THEN UNCHANGED <<outages, emails>>
     ELSE /\ outages' = Append(outages, [of |-> Site, start |-> from, end |-> minute, told |-> TRUE])
          /\ emails' = emails \cup Owed(Len(outages'), "site", wants)
  /\ UNCHANGED <<minute, listening, heard, wrong, counts, snap, counted, wants, owing, inbox, stops, changes>>

\* Each machine as it is now, and the site's minute; the machines' own minutes go the same way.
count_status ==
  /\ outPc = "count"
  /\ outPc' = "judge"
  /\ snap' = [m \in counts |-> WorstOf(Reasons(m))]
  /\ counted' = Counted(counted, "green", "red")
  /\ UNCHANGED <<minute, listening, heard, wrong, counts, outages, emails, wants, owing, inbox,
                 stops, changes>>

\* machine_outages: what is still to do about each machine, from the states read.
ToBegin(m) == snap[m].level = "red" /\ OpenFor(m) = {}
NewsOf(i) == LET from == IF outages[i].start > listening THEN outages[i].start ELSE listening
             IN ~outages[i].told /\ minute - from >= NewsAfter
ToTell(i) == outages[i].of \in DOMAIN snap /\ snap[outages[i].of].level = "red" /\ NewsOf(i)
ToEnd(i) == outages[i].of \in DOMAIN snap => snap[outages[i].of].level # "red"

begin_outage(m) ==
  /\ outPc = "judge" /\ m \in DOMAIN snap /\ ToBegin(m)
  /\ outages' = Append(outages, [of |-> m, start |-> snap[m].since, end |-> -1, told |-> FALSE])
  /\ UNCHANGED <<minute, outPc, listening, heard, wrong, counts, snap, counted, emails, wants,
                 owing, inbox, stops, changes>>

owe_outage_start(i) ==
  /\ outPc = "judge" /\ i \in OpenOutages /\ ToTell(i)
  /\ outages' = [outages EXCEPT ![i].told = TRUE]
  /\ emails' = emails \cup Owed(i, "down", wants)
  /\ UNCHANGED <<minute, outPc, listening, heard, wrong, counts, snap, counted, wants, owing,
                 inbox, stops, changes>>

\* A bug: everybody owed the start is owed the end, sent or not.
HeardItBegin_if_owed(i) == {e.to : e \in {x \in emails : x.of = i /\ x.kind = "down"}}

HeardItBegin(i) == {e.to : e \in {x \in emails : x.of = i /\ x.kind = "down" /\ x.sent}}

\* One whose machine no longer counts just ends; a machine back is told to who heard it begin.
end_outage(i) ==
  /\ outPc = "judge" /\ i \in OpenOutages /\ ToEnd(i)
  /\ outages' = [outages EXCEPT ![i].end = minute]
  /\ emails' = IF outages[i].of \in DOMAIN snap
               THEN emails \cup Owed(i, "back", HeardItBegin(i) \cap wants) ELSE emails
  /\ UNCHANGED <<minute, outPc, listening, heard, wrong, counts, snap, counted, wants, owing,
                 inbox, stops, changes>>

\* Everything judged: what is owed is read, still under the lock.
owed_outage_emails ==
  /\ outPc = "judge"
  /\ \A m \in DOMAIN snap : ~ToBegin(m)
  /\ \A i \in OpenOutages : ~ToTell(i) /\ ~ToEnd(i)
  /\ outPc' = "sending"
  /\ snap' = <<>>
  /\ owing' = {e \in emails : /\ ~e.sent /\ e.tries < OutTries /\ e.to \in wants
                              /\ ~(e.kind = "down" /\ outages[e.of].end # -1)}
  /\ UNCHANGED <<minute, listening, heard, wrong, counts, counted, outages, emails, wants,
                 inbox, stops, changes>>

Key(e) == [of |-> e.of, kind |-> e.kind, to |-> e.to]

\* One email handed to Resend, and the try marked; the server may stop between the two.
Sent(e, taken) ==
  /\ outPc = "sending" /\ e \in owing
  /\ inbox' = IF taken THEN inbox \cup {Key(e)} ELSE inbox
  /\ owing' = owing \ {e}
  /\ emails' = {IF Key(x) = Key(e) THEN [x EXCEPT !.tries = @ + 1, !.sent = taken] ELSE x : x \in emails}
  /\ Changed(~taken)
  /\ UNCHANGED <<minute, outPc, listening, heard, wrong, counts, snap, counted, outages, wants, stops>>

SentButNotMarked(e) ==
  /\ outPc = "sending" /\ e \in owing /\ stops < OutMaxStops
  /\ inbox' = inbox \cup {Key(e)}
  /\ outPc' = "stopped" /\ stops' = stops + 1 /\ owing' = {}
  /\ UNCHANGED <<minute, listening, heard, wrong, counts, snap, counted, outages, emails, wants,
                 changes>>

MinuteDone ==
  /\ outPc = "sending" /\ owing = {}
  /\ outPc' = "idle"
  /\ UNCHANGED <<minute, listening, heard, wrong, counts, snap, counted, outages, emails, wants,
                 owing, inbox, stops, changes>>

OutNext ==
  \/ MinutePasses \/ Stop \/ set_listening_since
  \/ \E m \in OutMachines : SetCounts(m) \/ begin_outage(m) \/ \E bad \in BOOLEAN : RecordHeartbeat(m, bad)
  \/ \E h \in OutHolders : set_outage_emails(h)
  \/ site_back \/ count_status \/ owed_outage_emails \/ MinuteDone
  \/ \E i \in OpenOutages : owe_outage_start(i) \/ end_outage(i)
  \/ \E e \in owing : SentButNotMarked(e) \/ \E taken \in BOOLEAN : Sent(e, taken)

OutSpec == OutInit /\ [][OutNext]_outVars

-----------------------------------------------------------------------------
OutTypeOK ==
  /\ minute \in 0..OutLastMinute /\ listening \in 0..OutLastMinute /\ stops \in 0..OutMaxStops /\ changes \in 0..OutMaxChanges
  /\ outPc \in {"idle", "count", "judge", "sending", "stopped"}
  /\ heard \in [OutMachines -> 0..OutLastMinute]
  /\ wrong \in [OutMachines -> -1..OutLastMinute]
  /\ counts \subseteq OutMachines /\ DOMAIN snap \subseteq OutMachines
  /\ \A i \in DOMAIN outages :
       outages[i] \in [of : {Site} \cup OutMachines, start : 0..OutLastMinute,
                       end : -1..OutLastMinute, told : BOOLEAN]
  /\ emails \cup owing \subseteq [of : DOMAIN outages, kind : {"down", "back", "site"},
                                  to : OutHolders, tries : 0..OutTries, sent : BOOLEAN]
  /\ wants \subseteq OutHolders

\* Nobody hears that a machine is back who did not hear that it was down, however the sends
\* fail and the server stops; an email is owed once per outage, kind and person; a site's
\* outage is told once per start; and a machine has one outage open at a time.
OutageTold ==
  /\ \A k \in inbox : k.kind = "back" => [k EXCEPT !.kind = "down"] \in inbox
  /\ \A e, f \in emails : Key(e) = Key(f) => e = f
  /\ \A m \in OutMachines : Cardinality(OpenFor(m)) <= 1
  /\ \A i, j \in DOMAIN outages :
       outages[i].of = Site /\ outages[j].of = Site /\ outages[i].start = outages[j].start => i = j

\* Every minute since the site's first is counted exactly once, in one colour, over restarts
\* within a minute and over gaps of any length.
MinutesCountedOnce ==
  counted.first # -1 =>
    counted.green + counted.yellow + counted.red = counted.last - counted.first + 1

OutagesSound == OutageTold /\ MinutesCountedOnce

\* News is true of the machine and not of the server: an outage is told as over only when the
\* machine was heard from lately, and falls due as news only about a machine silent too long,
\* once somebody has listened that long for it (or about one an open alert says is down).
NewsIsTrue ==
  [][\A i \in DOMAIN outages :
       /\ (outages[i].of \in DOMAIN snap /\ outages'[i].end # outages[i].end
             => minute - heard[outages[i].of] < DownAfter)
       /\ (outages'[i].told /\ ~outages[i].told =>
             \/ wrong[outages[i].of] # -1
             \/ /\ minute - heard[outages[i].of] >= DownAfter
                /\ minute - listening >= NewsAfter)]_outVars
=============================================================================
