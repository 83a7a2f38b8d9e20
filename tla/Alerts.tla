------------------------------- MODULE Alerts -------------------------------
(* The operator's alerts: what the last reports of the nodes and of a shared *)
(* machine's slot say (ccfleetd/rules.py), and the monitor that reconciles   *)
(* the open alerts with it under its lock, at each report and once a minute  *)
(* (ccfleetd/monitor.py).  A report that could not reach the server while it *)
(* was down is not a silence, and an old report is no word about now.        *)
EXTENDS Integers, FiniteSets

CONSTANTS
  AlShared,         \* shared machines, each carrying one slot, named as its machine
  AlOwned,          \* nodes of owners
  AlSlotShapes,     \* bound: what a machine's report may say of itself and its slot
  AlOwnShapes,      \* bound: what an owner's node may say
  AlMaxAge,         \* heartbeat_max_age_s
  AlRetention,      \* retention_days: how long a report is kept
  AlWindow,         \* RENEWAL_WINDOW_S: how soon before expiry renewal is due
  AlLastTick,       \* bound: the clock stops there
  AlMaxReports,     \* bound: reports
  AlMaxChanges      \* bound: restarts and changes of the slot or of a node's switch

ASSUME AlertsAssumption ==
  /\ AlMaxAge \in Nat /\ AlRetention \in Nat /\ AlWindow \in Nat /\ AlLastTick \in Nat
  /\ AlShared \cap AlOwned = {}

VARIABLES
  alNow,            \* the clock
  alListening,      \* when the serving loop last began
  alServing,        \* whether it runs
  alOn,             \* nodes switched on
  alBeats,          \* each node's last two reports, newest first
  alSlot,           \* each slot's state and since when its holder's account counts
  alerts,           \* open alerts
  alReports, alChanges

alVars == <<alNow, alListening, alServing, alOn, alBeats, alSlot, alerts, alReports, alChanges>>

AlNodes == AlShared \cup AlOwned
Never == [at |-> -1]
Later(a, b) == IF a > b THEN a ELSE b

AlInit ==
  /\ alNow = 0 /\ alListening = 0 /\ alServing = TRUE /\ alOn = AlNodes
  /\ alBeats = [n \in AlNodes |-> [latest |-> Never, previous |-> Never]]
  /\ alSlot = [n \in AlShared |-> [state |-> "active", since |-> 0]]
  /\ alerts = {} /\ alReports = 0 /\ alChanges = 0

-----------------------------------------------------------------------------
(* What a report says, judged now.  `b` stands for the nodes' reports.       *)

Raised(n) == {a.rule : a \in {x \in alerts : x.node = n}}
Critical(rule) == [rule |-> rule, level |-> "critical"]
Warn(rule) == [rule |-> rule, level |-> "warn"]
When(condition, finding) == IF condition THEN {finding} ELSE {}

\* Silence counts from the restart, but not for an alert already up for it.
SilentFrom(n, rule, at) == IF rule \in Raised(n) THEN at ELSE Later(at, alListening)
heartbeat_findings(n, r) ==
  When(alNow - SilentFrom(n, "no_heartbeat", IF r = Never THEN 0 ELSE r.at) > AlMaxAge,
       Critical("no_heartbeat"))

disk_findings(r) == When(r.disk = "full", Critical("disk_high")) \cup When(r.disk = "high", Warn("disk_high"))
egress_findings(r, p) == When(p # Never /\ r.ip # p.ip, Warn("egress_changed"))

\* One miss of the binary is an upgrade under way; two in a row are a broken node.
claude_findings(r, p) ==
  When(r.claude = "none" /\ (p # Never => p.claude = "none"), Critical("claude_missing"))
  \cup When(r.claude = "other", Warn("version_mismatch"))

credential_findings(r) ==
  When(r.signed = "no", Critical("credentials_missing"))
  \cup When(r.signed = "yes" /\ r.expires # 0 /\ r.expires < alNow, Warn("token_expired"))

\* A quota read too long ago raises nothing, and keeps what it raised only over a restart.
quota_findings(n, r) ==
  When(/\ r.quota # "low"
       /\ alNow - r.at > AlMaxAge => /\ alNow - Later(r.at, alListening) <= AlMaxAge
                                     /\ "quota_high" \in Raised(n),
       IF r.quota = "spent" THEN Critical("quota_high") ELSE Warn("quota_high"))

remote_control_findings(r) == When(~r.rc, Warn("remote_control_down"))

slot_findings(n, r) ==
  LET state == alSlot[n].state IN
  When(state = "releasing" /\ r.wipeError, Critical("slot_wipe_failed"))
  \cup When(state = "free" /\ r.present = "yes", Critical("slot_occupied"))
  \cup When(state \in {"claimed", "active"} /\ r.present = "no", Critical("slot_missing"))
  \cup When(r.setupError /\ state \in {"claiming", "releasing"}, Warn("slot_provision_failed"))

\* Renewal trouble of the slot's credential, unless its account is being changed.
slot_credential_findings(n, r) ==
  LET due == r.expires # 0 /\ r.expires <= alNow
      terminal == r.renewal = "terminal"
  IN IF alSlot[n].state # "active" \/ r.present # "yes" \/ r.signed = "unsaid" \/ r.moving
        \/ r.fp # r.bound THEN {}
     ELSE IF due THEN {Critical("slot_token_expired")}
     ELSE IF r.signed = "no" THEN {Warn("slot_credentials_missing")}
     ELSE IF terminal THEN {Warn("slot_sign_in_required")}
     ELSE IF r.renewal = "unverified" THEN {Warn("slot_credential_renewal")}
     ELSE When(r.renewal = "needed" /\ r.expires # 0 /\ r.expires <= alNow + AlWindow,
               Warn("slot_credential_renewal"))

\* A check of the native client speaks for the slot's holder while the report is fresh.
observation(n, r) ==
  IF /\ r # Never /\ alNow - r.at <= AlMaxAge /\ r.at >= alListening
     /\ r.checkedAt >= alSlot[n].since
     /\ r.compat = "passed" => r.fp = r.bound
  THEN r.compat ELSE "none"
slot_compatibility_findings(n, r) ==
  When(alSlot[n].state = "active" /\ observation(n, r) = "failed", Warn("slot_native_compatibility"))

\* account_places: where an account is live, judged by nodes not gone quiet.
SaysLive(n, r) ==
  /\ n \in alOn /\ r # Never
  /\ alNow - SilentFrom(n, "no_heartbeat", r.at) <= AlMaxAge
  /\ r.signed = "yes" /\ r.fp # "none"
  /\ n \in AlShared => alSlot[n].state \in {"claimed", "active"}
elsewhere(n, b) ==
  /\ SaysLive(n, b[n].latest)
  /\ \E m \in AlNodes \ {n} : SaysLive(m, b[m].latest) /\ b[m].latest.fp = b[n].latest.fp
account_changed(n, r) ==
  alSlot[n].state \in {"claimed", "active"} /\ r.signed = "yes" /\ r.bound # "none" /\ r.fp # r.bound

evaluate(n, b) ==
  LET r == b[n].latest  p == b[n].previous
      silence == heartbeat_findings(n, r)
  IN IF r = Never THEN silence
     ELSE IF n \in AlShared
     THEN silence \cup disk_findings(r) \cup egress_findings(r, p) \cup slot_findings(n, r)
          \cup When(elsewhere(n, b), Critical("account_elsewhere"))
          \cup When(account_changed(n, r), Critical("account_changed"))
          \cup (IF alNow - r.at > AlMaxAge THEN {}
                ELSE {f \in slot_credential_findings(n, r) : r.at >= alListening \/ f.rule \in Raised(n)}
                     \cup slot_compatibility_findings(n, r))
     ELSE silence \cup claude_findings(r, p) \cup credential_findings(r) \cup disk_findings(r)
          \cup quota_findings(n, r) \cup egress_findings(r, p) \cup remote_control_findings(r)
          \cup When(elsewhere(n, b), Critical("account_elsewhere"))

-----------------------------------------------------------------------------
(* The monitor.                                                              *)

CredentialRules == {"slot_token_expired", "slot_credentials_missing", "slot_credential_renewal",
                    "slot_sign_in_required"}

\* A cached report is not a fresh observation of the slot's credential.
fresh_observation(r) ==
  /\ r # Never /\ r.signed # "unsaid"
  /\ alNow - r.checkedAt <= AlMaxAge /\ r.checkedAt >= alListening

\* Mutant: a report is taken for word about the credential whenever it came.
unconfirmed_never(n, b, rule) == FALSE

\* What the reports leave undecided keeps the alert it has, and raises none.
unconfirmed(n, b, rule) ==
  LET r == b[n].latest IN
  /\ n \in AlShared /\ r # Never /\ alSlot[n].state = "active"
  /\ \/ rule \in CredentialRules /\ ~fresh_observation(r)
     \/ /\ rule = "slot_native_compatibility"
        /\ \E a \in alerts : a.node = n /\ a.rule = rule /\ a.at >= alSlot[n].since
        /\ observation(n, r) \notin {"passed", "failed"}

\* _check_node_locked and _reconcile: the level an alert has is closed and opened anew.
Reconciled(n, b) ==
  LET wanted == {f \in evaluate(n, b) : ~unconfirmed(n, b, f.rule)}
      mine == {a \in alerts : a.node = n}
      kept == {a \in mine : \/ [rule |-> a.rule, level |-> a.level] \in wanted
                            \/ /\ unconfirmed(n, b, a.rule)
                               /\ a.rule \notin {f.rule : f \in wanted}}
      opened == {f \in wanted : \A a \in kept : a.rule # f.rule}
  IN (alerts \ mine) \cup kept
     \cup {[node |-> n, rule |-> f.rule, level |-> f.level, at |-> alNow] : f \in opened}

Said(shape) ==
  [x \in DOMAIN shape \cup {"at"} |->
     IF x = "at" THEN alNow
     ELSE IF x = "expires" /\ shape.expires # 0 THEN alNow + shape.expires - 1
     ELSE IF x = "checkedAt" THEN Later(alNow - shape.checkedAt, 0) ELSE shape[x]]

\* A report is stored and its node judged, as one step beside every other check.
record_heartbeat(n, shape) ==
  /\ alServing /\ alReports < AlMaxReports
  /\ alBeats' = [alBeats EXCEPT ![n] = [latest |-> Said(shape), previous |-> @.latest]]
  /\ alerts' = Reconciled(n, alBeats')
  /\ alReports' = alReports + 1
  /\ UNCHANGED <<alNow, alListening, alServing, alOn, alSlot, alChanges>>

check_node(n) ==
  /\ alServing /\ n \in alOn
  /\ alerts' = Reconciled(n, alBeats)
  /\ UNCHANGED <<alNow, alListening, alServing, alOn, alBeats, alSlot, alReports, alChanges>>

\* Reports past their time are deleted, a silent node's last one too.
prune_heartbeats ==
  LET kept(r) == IF r # Never /\ alNow - r.at > AlRetention THEN Never ELSE r IN
  /\ alServing
  /\ alBeats' = [n \in AlNodes |-> [latest |-> kept(alBeats[n].latest),
                                    previous |-> kept(alBeats[n].previous)]]
  /\ alBeats' # alBeats
  /\ UNCHANGED <<alNow, alListening, alServing, alOn, alSlot, alerts, alReports, alChanges>>

-----------------------------------------------------------------------------
(* Around it.                                                                *)

AlTick ==
  /\ alNow < AlLastTick
  /\ alNow' = alNow + 1
  /\ UNCHANGED <<alListening, alServing, alOn, alBeats, alSlot, alerts, alReports, alChanges>>

AlStop ==
  /\ alServing /\ alChanges < AlMaxChanges
  /\ alServing' = FALSE /\ alChanges' = alChanges + 1
  /\ UNCHANGED <<alNow, alListening, alOn, alBeats, alSlot, alerts, alReports>>

run_forever ==
  /\ ~alServing
  /\ alServing' = TRUE /\ alListening' = alNow
  /\ UNCHANGED <<alNow, alOn, alBeats, alSlot, alerts, alReports, alChanges>>

\* A slot goes round its lifecycle; a new holder's account, or a changed one, counts from now.
AlNextState == [active |-> "releasing", releasing |-> "free", free |-> "claiming",
                claiming |-> "claimed", claimed |-> "active"]
AlSlotMoves(n) ==
  /\ alServing /\ alChanges < AlMaxChanges
  /\ \E state \in {AlNextState[alSlot[n].state]} \cup ({"active"} \cap {alSlot[n].state}) :
       alSlot' = [alSlot EXCEPT ![n].state = state,
                                ![n].since = IF state \in {"claiming", "active"} THEN alNow ELSE @]
  /\ alChanges' = alChanges + 1
  /\ UNCHANGED <<alNow, alListening, alServing, alOn, alBeats, alerts, alReports>>

SwitchNode(n) ==
  /\ alServing /\ alChanges < AlMaxChanges
  /\ alOn' = (alOn \ {n}) \cup ({n} \ alOn)
  /\ alChanges' = alChanges + 1
  /\ UNCHANGED <<alNow, alListening, alServing, alBeats, alSlot, alerts, alReports>>

AlNext ==
  \/ \E n \in AlShared, shape \in AlSlotShapes : record_heartbeat(n, shape)
  \/ \E n \in AlOwned, shape \in AlOwnShapes : record_heartbeat(n, shape)
  \/ \E n \in AlNodes : check_node(n) \/ SwitchNode(n)
  \/ \E n \in AlShared : AlSlotMoves(n)
  \/ prune_heartbeats \/ AlTick \/ AlStop \/ run_forever

AlSpec == AlInit /\ [][AlNext]_alVars

-----------------------------------------------------------------------------
AlTypeOK ==
  /\ alNow \in 0..AlLastTick /\ alListening \in 0..AlLastTick /\ alServing \in BOOLEAN
  /\ alOn \subseteq AlNodes
  /\ \A n \in AlNodes : alBeats[n].latest.at \in -1..AlLastTick
  /\ \A n \in AlShared : alSlot[n].state \in DOMAIN AlNextState
  /\ \A a \in alerts : a.node \in AlNodes /\ a.level \in {"warn", "critical"} /\ a.at \in 0..AlLastTick
  /\ \A a, c \in alerts : a.node = c.node /\ a.rule = c.rule => a = c

Gone(n, rule) == rule \in Raised(n) /\ \A a \in alerts' : a.node = n => a.rule # rule

\* An alert is not closed, and silence not alleged, on the strength of a report that could not
\* come: silence ends only with a later report, a credential's trouble only with a fresh look
\* at it (or when the node's last report was past keeping), and a node is called silent only
\* after somebody listened that long.
AlertsNeedWord ==
  [][\A n \in AlNodes :
       /\ Gone(n, "no_heartbeat") => alBeats'[n].latest.at = alNow
       /\ "no_heartbeat" \notin Raised(n) /\ (\E a \in alerts' : a.node = n /\ a.rule = "no_heartbeat")
            => alNow - alListening > AlMaxAge
       /\ (/\ Raised(n) \cap CredentialRules # {} /\ alSlot[n].state = "active"
           /\ alBeats'[n].latest # Never
           /\ \A a \in alerts' : a.node = n => a.rule \notin CredentialRules)
            => fresh_observation(alBeats'[n].latest)]_alVars
=============================================================================
