# ccfleet in TLA+

ccfleet lends out *slots*: Linux accounts on machines a small team owns, each
signed in to one Claude Code account.  A server (`ccfleetd`) keeps the record;
a root agent (`ccfleet_agent`) on every machine reports once a minute and
carries out what the reply asks; people sign in, buy months with prepaid
credit, reach their slot over SSH or an HTTP gateway, and may try a shared
Devin worker within a daily allowance.

These modules say what must not go wrong in that system, check it on small
instances with TLC, and prove the most important parts for all instances with
TLAPS.  They follow the code: `PROJECT.json` maps each definition to the lines
it models, and definitions keep the names of the functions they stand for.

## The system

Everything the server knows is in one SQLite database.  `Store._write_txn`
takes the store's lock and `BEGIN IMMEDIATE`, and rolls back on an exception,
so **one store method is one atomic step**; what is not atomic is whatever
happens between two of them, on a machine, at Stripe, on a worker or in a
browser.  The Devin trial has a database of its own with the same discipline.

| component | its state | operations | hard because | module |
|---|---|---|---|---|
| Slot lifecycle: `slots.py`, `store.py`, `desired.py`, `machine.py`, `slot-add.sh`, `slot-remove.sh` | slot rows, allowances; the Linux user, its files; the agent's notes | declare, claim, release, expire, report, provision, wipe | a report, a reply and a script run are separate in time; posts are repeated, lost, late; the agent is killed; a wipe half works | `SlotLifecycle`, `SlotCustody`, `SlotLifecycleProofs` |
| Prepaid credit: `stripe_billing.py`, `wallet_topups.py`, `wallet_routes.py`, `store.py` | append-only ledger, top-up orders, bound sessions, receipts, holds, purchases | top up, pay, review, buy, renew, adjust, return | two parties, retries with an idempotency key that expires, reordered webhooks, stale forms | `Wallet`, `PrepaidCredit`, `WalletProofs` |
| Daily Devin trial: `devin_trial.py`, `trial_runtime.py`, `trial_worker_transport.py`, `devin_trial_worker.py`, `trial_access.py` | the ledger's day rows and leases; a thread per request; the worker, its native agent, its copied credential; keys and a rate bucket | admit, start, send, finish, close, sweep, cancel, pause, revoke; make, use, replace a key | a lock, two transactions and a remote worker; unknown outcomes; clock set back; midnight; restart | `DevinTrial`, `DevinTrialProofs`, `TrialAccess` |
| Monthly subscriptions: `slot_subscriptions.py`, `subscription_billing.py`, `stripe_subscriptions.py` | orders reserved / checkout_open / unknown / active / closed, holds, cancellation attempts | reserve, check out, bind, invoice, hold, cancel, reconcile, retire | crash between the mark and the provider's answer; webhooks in any order; the paid-for slot may be undeliverable | `SlotSubscriptions`, `SlotSubscriptionsProofs` |
| Sign-ins relayed through the server: `store.py`, `desired.py`, `machine.py`, `agent.py` | one login row a slot; the machine's and the slot's notes; Claude Code in a pane | request, switch, submit, progress, expire, clear | progress for a row that was replaced; switching an account in use | `SlotLogin` |
| Gateway keys and requests: `gateway.py`, `gateway_transport.py`, `store.py` | keys with a generation and a snapshot of each slot's claim; bindings; the request under way | create, edit, revoke, resolve, forward, retry, stream | a key or a slot changes hands while an answer streams | `Gateway` |
| CLI pairing and devices: `store.py`, `api.py`, `cli_access.py`, `machine.py` | one-use codes, device keys, the machine's key file, streams | pair, register, resolve, relay, withdraw | the slot is released between the two halves of a pairing, or under a stream | `CliAccess` |
| Claude Code and the credential of a slot: `agent.py`, `store.py`, `claude_versions.py` | channels, requests, installed build; the credential's stamps, marks of checks and rejections | ask, hold, install, report; check, renew, mark | results repeated or of a replaced request; the holder's own Claude writes the same file | `Updates`, `Renewal` |
| Background jobs: `local_jobs.py` | a record, a lock and a process group for each job | start, stop, archive, list | a runner dies between the states it writes | `LocalJobs` |
| Live folders: `live_access.py`, `live_client.py`, `live_files.py`, `laptop/ccfleet` | a connector on the computer, a daemon and a mount on the slot, the link; open files | dial, attach, ask, answer, stop, open a session; read, write, rename | either end dies anywhere; an answer is lost; others change the same files | `LiveWorkspace`, `LiveFiles` |
| Shared projects: `project_access.py`, `project_files.py`, `laptop/ccfleet` | the files on each computer and on the slot, what each last agreed on | push, pull | both sides edit; a write outlives the computer that sent it and may stop half way | `Projects` |
| Client releases: `client_release.py` | release directories, the launcher, a lock | install, update, roll back | kills and power cuts between a rename and its sync | `ClientRelease` |
| Model requests: `inference_client.py`, `local_relay.py` | local connections, a process and a relay for each | admit, forward, copy, end, close | hang-ups, broken links, an account that changes; what may be retried | `Inference` |
| The connection they share: `inference_client.py` | launcher, supervisor, SSH master, two pipes, a private directory | start, use, close | each may die anywhere; process numbers are used again | `Transport` |
| What is kept of them: `relay_metrics.py` | one small file of daily counts; what was read of one answer | record, report; feed, finish | relays get the lock in any order; answers are cut off, garbled, or fall back to another model | `RelayMetrics` |
| Native Devin agent on a slot: `devin_relay.py`, `devin_native.py`, `devin_acp.py`, `devin_mcp.py` | a worker, its reservation, the agent's process group, a shim of tools | reserve, start, prompt, watch, close, answer | a call published as the turn ends; the grant withdrawn meanwhile; a worker killed | `NativeStep` |
| Monitor: `monitor.py`, `rules.py`, `status.py`, `outage.py`, `mail.py` | status minutes, outages, mail owed, alerts | check, count, open, end, tell, prune | restarts; a silence that may be the server's own; mail sent and not noted | `Outages`, `Alerts` |
| Browser sessions and Google sign-in: `sessions.py`, `oauth.py`, `api.py`, `store.py` | flows, cookies, accounts, sessions | begin, call back, resolve, expire | replayed and crossed callbacks, several tabs | `Sessions` |
| Names of machines and slots: `store.py`, `names.py`, `desired.py`, `api.py` | ids, pool names, holders' names; rows and receipts filed under ids | register, rename, remove a machine or a slot; claim, name, free; hold somebody's own machine | an id is used again; a name must differ from every name anything may have next; rows outlive what they are of | `Naming` |
| The name a machine takes: `machine.py` | the kernel's name, `/etc/hosts`, what cloud-init may do | take the name, tidy, be restarted | a run is killed between two of them; `hostnamectl` cut off | `Hostname` |
| Pages, consoles, installers, deployment | none of their own | rendering, one-shot scripts | no interleaving to speak of | not modelled |
| Prices, offers, plans, recorded payments | rows an operator edits | set, clear, record | simple records; what depends on them is in `Wallet` (`set_node_offer`) | not modelled |

What flows between them: the agent **posts** a report and **gets** the state
its slot should be in (pull only: the server never calls a machine); a browser
**submits** forms; Stripe **calls** the webhook and **answers** API calls; a
trial thread **connects** to the worker over SSH; a holder's computer **opens**
SSH streams to its slot, through the server or beside it, for terminals, jobs,
files and model requests.  Slots are touched by many components: the lifecycle
owns the row, money claims and renews it, gateway and CLI recognise it by its
generation and its claim.  Each module takes of a slot what its own code reads
of it, and lets the rest change at any moment.

What must be right:

- *slots*: nobody is handed somebody else's files; a slot is ready only for the
  claim it was built for; nobody exceeds their allowance; a release ends; no two
  machines answer to one name, and what is filed under an id stays its holder's;
- *credit*: a payment is credited once; a page submitted again does not debit
  again; paid months of a claim never overlap; a payment under review spends
  nothing; no balance below zero;
- *trial*: one turn at a time on the one worker, whatever broke; no turn that
  went out is forgotten or forgiven; the allowance is kept; the trial never
  hangs on a lease nobody ends;
- *subscriptions*: one live order a slot, no order forgotten at the provider,
  no service without paid time, no slot retired while it is paid for;
- *sign-ins, keys, devices, sessions*: nothing issued for one holder works for
  another, and nothing outlives its holder's leave;
- *updates, renewal, jobs*: an answer is of the request it names, an outcome is
  noted against the file it is about, "ended" means that no process is left;
- *a holder's files*: no content is lost that is in no backup, what is served is
  inside the folder, a write is carried out once;
- *model requests*: an answer that looks whole is whole, only what cannot have
  been taken up may be retried, no process and no connection stays behind;
- *monitor*: what is told of a machine happened to it.

`PROJECT.json` lists the places where these can break, each at its line, under
`hazards`.

## Modules

### SlotLifecycle

One slot per machine (`slots.MAX_SLOTS_PER_MACHINE` is 1), so a slot names its
machine.  Four groups of variables: the store's row (`state`, `held_by`,
`claimed_at`, `present`, `generation`, and `quota`); the machine (`user`, whose
`files` are in its home, `login`, and `built`, the claim the user was made
for); the agent's cycle (`pc`, the `payload` it posts, whether it was
`answered`, the `order` in the reply, the `notes` on disk and the `draft` not
yet saved); and `late`, the posts the agent gave up on that may still arrive.

| action | code |
|---|---|
| `add_slot`, `remove_slot`, `set_slot_quota`, `claim_slot`, `begin_release`, `expire_claims` | the store's methods of that name, one transaction each |
| `Deliver`, `DeliverLate` | `apply_slot_report` with `slots.next_state` and `_free_released` |
| `Reply` | `_slot_block` and what `api.py` reads after that transaction |
| `machine_payload`, `send_heartbeat_fails` | building the report; the retries of one body |
| `provision`, `wipe`, `wipe_later`, `nothing_to_wipe`, `leave_be` | the branches of `act_on_slots`, with the two scripts |
| `write_state`, `Crash` | saving the notes; the run killed at any point |
| `SignIn`, `SignOut`, `Work`, `OperatorRemoves` | what holders and operators do on the machine |

A `Crash` between the reply and the scripts stands also for `run_cycle`'s early
returns there.  Times are abstracted: a claim may expire at any moment, since
30 minutes may be longer or shorter than anything the machine does; a retry
delay (`wipe_later`) may or may not have passed.

Two constants switch faults on: `MaxLate`, how many abandoned posts may still
be applied, and `PartialWipe`, whether `slot-remove.sh` may fail after removing
the user and before removing the home.

`SlotCustody` is the promise with the machinery removed: a slot is handed over
empty, only its holder's files come into it, they are removed only as that
holder leaves, and the record forgets the holder only afterwards.
`SlotLifecycle!Custody` is the refinement mapping: `leaving` is the state
`releasing`, `tenants` are the files.

### Wallet

A browser holds the `forms` it was shown and the `links` to Stripe it was
given; it may submit any, at any time, any number of times.  The ledger is a
set of `entries`, whose balance is their sum, and `purchases` with a start and
an end.  Top-ups go through `create_wallet_topup`, `create_session`,
`bind_wallet_checkout` (or `retrieve_open_session`), `hand_out`: the stages of
`start_checkout` with the server's transactions and Stripe's calls between
them; `request_ends` is any of them failing, its answer lost, or a restart.
Stripe (external) remembers an idempotency key for `Retention` and repeats and
reorders its two payment events and its reviews.  Slots appear only as far as
money touches them: `claim_slot`, `slot_moves`, `_free_released`.

`PrepaidCredit` is the promise with pages, checkouts, Stripe and slots removed: a
balance in its range, moved by what is credited, spent and adjusted, each under an
identity that moves money once; credit that is doubted stops its account's spending
until the doubt is settled, which takes the credit.  `Wallet!Credit` is the refinement
mapping: `Balances` are the ledger summed, `Credited` the payments, `Spent` the orders,
`Adjusted` every other entry, the doubts are the review holds.

### DevinTrial

A turn is one request: its thread (`pc`), its row (`lease`), its day's counters
(`days`, `totals`), the holds of unmeasured replies (`unmeasured`), two locks
(`readiness`, the runtime's lock over preparing a worker; `book`, the thread
that has the ledger open), and its connection (`worker`), the `native` agents
alive and their credential copies (`artifacts`).  Each store call reads the
clock, refuses to let it go back (it keeps `last_now` and pauses) and sweeps
overdue leases: `Swept`, `Halted`, `Ticked`.  `model_started` is set before the
first byte is written, so *not sent* is certain and *sent* is not.

`Restart` loses the threads and locks and keeps the ledger; `worker_dies` lets
the native agent survive its worker; `revoke`, `pause`, `cancel` come in at any
time.  A worker killed between its cleanup and its answer looks to the ledger
like an answer lost on the way, so it has no action of its own.  The runtime
takes one step a lease, so the ledger's limit on steps of a lease is not
reached and not modelled.  `pause` and `cancel` have no caller in the server
(an operator uses them by hand): `Interventions` admits them.

`docs/devin-trial-foundation.html` states the design the module checks: one
worker, an overshoot of at most one turn, and stopping when in doubt.
`docs/devin.html` gives 40 and 60 seconds for a generation and its reservation
where the code has 120 and 160; the model has neither number, only that a
step's deadline comes before its lease's end.

### SlotSubscriptions

An order is a row (`status`, with its attached `session` and its `bound`
subscription), what is known of its contract (`terminal`, `required`), and what
was paid (`recorded`, `holds`, `claimed`); `slot` and `tenant` are the slots as
far as orders touch them.  Stripe is external: the Session (`sess`), the
subscription (`sub`, whether it `ends` with its period), how many `months` were
paid, whether the last is `over`, and whether the invoice of the next is `unpaid`.
The end of a month brings a subscription that goes on the next invoice, which is
paid at once, later or never (`period_ends`, `stripe_renews`).  The monitor knows a
subscription's latest invoice alone (`latest_invoice`), paid or not, and an unpaid
one is refused.

The handlers are threads.  A `job` is at a step, for an order, for a purpose,
with what it has read of Stripe; each step is one write transaction or one API
call, so that anything may come between a read of Stripe and the write that
uses it.

| thread | steps | code |
|---|---|---|
| browser: `reserve`, `resume_checkout`, `cancel_checkout` | mark, create, attach; expire, close; fetch, bind, ask | `start_checkout`, `_recover_unknown_session`, `resume_checkout`, `cancel_checkout` |
| notification: `invoice_paid`, `subscription_updated`, `session_expired`, `payment_review` | fetch, bind, record; update; expire, close; hold | `handle_webhook`, `_bind`, `_paid` |
| browser: `cancel`; monitor: `retry_cancel` | ask, read, require, post, again, confirm | `cancel`, `_cancel_bound` |
| monitor: `reconcile_pending` | look, fetch, bind, update, record; expire, close; mark, create, attach | `reconcile_pending` |

`Fail` ends any of them anywhere: an error of the API, a refused write, a
restart.  Notifications need no queue: any that could have been sent may arrive
at any time, any number of times, or never.

Abstractions.  `required` is the order's cancel_required together with its open
cancel intents, which are always set together and completed together.  Attempts
are numbered afresh each time, so that the number itself is not kept.  Whether a
machine is up, enabled and heard from is left open: `granted` and
`review_required` are both possible when a first payment finds its slot free.
`age` counts what the code compares the clock with: too late to create a
Session, the Session's expiry, the end of the window for a retry.  The branch
of the webhook that attaches an unknown Session is not reached: a link goes out
only once its Session is attached, and nobody can pay without one.  Making the
Stripe customer is folded into the checkout; the link to the portal, the
spending gate and `slot_subscription_access` (which only reads) are left out.

Two things the module shows but does not forbid, since the code means them or
says nothing: a create whose fate is never learnt keeps its slot reserved until
an operator looks (`docs/runbooks.html`); and an order whose first claim failed
has no claim, so `retire_released` never closes it.

### SlotLogin

A sign-in row at the server, what the machine handed to the slot, the slot
agent's note, the tmux pane with Claude Code in it, and the slot's home (the
credential's account and the profile's).  The agents work in beats: each step
of `LoginNext` of the slot's agent makes a report, and one of `Heartbeat`,
`HeartbeatReplyLost`, `HeartbeatLost` delivers it, loses its reply, or loses
it.

| action | code |
|---|---|
| `RequestSlotLogin`, `SubmitSlotLoginCode`, `ReadSlotSecret`, `ClearSlotLogin` | the store's methods behind the holder's page |
| `Heartbeat` | `record_login_progress`, then `desired.py`'s block and the machine's hand-over to the slot |
| `StartAttempt`, `StopAttempt`, `ReadUrl`, `TypeCode`, `ClaudeAnswers`, `SayToken`, `CodeRefused` | the slot agent driving the pane |
| `FirstSignIn`, `AdoptSignIn`, `MoveCutShort` | keeping what landed in the scratch directory: credential, profile, binding, in that order |
| `ReleaseSlot`, `WipedAndClaimed`, `WeekPasses` | the slot changes hands; the week between two changes ends |

A code that was typed is right or wrong, and a URL is not told from another of
the same attempt.

### CliAccess

Pairing codes and devices at the server, streams of its broker, and the
machine: the user, the key file outside the home, and the run being carried
out (`cliOrder`, `cliStep`).  Whether the slot's time is paid may change between
any two steps: pairing, registering and resolving refuse an unpaid slot, which a
step not taken stands for.  `resolve_cli_device` and `Dialled` are the broker letting a stream in and
connecting it, `StreamCut` its watcher, who asks every second.  `ConvergeFirst`,
`cli_act_on_slots`, `ConvergeAgainAndSave` are the machine's run, which writes
the key file before and after it acts on the slot, and `RunCut` kills it.

### Gateway

Slots with their claim and generation, one key, the bindings, and one request
(`gwReq`) with its snapshots.  `authenticate` and `_targets` read the key and
the slots; `TrySlot`, `admitted_before_send`, `_send_to_slot` go to one of them,
with a last look before the model is asked; `Refused`, `StartFails`,
`StreamBreaks`, `GwAnother` decide whether another is tried; `ChunkChecked` and
`ChunkWritten` are apart, since the chunk is written after the look.
`create_gateway_key`, `update_gateway_key`, `revoke_gateway_key`,
`_rename_gateway_slots`, `bind_gateway_provider` and the slots' own moves come
in between.

### Outages and Alerts

`Outages` is the serving loop's minute: `set_listening_since` on a start,
`site_back`, `count_status`, `owe_outage_start` / `begin_outage` /
`end_outage`, `owed_outage_emails` and one send at a time, each its own
transaction, with `Stop` between any two.  A send may be taken by the mail
service and not marked (`SentButNotMarked`); the service refuses a second one
under the same key.

`Alerts` is `check_node` after a report and once a minute, over what the last
reports say (`AlSlotShapes`, `AlOwnShapes`: one report of each kind of news the
rules tell apart), with `prune_heartbeats`, restarts, and slots that move.  What
each metric compares is left out: a metric is fine or not.  The module shows
one thing it does not forbid: a silent node whose last report was pruned has its
alerts closed, though nothing was heard.

### Sessions and TrialAccess

`Sessions`: one person at each browser, several tabs.  `_sign_in_start` keeps a
flow and sets the flow cookie; `Consents` is Google sending the browser back;
`_sign_in_callback` takes the flow (once) and `sign_in_session` finds or makes
the account after Google's answer, in a transaction of its own.  Callbacks may
be opened in another browser, addresses change hands.

`TrialAccess`: `create`, `revoke_keys`, `take_request`, over a clock that may be
set back.  A tick refills one part of a token.

### Naming and Hostname

`Naming`: the machines there are (`nmNodes`), the slot each id has (`nmSlots`),
what is filed under slots' ids (`nmRows`: sign-in, terminals, update, provider), a
machine's own sign-in (`nmOwn`) and the ids paid orders keep (`nmReceipts`).  Each
action is the store's method of that name; `Moved`, `Refiled` and `Carries` are
what `rename_slot` and `rename_node` do with the tables in `SLOT_ID_COLUMNS` and
`NODE_ID_COLUMNS`.  Ghosts number the slots declared and the tenancies, so that an
id used again is told from the same one.  A name is a member of a set, of which
some have the form `pool-<n>`; a neutral name and one after a handle are any that
is not taken.  What a claim needs besides a free slot, and what a wipe takes, are
`Wallet`, `SlotSubscriptions` and `SlotLifecycle`.

`Hostname`: one machine takes the name the reply gave it.  `BeginNaming` writes
`/etc/hosts` for the time between two names, `SetHostname` or
`set_hostname_fails` is `hostnamectl`, `PutBack` and `Tidy` what follows; the run
is `Killed` and the machine `Restarts` anywhere.

### Updates and Renewal

`Updates`: the channels and the request at the server, the slot's notes, and a
run of its agent: `Post`, `RunNothing` or `RunInstaller`, `write_state`.  A
shared machine tells its slot what the last reply asked; an owner's node acts in
the same run (`kind`).  The hour of back-off and the day a channel stays
resolved may have passed or not.

`Renewal`: one run of the slot's agent under its lock, step by step from
`SlotFacts` through `before_start` (the durable mark), `Launch`, `QuotaScreen`,
`Settle` to the compatibility check (`before_probe`, `OpenUsage`, `ReadUsage`,
`Verdict`), with the holder's own Claude writing the same files beside it and
`RnKilled` anywhere.  `WriterBetween` lets the holder write between two looks at
the file that follow directly on one another.

### LocalJobs

For each job its record (`place`, `jobState`, `confirmed`), its supervisor, its
CLI, the guardian in the CLI's process group, and other processes there.
`Supervise` is `authorize`, `AskAgain`, `End`, `KillGroup`, `SaveEnd`; callers
`start`, `stop`, `archive` through the records; `SupervisorKilled`, `Reboot`,
failed kills and failed saves are the faults.  A record torn by a kill in the
middle of `start` (`start_killed`) makes later `start` and `list` fail until it
is removed by hand, as in the code.

### LiveWorkspace and LiveFiles

`LiveWorkspace`: the computer's connector, its `link` processes on the slot
(`dials`), the slot's daemon and mount, the one open request and its reply, a
cleanup under way (`stopping`), and the pane of the live session.  The daemon
numbers requests; the connector remembers the last `LvWindow` replies and
answers a repeated number from them.  Either end dies anywhere; a daemon of an
earlier instance gives way.

| action | code |
|---|---|
| `start_local_connector`, `dial`, `link_breaks`, `connector_ends`, `answer` | `cmd_live` and `live_client.run`, `Requests.answer` |
| `ensure_daemon`, `attach`, `read_packet`, `send`, `receive`, `mounts`, `daemon_dies` | the link on the slot and its `Supervisor` |
| `stop_begins`, `cleanup_unmounts`, `cleanup_ends_sessions`, `cleanup_ends` | a stop and `cleanup`, in its order |
| `open_live_session`, `new_live_session`, `run_claude` | the terminal in the folder |

A stop may come at any time from each of three (`Stoppers`): the computer once its
connector has ended (`ccfleet live stop`), the daemon's own failure, and the agent,
which for a change of account runs `_stop-all` whatever the connectors do.  The
computer's and the agent's are explicit and clear the mark; the agent's may do so
under a connector that goes on, which is finding 4.  `unmarked` and `renumbered`
keep the history of it: the connectors that lost their mark so, and the requests
numbered by a daemon started for one of them afterwards.

`LiveFiles`: `_open`, `_handle` (a read, write or stat through a handle),
`close`, `unlink`, `_rename`, one packet at a time, and between them
`OthersMove`, `OthersLink`, `OthersSave` on the same places.  A place is a
directory and a name; a path stands for what it leads to.

### Projects

What is in the directory at each place, what each computer last agreed on
(`base`), a command on each, writes that are on their way (`sent`), the one that
has the project's lock (`writing`), and the apply under way at each place.
`push`, `handle_write`, `preflight`, `look_again`, `apply_one`, `write_done`; `pull`,
`read_merge`, `pull_done`; either may stop at any step, and a write outlives the
computer that sent it.  `EditByHand` comes in anywhere, also between the last look
at a file (`look_again`) and its replacement (`apply_one`), while the new content is
decoded, written beside it and synced.  A new file is linked into place and a removal
needs something to remove (`MayReplace`); any other replacement overwrites what it
finds, and `raced` records what was written in that window.  Contents are numbers of
edits, 0 for a missing file.

### NativeStep

Workers (`nsRun`), the reservations they leave for good, the lock one holds, and
the root's grant.  A worker goes `load_policy`, `request_frame`, `reserve`,
`_start`, `_wait_ready`, `_authorized`, `prompt`, `Watch` / `WaitForTheTurn`,
`controller_close`, `settle`, `respond`; the agent and its shim do as they like
(`AgentCalls`, `tools_call`, `_lifecycle`, `TurnEnds`, `AgentDies`), the client
hangs up, the grant is withdrawn or goes to the next holder, workers are killed.
`NsAtTheEdge` lets a turn end in the instant its deadline passes.

### Inference, Transport and RelayMetrics

`Inference`: each connection is a record that holds both its ends: the bridge's
handler on the computer (`process_request` … `_finish`), its SSH process
(`_kill`), and the relay on the slot (`bound_account`, `connect_upstream`,
`LastCheck`, `PostOnce`, `Reply`, `write_chunk`).  The frames a relay writes and
the parts copied are counted, so that an answer cut off between any two shows.

`Transport`: the launcher, the supervisor, the master, the status and liveness
pipes, the private directory and its socket, and whose group the supervisor's
process number names: `ReapedByInit` and `GivenToAStranger` are what makes a
late kill dangerous.

`RelayMetrics` has two parts that share no state.  `CountNext`: relays finish,
wait for the lock (or give up), look whether their account is still bound, and
write the day's counts; the report adds them up (`reported`).  `SampleNext`:
what upstream sends of one answer and what `UsageCollector` makes of it
(`_merge`, `_iterations`, `_mark_fallback`, `finish`).

### ClientRelease

The launcher and every launcher a power cut may leave (`crOnDisk`), the release
directories that are there and those that survive, a lock, and a command for
each runner: `install` or `begin_rollback`, `resolve_channel`, `_installation`,
`verify_bundle`, `_stage`, `_activate`, `sync_launcher` and what restores the
old launcher when that fails.  Kills, disk errors and `PowerCut` come anywhere.
`CrOneJournal` says that a rename which survives brings the older ones with it,
as one journal does.

## What is checked

| run | question | bounds |
|---|---|---|
| `ends` | does what must end, end: a slot's release, a stream whose device is gone, a job whose pairing is?  Meanwhile, with killed runs, lost answers, repeated posts and failed scripts: is a slot handed over clean, is a free one empty, does active mean signed in, is `SlotCustody` kept? | 1 slot, 2 people and a stranger's user, 2 claims, allowance at most 1; 1 code; 1 job, 2 faults |
| `slots_wide` | is a ready slot built for this claim, does a generation tell holders apart, do claims stay in the allowance? | two fleets: 1 slot, 2 people, a late post and halfway wipes; 2 slots, 1 person |
| `trial` | one turn in flight, a ready worker alone, every turn accounted for, balanced sums, allowance kept; does every lease end, or the trial stop? | 2 turns, 2 accounts, a day of 3 ticks, clock to 4, one step back, interventions |
| `subs` | is no payable or renewing order forgotten, is its slot nobody else's, does a paid month keep it? | 1 order, 1 other holder, browser and monitor, 2 months |
| `subs_ends` | does a checkout end, a held contract stop being renewed, a finished one give its slot back? | 1 order, 1 month and the invoice of the next, unpaid |
| `server` | do the server's own parts keep what they promise, each by itself: gateway, outages, alerts, sessions, trial keys, names, credit? | see below |
| `agents` | the same of what a slot's agents do: sign-ins, terminals, updates, renewal, the machine's name, jobs, model requests, their connection, their counts | see below |
| `computer` | the same of what a holder's computer has and opens: projects, releases, mounted folder, its files; and of the native agent | see below |
| `slots_partialwipe`, `slots_latereport`, `subs_lostintent`, `live_replay` | findings 1 to 4, below | one fault each |

**Several components in a run.**  Components that share no state gain nothing
from being interleaved: their product would only multiply states.  In `ends`,
`server`, `agents` and `computer` a variable `focus`, chosen at the start, says
which component moves; the others stay where they begin.  The states reached are
those of each component alone, side by side, and a property that speaks of
several is the conjunction of theirs.  Where two bounds together are too many
and each alone shows something, the same module appears twice: credit for months
and for top-ups (`Topups`), model requests two at a time and one alone with a longer
answer while the account changes (`AloneCall`), a mounted folder of two connectors in
turn and of one with sessions and more requests, two workers for one native request or
two, and one worker while its grant changes (`AloneRequest`).  What these runs check:

| property | says |
|---|---|
| `GatewaySound` | after a key was edited, revoked or its slot changed hands at most the chunk already let through is written; a request the model may have begun on is sent nowhere else; no provider account serves two held slots |
| `OutagesSound` | nobody hears that a machine is back who did not hear it was down; a mail is owed once; every minute is counted once, over restarts and gaps |
| `NewsSound` | an outage ends when the machine was heard from and is news only after somebody listened that long (`NewsIsTrue`); an alert closes on fresh word of what it is about (`AlertsNeedWord`) |
| `AccessSound` | a cookie signs in who consented at Google to a sign-in this browser began (`SessionsSound`); over any stretch an account's requests stay within bucket and refill, though keys change and the clock is set back (`RateKept`); no two machines answer to one name, a row is of whoever holds the slot, a receipt's ids keep naming what was paid for (`NamingSound`) |
| `TopupsSound`, `MonthsSound` | each payment is credited once and an order has one payable link; a form debits once, paid months do not overlap, the ledger adds up |
| `ImplementsCredit` | of top-ups and of months, every step is one of `PrepaidCredit`: a balance moves only with the entry or order that says so; an account under review spends nothing, also when the review came before its credit; a review is closed only after its credit came to that account, and a repeated notice does not open it again |
| `LoginSound` | the page shows the outcome of the very sign-in it is about; a slot's account moves only by a change its holder asked for, and its three records agree |
| `CliSound` | codes, devices and the key file are those of the claim the slot is in |
| `UpkeepSound` | an update shown as done was done for that request, and ran once; a rejection is noted against the file that was rejected, no killed run is retried hot, a build shown as compatible drew its own screen; a machine resolves its own name, and a name seen through leaves nobody else's behind (`HostnameSound`) |
| `JobsSound` | a job recorded as cleaned up has no process left; no more run than the limit |
| `RequestsSound` | an answer that looks whole is whole, a retryable one was not taken up, a closed bridge has no process (`InferenceSound`); no foreign process is killed and no master is left (`TransportSound`); a request is counted once, and usage is of the answer returned (`MetricsSound`) |
| `CopiesSound` | no content is lost that is in no backup, but for what was written by hand after the last look at the file being replaced; only what was agreed on is replaced, what was pushed is seen again (`ProjectsSound`); the launcher runs a whole release, an installation that was reported stays, a failure changed nothing (`ReleaseSound`) |
| `MountSound` | a write is carried out once, the mount is told the truth of each, unless it was numbered anew for a connector whose mark an explicit stop cleared, after a stop nothing is left (`LiveSound`); nothing outside the folder, nor control data, is touched, and an open file survives the client's renames (`LiveFilesSound`) |
| `RequestSound` | a request asks the model once; it is answered after everything it started is dead and its grant was looked at again; no published call is overlooked |
| `NothingOutlivesItsHolder` | a stream ends once its device or claim is gone, a job once its device is unpaired |

**Why the bounds are enough.**  Slots share nothing but the allowance, so one
slot shows everything but `ClaimsWithinQuota`, which has two.  Two people and
two claims give a former holder, a next one, and news of the first claim during
the second.  One late post suffices to contradict every report-driven move.  For
the trial, two turns are one that left something behind and one that meets it;
the clock passes midnight, a step's deadline and a lease's end, and steps back.
Orders share nothing but an account's one pending checkout and a slot's one open
order, both guards of `reserve`; what is hard is two threads on one order, the
web's, which may be anything that comes in, and the monitor's, and two months
are a first payment, which claims, and a renewal, which must find the claim
standing.  Nearly all of the safety properties are proved for any number (below); the bounds
matter for what is only checked, and for how much a check can find before a proof
is tried:

- *credit*: both the retry inside Stripe's window and the key forgotten outside
  it happen within the clock; two forms give one page twice and two pages for
  one thing;
- *gateway*: two slots, so that a request has another to go to, three changes of
  generation, and an answer of two chunks, the first of which may be written
  after the key changed;
- *outages, alerts*: a clock that passes each threshold with a restart in
  between, and so many reports that one is stale and one is pruned;
- *sessions*: two people, two addresses that change hands, two flows begun in one
  browser or two; *trial keys*: a bucket filled, emptied and filled again;
- *names*: two machines and three names, two of them of the pool's form, so that an
  id can be what another had, three slots declared or tenancies begun, so that one
  follows another under one id, and a row at a time; *a machine's name*: three
  names and three runs, the last of which meets what two left;
- *sign-ins, terminals, updates, renewal*: two attempts (or codes, requests,
  files), the second replacing the first, over two claims, and one fault; more
  faults repeat what the first does, since each leaves one report or one set of
  notes behind;
- *jobs, connections, relays, computers, handles, commands*: two, since one lock
  or one place is what they contend for; *workers*: two, for one request sent
  again or for two requests, beside each other or one after the other; the
  changes of account and grant are seen by each connection and worker by itself,
  so those that are alone see them;
- *releases*: a first and two builds of a second, so that one build could replace
  another of the same version; *files*: two names, one subdirectory, three inodes;
  *mounted folder*: two instances and two requests without a session, one instance
  and three requests with sessions, and a window of one, which the third request is
  outside of.

In `trial` accounts are interchangeable, and where a lease must end TLC's symmetry
cannot be used; so the first turn is taken to be `ann`'s (`FirstIsAnns`) and the
second is hers or another's.

Symmetry is used only where identities are merely compared.  `agents` and
`computer` give several of their sets the same two values, so that the group is
one exchange.  Deadlock is checked in `slots_wide`, where a slot can always
move, and switched off elsewhere: bounded clocks, forms, requests and faults run
out, a closed order has nothing left to do, and a run of several components stops
when the one that moves has.

**Fairness** is used by `ends`, `trial` and `subs_ends` alone:

- the agent's timer starts a run every minute: `machine_payload` is weakly
  fair.  An agent that keeps running gets through a whole cycle in the end, so
  the steps of a cycle are strongly fair: a crash or a lost post may interrupt
  each of them any number of times, not for ever.  A retried wipe succeeds in
  the end because `slot-remove.sh` first kills whatever holds the account.
- a stream has two threads: one connects within ten seconds, one asks every
  second whether the device may be here.  Both are weakly fair (`CliFair`).
- a job's supervisor goes on with its loop and its end, and so does the guardian
  when the supervisor died (`JobFairness`); asking whether the device may be here
  comes to an answer, since a query that does not is given up on.  That an
  ordered end is taken is strongly fair: a failed kill may put it off, and the
  number of failures is bounded.
- in `trial` people go on looking at their allowance (`Look`), the clock
  goes on, and a thread that took the ledger goes on with `start_step` and
  `close`.  Nothing is assumed of the worker, the network or the threads that
  wait for them.
- in `subs_ends` the monitor's pass runs every minute and its cursors get to
  every order, so both its starts are strongly fair, whatever a pass met before;
  it goes on with what it began.  That time passes is one condition on three
  steps, each of which can be taken only so often: the clock goes on (`Tick`),
  Stripe expires what is due (`stripe_expires`), and the monitor's calls do not
  fail for ever (`outage_ends`; before it they may fail at any step).  A month need
  not end, nor a renewal be paid.  Nothing makes a customer act, a notification
  arrive, or a slot be released or wiped.

`EndsFairness` is the modules' own fairness, each asked of the component that
moves.

Every property was seen to fail when the code is changed the way a plausible
mistake would change it; the changed definitions stand in the modules, each
marked *Mutant* before the definition it replaces.

## What the code does otherwise than it says

1. **A halfway wipe hands files on** (`slots_partialwipe`).  `slot-remove.sh`
   removes the user and then the home.  If the home stays it fails, and says the
   slot must not be reused.  The agent's next run finds no user, drops the
   failure and reports the user absent; the server frees the slot on that
   alone, and the next holder's `slot-add.sh` continues the existing home.
2. **An old report frees a slot that is there** (`slots_latereport`).  A report
   carries the time it was made at, which the server files and compares with
   nothing, and no number.  One made before the user existed, given up on
   and applied while the slot is releasing, frees it.  The next report says the
   user is present, so it is not handed out, but nobody is left to release it.

3. **A confirmation completes a newer request to cancel** (`subs_lostintent`).
   The monitor has read that a subscription ends with its period.  Before it
   writes that down, the customer takes the cancellation back in Stripe's
   portal and then asks for it again on the site, where the intent is saved but
   the call of Stripe fails.  The monitor's confirmation then completes every
   open intent and clears the retry marker.  Nothing is tried again, and the
   subscription renews.  If an operator's or a bank's review holds the order the
   hold keeps it in the retry list; without one it does not.
4. **A mounted folder is answered from memory** (`live_replay`).  For a change of
   account the agent stops every live folder with `_stop-all`, an explicit stop that
   clears the mark of the connector, which knows nothing of it and dials again.  The
   daemon started for it numbers its requests from one, and the connector takes the
   first of them for repetitions: where the bytes are the same as those it remembers
   under that number it answers what it answered then, and carries nothing out (where
   they differ it gives up, and its next start is a new instance).  `MountSound`
   checks that this is the only way to an untruthful answer (`TruthfulWhileMarked`).

The first contradicts a comment of the script and a text of `rules.py`, the
second the first lines of `slots.py`, the third the docstring of
`confirm_slot_subscription_cancellation` and a comment of `cancel`, the fourth the
comment in `Supervisor.shutdown` (`live_access.py:387-389`).  The theorems about custody assume
the first two away, under a name (`Orderly`).

Other places where the models show something the code's words or a reader would
not expect; each has a constant or a property beside the runs that brings it out:

- *SlotLogin*, `FailedStaysFailed`: a row shown as failed can still be moved by
  a late report of its own attempt, though a comment of the store says the
  machine is never asked about it again.
- *CliAccess*, `RefusedTryUsesUpTheCode`: a refused use of a pairing code raises
  inside the transaction that deleted the code, so the code is back, though the
  comment beside the deletion says it is used up.
- *Renewal*, `KilledCheckWaits`: a check that was killed may be started again at
  the next beat; and with `WriterBetween`, a rejection can be noted against a file
  the holder's Claude wrote between two looks that follow on one another.
- *SlotSubscriptions*, `CheckoutEnds`: a paid month whose notification was lost is
  not recorded once the subscription's latest invoice is a renewal's that is not
  paid.  The order then stays neither recorded nor closed as long as that invoice
  does.  The docstring of `reconcile_pending` disclaims it ("does not claim
  historical invoice backfill"), and the property excludes it by `unpaid`.
- *NativeStep*, `NsAtTheEdge`: if a turn ends in the instant its deadline passes,
  a call published just before is answered by the text.
- *ClientRelease*, with `CrOneJournal` false: a release directory that was renamed
  and not synced by a killed command is used again without a sync, and a power cut
  then takes it from under a launcher that stays.  The answer "already runs" does
  not sync either, and a restore that fails twice leaves the new launcher.
- *Projects*: what is written to a file after the last look at it and before its
  replacement is overwritten and in no backup (`raced`).  The module's docstring asks
  to avoid concurrent edits, and `apply_snapshot`'s promises no transaction across one.
  After a push whose answer was lost, its own next push may be refused as a conflict
  with it, until a pull.
- *RelayMetrics*: a request that ended before midnight and gets the lock after one
  of the new day drops that day's counts; `EachCountedOnce` excludes those days.
- *LocalJobs*: a record torn by a kill makes `start` and `list` fail until it is
  removed by hand.
- *Alerts*: a silent node whose last report was pruned has its alerts closed
  without word of it.
- *Naming*: the sign-in row of a removed machine stays until it expires.  A machine
  renamed to its id drops it and one held anew clears it; one registered under it
  does not, so until somebody holds that machine the console may show it.
- *Hostname*, `hnCut`: a `hostnamectl` that runs out of its time after it took the
  name counts as failed, and `/etc/hosts` goes back to the old name alone: until
  the next run the machine does not resolve its own, though `converge_name`'s
  docstring says it does at every moment.

## What is proved

For every value of the constants that satisfies the assumptions named beside them
(`ConstantsAssumption`, `TrialAssumption`, `SubscriptionsAssumption`,
`WalletAssumption` and their like in each module).  They are types, and what the
code's own constants satisfy: that a bound is a number, that the site is no
machine (`Site`), that an account makes so many keys a day as is a number
(`TaKeysADay`), that a relay has a number of its own, that the names in a folder are
finitely many, that the mark for *nobody* is no record (`NoLogin`, `NoCliHolder`).
Some theorems have a hypothesis besides, named with them below: `Orderly`,
`~WriterBetween`, `NsAtTheEdge = FALSE` or `CrOneJournal = TRUE`.
Each is what the runs have, and what happens without it is told above.

Of a composed run a theorem is stated of the run's own specification
(`ServerSpec`, `AgentsSpec`, `ComputerSpec`).  Its proof needs of the composition
only that a step is one of the component's or leaves it alone; so it is a proof of
each component.

**SlotLifecycleProofs.**  `TypeCorrect` carries along that a row with a holder
is in a held state and has a stamp (`RowsOK`).

- `HandedOverCleanAlways`, `FreeMeansWipedAlways`, `CustodyImplemented` assume
  `Orderly` (`MaxLate = 0`, no halfway wipe) and rest on `CustodyInv`.  Neither
  property is inductive: that a free slot is empty depends on the *report that
  freed it*, so the invariant has to say that the report under way is still
  true (`PostIsTrue`), since only the agent makes a user and it does so only
  with a claim in hand; that an agent about to build or wipe does so for the
  state the row still has, or has left in a harmless direction
  (`ActsOnItsClaim`, `WipesReleasing`); and that without a user there are no
  files (`HomeGoesWithUser`).  Refinement is then a step by step match.
- `ActiveMeansSignedInAlways`, under the same assumption, rests on `SignedInInv`:
  the report that made the slot active was of its present holder's sign-in, and
  nobody but that holder takes it away while the slot is theirs.
- `ReadyMeansBuiltAlways` needs neither assumption.  Its invariant `NewsInv`
  follows a claim's stamp everywhere it can be: the reply, the notes, the
  draft, the payload, the late posts.  Stamps are never reused, so news of a
  claim can only complete that claim.
- `GenerationTellsHoldersApartAlways` and `ClaimsWithinQuotaAlways` follow from
  the type and row invariants; the second counts a finite set of any size.

**DevinTrialProofs.**  `OneInFlightAlways`, `ReadyMeansAloneAlways` and
`EveryTurnAccountedAlways` rest on one inductive invariant `IInv`: which lock a
thread holds at which point, what row a thread at each point has, that the
worker's lock admits one connection and that a new connection cleared the
agents of earlier ones, and that a turn which was asked is accounted for.

`LedgerKeptAlways` (two ledgers that agree, an allowance passed by one report at
most) rests on `BooksInv` beside it.  That the day's row and the accounts' rows
agree is not inductive, since a row is changed by a difference and a sum is of
everything: so each field of each row is *said to be* what the turns and the holds
of that day add up to (`Summed`, `Totalled`), and each step is shown to change one
turn's part of it.  The allowance needs that while a turn is under way its day is
not passed (`Allowed`), as its report comes on top.  From this the counters never
go below nothing, which is what `TypeOKAlways` lacked.

**Sums** has what both ledgers need: the sum over a finite set does not depend on
the order it is taken in, and grows by one element's value.  FiniteSetsExt's sum
is read from a recursive function, which no induction theorem here can be applied
to; the way round is that of all subsets for which a claim fails there would be a
smallest (`SmallestSet`).

**SlotSubscriptionsProofs.**  `TypeCorrect`, `ContractNeverForgottenAlways`,
`ReservedSlotIsTheirsAlways` and `KeptWhilePaidAlways` hold for any number of
orders, slots, threads and months, and rest on one inductive invariant `IInv`.
None of the last three is inductive, because a write acts on what its thread read of
Stripe some steps ago: `JobOK` says what of that is still true, and it is only
what Stripe never takes back: an expired Session stays expired, a cancelled
subscription stays cancelled, and a month that was paid stays paid (`Forward`,
which every step is shown to satisfy, so that one thread's step never spoils
another's job: `JobsStayGood`).  `OrderOK` says the same of what the store has,
`SlotsOK` that a slot has one open order, and `PaidOK` that an order closed with
a claim is paid out.  Whether the subscription *ends* is in no part of it: the
portal takes that back, which is why the lost intent above is possible.

**WalletProofs.**  `TopupsSoundAlways` (a payment is credited once, an order has
one Session), `MonthsApartAlways` (a form moves money once, the months of a claim
follow each other) and `ReviewStopsSpendingAlways` hold for any number of
accounts, slots, forms and claims and any lifetime of Stripe's keys longer than
the retry window, which is the one fact of `WalletAssumption` they need about it.
`WalletInv` has four parts, each of its own variables so that most steps leave
three of them as they are.  That an order has one Session needs that a Session
was made no earlier than its order (`SessionsApart`): a request within the window
then finds it still remembered (`SessionIsRemembered`).  That a payment is
credited once needs that a receipt, and a closed review, always have their entry
(`EntriesApart`), and that an identity belongs to one form (`FormsApart`).  That
months do not overlap needs that a claim has a *last* month, as what a renewal
reads is a maximum (`MonthsApart`).  `MonthsSoundAlways` adds the balances: an
account's entries sum to what was checked when the last of them was written
(`Balanced`), and a purchase's entries to its price at most.

`CreditImplemented` is the refinement of `PrepaidCredit`.  The mapping is read off the
ledger, so what has to be shown of a step is that the entry it writes changes one
balance by its amount (`EntryMoves`), joins one of the sets of moves (`EntryIsOfAKind`)
and has an identity none of them has (`UnusedIsFresh`, which needs that an order has its
entry).  `Reviewed` adds what the invariants above lacked: an amount is never nothing, so
that a step which writes is not taken for one that does not; and a hold is of the order
and the account it names, so that the credit a review waits for is that account's
(`ResolutionSettles`).  `ReviewStopsSpendingAlways`, which no run checks of itself, is
the part of this that is about purchases, proved before it and on its own.

**MCServerProofs.**

- `AccessSoundAlways`.  *Sessions*: what a browser's cookie carries is a state it
  began itself, a callback under way took its flow and is alone with it, a code is
  exchanged once (`SesInv`).  *Trial keys*: what was asked for and what is left in
  the bucket is at most what was ever put in it, over any stretch of the clock
  (`BucketKept`), and a day's keys are counted on the day they were made.
  *Names*: that two machines do not answer to one name now is far from inductive:
  a wipe shows a slot by its pool name, a claim by a new one, and a slot taken away
  leaves its machine with its id.  `NmInv` therefore says that nothing a machine or
  slot *could* be called by is shared (`NothingShared`), that each machine has one
  slot at most, and for each state of a slot which rows may be left under its id
  (`RowsFit`): a claim inherits what is there, so there must be none.
- `GatewaySoundAlways`.  What a request knows is no newer than the store, and as
  long as the slot's generation is the one it knows the claim is too
  (`SnapshotKept`); what was written after a change was let through before it, and
  that happens once (`LateOnce`, `FramesKept`).
- `OutagesSoundAlways`.  A machine has one outage open, an email owed is of an
  outage told or ended before it (`EmailsOwed`), *back* is owed only where *down*
  was (`DownBeforeBack`), and what the minute read of a machine is still true when
  it judges by it (`SnapTrue`).
- `NewsSoundAlways` is an action property, from the same invariant and from
  `AlInv`: a machine is called silent only when it was silent so long that the
  server had listened for it.
- `ServerTypeCorrect`, of all the components at once (`ServerInv`).  Beside the
  invariants above it needs what bounds each: the slots' generations, summed, are the
  changes so far (`GwCounted`, with the lemmas of `Sums`); a machine judged red was red
  since a minute there was (`OutBounded`); what is found says each rule at one level, so
  that an alert's level is its rule's (`FindingsApart`, `AlCounted`).  Of prepaid credit
  nothing of `WalletProofs` can be used for the instance with the top-ups' constants, so
  its types are a predicate of the constants (`WalletTyped`), kept by every step with
  those constants (`WalletMoves`), which the steps of both instances are
  (`MonthsMove`, `TopupsMove`).  The answer to a request names a Session only because
  a request that was answered has one, and a renewal starts at a time only because the
  months of a claim have a last (`AnsweredIsASession`, `RenewalIsLater`).

**MCAgentsProofs.**

- `CliSoundAlways`: codes and devices are of the claim that is active, and the
  keys on the machine are of the claim its user was built for.  The hard part of
  `CliInv` is `OrderStands`: what the machine carries out was true when it asked,
  and since a slot is freed by a heartbeat alone, between asking and carrying out
  the claim can only have been given up, or a free slot claimed.
- `LoginSoundAlways`.  What the slot's agent does is for a request that was made
  (`ForTheRequest`), what it says is of the attempt it makes (`WordTrue`), and the
  three records of an account differ only while one attempt moves them, in one
  order (`AccountsAgree`).
- `UpkeepSoundAlways` assumes `~WriterBetween`.  An answer is kept with the request
  it is of through notes, saved notes and reports (`UpdKept`, `RunsKept`); a stamp
  noted for a file was the file's when it was looked at (`SeenBefore`,
  `RejectionsTrue`); and in each place a naming run may be cut short `/etc/hosts`
  names what the machine goes by (`HnInv`).
- `JobsSoundAlways`.  A process of a job's group is that job's or its guardian's,
  a record of cleanup follows the look that found the group empty
  (`GroupIsTheJobs`, `SavedIsGone`), and what counts against the limit is counted
  under the lock that starts a job, so that the count of a finite set is part of
  the invariant.
- `RequestsSoundAlways`, of requests two at a time and of one alone, of the
  connection (whose group the supervisor's process number names as long as it may
  be killed, `GroupIsOurs`) and of the counts (`CountsTrue`, `SampleTrue`).
- `AgentsTypeCorrect` assumes `~WriterBetween`.  Beside the invariants above, of each
  component what its bounded counters and records need: a key on the machine is of a
  device that was registered (`CliKnown`), a slot that is being wiped has holders left
  to come (`LoginFits`), an answer is no longer than what upstream sent (`InFits`), a
  day's count was last written on that day (`OfItsDay`).

**MCComputerProofs.**

- `NativeSoundAlways`, and for the composition `RequestSoundAlways`, hold for any
  number of requests, workers and changes of the grant, if a turn does not end in
  the very instant its deadline passes (`NsAtTheEdge = FALSE`).
  `NativeInv` says that only the holder of the lock is between its reservation and
  its cleanup (`OneWorks`), that whoever took a request has it reserved and alone
  (`ReservedAlone`, which a cleanup never takes back), and for each step of a worker
  what its outcome will rest on (`WorkerSound`): a call that came first can still be
  seen when the outcome is chosen, and a grant that is still the same after the
  cleanup vouches for it.
- `CopiesSoundAlways`, with `CrOneJournal`.  Of shared projects the invariant is
  that each content belongs to one path (a function from contents to paths that every
  copy fits, `Fitting`), that of whatever is being replaced the original is in a backup,
  and what is found in its place since the last look was written in between (`BackedUp`), that a computer asks to replace only what it had agreed on
  (`AsksForAgreed`) and that what a write touches on the slot is in the manifest
  (`OnRecord`); of releases, for
  each step of a command what it may still find on disk (`AtPlace`) and that a
  launcher that survives a power cut has its release surviving (`OnDiskSound`).
- `MountSoundAlways`, without a hypothesis.  Of the mount (`LvInv`): a
  connector and a daemon that serve each other count the same requests, but for the one
  that is open, unless the daemon was started anew for a connector that lost its mark
  (`InStep`); a connector that has done anything keeps the mark that it
  began, unless an explicit stop cleared it (`Remembered`); and what a computer stops has not been mounted and will not be
  (`Barren`, `NothingWorks`).  Of its files (`LfInv`): what others replaced as control
  data the server had seen (`ControlSeen`), and a handle nobody disturbed is of the only
  file at the place its path leads to (`OpenKept`).
- `ComputerTypeCorrect`, with the hypotheses of the first two.  What `NativeInv` lacks are the
  bounds: the grant changed so often as it may, and no worker is of a claim the slot
  has not been on yet (`NsCounted`).

## What is only checked

- `CheckoutEnds`, `ContractsSettle`, `LeaseEnds`, `ReleaseEnds` and
  `NothingOutlivesItsHolder`: liveness under fairness is beyond this prover.
- Findings 1 to 4, which are runs that end in a violation.

## What is not modelled

- *Slots*: reservations and holds of a machine, moving a slot by an operator; the
  facts a slot tells of itself beyond those named.  Several slots on one machine,
  which the code refuses since `MAX_SLOTS_PER_MACHINE` is 1.
- *Gateway*: limits on requests under way, cooldowns of a slot, and which slot is
  remembered: the order slots are tried in is left open.
- *Sign-ins*: those of an owner's own node, which the operator starts from the
  console; quota windows; operators' roles.
- *Monitor*: the thresholds of each metric; several machines at once.
- *Jobs and live folders*: transcripts and usage of jobs, the terminal's bytes,
  attributes and listings of the mounted files.
- *Model requests*: an alarm in the middle of a relay's write, the byte framing,
  headers and bodies, the egress filter; replacement of the connection's socket by
  another process of the same user and the signal errors of macOS; JSON-mode usage,
  per-model rows and stream timings of the counts.
- *Native agent*: provisioning the account and the agent, the grant's signature,
  the shim's protocol past one call (a second one is refused);
  `devin_protocol.py` and `devin_read_bridge.py`, which only tests use.
- *Computer*: the other commands of `laptop/ccfleet`, which pass requests on;
  `client_experience.py`; the installers and deployment, which are run by hand.
- *Pages, consoles, prices, offers*: rendering, parsing and arithmetic on what was
  typed.  The forms that move money are in `Wallet`.
- The wire formats, signatures and texts of everything.
