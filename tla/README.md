# CleanWeb: TLA+ models, checks and proofs

CleanWeb is a desktop (macOS, Windows) and mobile (Android, iOS) content
filter. It runs a Mihomo kernel with a TUN device, answers the system's DNS
queries itself on 127.0.0.1:53, downloads rule and proxy subscriptions, and
keeps settings, rules and access logs in an SQLite database. This directory
holds TLA+ modules for its stateful parts, the TLC configurations that check
them, and proofs that TLAPS checks.

    tlasany M.tla                     parse a module
    tlc -config X.cfg M.tla           check a configuration (the runs are below)
    tlapm PrivilegedHelperProofs.tla  check the proofs (and the other *Proofs)

`PROJECT.json` lists the components, runs, mutants, hazards and theorems, and maps every definition to the lines of `src/` it models.

## The system

Paths without a prefix are in `apps/desktop/src-tauri/src/`.

| Component | State | Operations | Hard parts | What makes it correct |
|---|---|---|---|---|
| Privileged helper, `platform.rs` (root daemon on macOS) | DNS backup file, bypass route file, system DNS settings, routes, the kernel process | Start, Stop (Ping, Version, TruncateMihomoLog) | every step is a command that may fail; users and networks change settings meanwhile; launchd restarts it after a crash; a torn backup | no setting of the user is lost; a successful stop has undone everything it can tell failed; a request that fails half-way leaves no kernel; every route the daemon installed can be found again |
| Protection runtime, `mihomo.rs` | two flags, a failure counter, PID file, `active-config` marker, `config.yaml`, the stored filter handle | start, automatic start, stop, reload, recovery, status | commands run on a thread pool, status polls on the main thread; they share files and flags, and status cleans up what it takes for leftovers | flags exclude; the marker is true; stop is final; the network is never left dead |
| DNS filter, `dns_filter.rs` | thread, four workers, bounded queue, domain index on disk, resolver names in flight | start, stop, resolve a query, load or rebuild the index | queue full, shutdown, stale index, loops through the system resolver | every query gets the decision of the rules, or none; stop ends all threads |
| Storage, `storage.rs` | settings, rules, subscriptions, sessions, encrypted proxy payloads | open and migrate, unlock, lock, change settings and rules, diagnose | statements commit one by one, so an opening can be interrupted anywhere; sessions expire while used | nothing of the parents' is lost; only a valid session changes anything; the diagnosis is true |
| Subscription refresh, `subscription_download.rs` | per subscription: rules, ETag, hash, error count, last success | refresh one, refresh due | two refreshers interleave; rules and validators are written apart; a crash in between | rules always belong to the validators stored with them; a failed update keeps the last valid rules |
| Access log collector, `access_logs.rs` | position in the kernel log, log rows, daily totals | follow, sync, prune, roll up, query | log truncated by another process; lock taken twice; statements that commit one by one; the DNS filter writes to the same table | no line passed over unread, none counted twice unless its reading broke off; the table stays small |
| Application life cycle, `lib.rs` | three flags, exit requests, sessions | close, quit, confirm, exit, launch | quit while a cleanup fails or a start runs; events sent before anybody listens | no exit without a stop; every request is shown |
| Rules, `crates/cleanweb-rules`, `-subscriptions` and others | none | parse, match, priority, compile for filter and kernel | rules split between filter and kernel, a third ranking in the diagnosis | all three agree with the documented order |
| Mobile VPN, `apps/mobile` (Android) | service, tunnel threads, status, policy and proxy files | start, stop, policy, import, restart by the system | threads of older tunnels, destruction after stopSelf, death of the process | the shown state is the service's; no tunnel outlives it; files can be started from |
| User interface, `packages/frontend` | busy scopes, shown status, quit dialog | polls, switches, asks for the password | scopes do not exclude each other | |

How they interact: the user interface calls commands of the protection runtime
and the storage; the runtime builds `config.yaml` from the storage, asks the
helper over a Unix socket to launch the kernel, starts the DNS filter, and
watches the kernel log; the access log collector reads the same log and triggers
a recovery when it shows a broken TUN device; subscription refreshes and setting
changes end in a reload. The life cycle stops the runtime before an exit. On Android the
same interface talks to a plugin whose service owns the tunnel.

## Modules

| Module | Models |
|---|---|
| `NetworkTakeover` | abstract specification: what CleanWeb may do to system DNS settings and to the record it keeps of them |
| `PrivilegedHelper` | the daemon, one action per command it runs or file it writes; its properties; `ImplementsTakeover` |
| `ProtectionRuntime` | commands, polls and crashes of the desktop application around the helper, one action per access to shared state |
| `SubscriptionRefresh` | refreshes, edits and deletions of subscriptions, and the sources they come from, one action per use of the database |
| `AccessLogCollector` | the log file and the stream of the kernel, the collector, the command of the console, the table and the queries on it |
| `QueryService` | abstract specification: what the DNS filter promises to those who ask it |
| `DnsFilter` | receiver, queue, workers, upstreams and the resolver of the system; `ImplementsService` |
| `RuleDecisions` | import of rules, the domain index and its cache, the rules of the kernel, the diagnosis, and what becomes of a connection |
| `DatabaseOpening` | opening and migrating the database, one action per statement or transaction |
| `AppLifecycle` | quit, exit, launch, sessions, and the part of the interface that asks before quitting |
| `MobileVpn` | the Android service with its threads, the policy and the files, and Android around it |
| `PrivilegedHelperProofs`, `ProtectionRuntimeProofs`, `SubscriptionRefreshProofs`, `AccessLogCollectorProofs`, `LaunchProofs` (`AppLifecycle` and `DatabaseOpening`), `DnsFilterProofs`, `RuleDecisionsProofs`, `MobileVpnProofs` | inductive invariants and theorems |
| `MC...` | model values, small instances and symmetry for TLC (`MobileVpn` needs none) |

How they compose. `ProtectionRuntime` takes the helper as one step with the
partial results that `PrivilegedHelper` shows possible, and the DNS filter as one
thread whose inside is `DnsFilter`. `DnsFilter` takes the decision on a name as
given; `RuleDecisions` says which it is. `SubscriptionRefresh` says which rules are
stored, `RuleDecisions` what is made of them, `DatabaseOpening` what is there to
begin with. `AppLifecycle` takes protection as on or off.

### PrivilegedHelper

`run_privileged_helper` accepts one client at a time, so the daemon is one
process with a place `pc`. `Accept` receives Start or Stop. Both run
`helper_stop_mihomo` (the places "terminate" to "unroute"), a start goes on
through `helper_start_mihomo` ("prepare" to "decide") and
`backup_and_set_macos_dns` ("collect" to "take"). Each `networksetup` call is a
step (`RestoreService`, `CollectService`, `TakeService`), so edits by users and
crashes fall between them. Services in `Hotplug` come and go. A command on a
service that is not there fails; any command may fail. `Refuse` is a request that
is answered with an error before anything is stopped (wrong user, or a binary or
configuration that is not the user's).

Details that matter and are easy to miss:

- `std::mem::forget(child)` leaves a kernel that has exited as a zombie of the
  daemon, and `pid_running` (kill with signal 0) counts a zombie as running. So
  the early return of `helper_stop_mihomo` is taken only when no kernel was
  found or the kernel was started by an earlier incarnation of the daemon
  (variable `child`). The two returns clean up different things.
- `fs::write` truncates first: a crash or a full disk leaves the backup "torn".
  A torn backup is a file that exists and cannot be parsed: `OpenBackup` fails
  on it, `BeginTakeover` takes it for a backup.
- `AbandonStart` (the error path of the takeover) does not give settings back.
  They stay with the backup until the next stop. `StopRestoresNetwork` shows
  that this stop then succeeds in full or reports failure.

- `cleanup_macos_mihomo_routes` and `cleanup_dns_upstream_bypass_routes` return
  nothing: when `netstat` or a deletion fails, the stop is still a success.
  `RemoveRoutes` leaves the routes of the tunnel then (observer `uncleaned`), and
  `CleanupBypass` removes the list of routes whose deletion failed (observer `lost`).

The observer `orig` holds the setting that users and networks gave a service
outside a takeover. A change made during a takeover is `Contested`: the code
overwrites it with the backup, and no document says what it should do. A client
that connects and sends no line keeps `read_line`, and with it the daemon, waiting;
that is before any request and not modelled.

### ProtectionRuntime

`thread[t]` says what a pool thread or the main thread is doing. The helper is
atomic here (it serves one client at a time). `StartKernel` and `HelperFailsToStart`
are its answers to a start, `HelperFailsToStop` is its failure to stop: refused with
everything as it was, failed with the kernel gone and the DNS in either state, or
done with the answer lost. Kernel PIDs are numbered in order of launch;
PIDs are not reused. `policy` stands for everything `build_config` reads from the
database, a configuration is the policy it was built from, and a configuration
hash is the configuration. `AwaitTun` may run into its five seconds whatever the
kernel does.

`Status` (`core_status`) is run by every command and by the polls:
`LookForKernel`, `Check`, and, when it decides to, the three steps of
`recover_incomplete_protection_state`. `stop_dns_filter` keeps the lock while it
joins the thread and is one step; `start_dns_filter` is three. The protection
switch of the user interface is disabled while its start or stop runs, nothing
else is exclusive (`useScopedOperations` keeps one set of busy scopes, and the
scopes of settings, rules and subscriptions are different ones).

Left out, on purpose: `refresh_system_dns_servers` (reads resolvers, may fail
only if its cache file cannot be written), extraction of the kernel binary, the
failure to write `mihomo.pid` or `active-config`, progress events, and the
branches for Windows and Linux.

### SubscriptionRefresh

`job[r]` is one run of a refresh command: the subscriptions it still has to do
and, inside `refresh_subscription_inner`, the row as it was read and the answer
of the source. The database is locked four times with gaps in between, so the
steps are `ReadRow`, `Fetch` or `FetchFails`, then one of `MarkUnmodified`,
`MarkSameContent`, `Reject` and `Store`, and `Stamp` after a store.

A document is a version: `clock` counts the documents published by all sources
together, so a version also serves as the date in Last-Modified, as the ETag of
a server that sends one (`Tagging`), and as the hash of the content. Two things
are thereby assumed away: a source that goes back to an older document, and two
addresses with the same content. A version in `good` has at least one usable
rule. `timed` says that a row has an update interval: the timer selects no other (`Due`).
`rules` names the version and the category the stored rules come from;
`NotModified` is the comparison a server makes, ETag first.

Who may overlap is the user interface's doing (`useScopedOperations` in
`App.tsx`): one command of the user per subscription, one check of the built-in
sources; the timer starts only when no such command is under way, but a command
may start under it, and when that command ends the timer starts anew although
its earlier round has not ended. Two refreshes of one subscription are thus
possible, and the Rust side has no lock against them.

The observer `told` is up after a reported success for as long as the address,
the category and the document of the source are what that refresh saw.

Left out: `last_error` and `error_count` (shown only), progress events, the
three formats (they differ in the table that `Store` fills), the manual import
of proxies; the migrations that run before the first command are in
DatabaseOpening.

### AccessLogCollector

One task follows the stream of the controller and visits the file every five
seconds (`Collector`); others run `sync_access_logs` for the console
(`Commands`). The database is locked for each use on its own, so a visit has the
steps of the code: the file is measured (`OpenLog`), read from the stored offset
(`ReadLines`), and the events are inserted in the critical section that moves
the offset (`Store`) or empties a long file. `lock` is the mutex when somebody
holds it for good: `prune_mihomo_log_file` is called with the lock held and takes
it again (`access_logs.rs:574`), so after `StoreAndPrune` the place is "stuck" and
every step that needs the database waits.

No use of the database is a transaction: each insert, the cleanup and the offset
commit by themselves. `StoreBreaksOff` is an insert or cleanup that fails,
`StoreAndFail` an offset that cannot be written; `Crash` loses what is in hand. The
DNS filter inserts a row for each name it blocks, over a connection of its own
(`FilterBlocks`), which needs neither the mutex nor logging to be on, and cleans
nothing up.

Lines are numbered; two lines may tell of the same access, and then the later
one is counted with the earlier row. The table is a set of rows with their ids.
`InsertLines` says at once what the loop over `insert_parsed_log_event` leaves:
lines that are like a row are counted with the newest such row, the first of those
like none becomes a row, and the others like it are counted with that.
`InsertConnections` does the same for a listing of the controller, whose order gives
the ids, and `Total` is the sum of a function, as the size of a disjoint union. The
unit of the offset is a line; a tick of the clock is longer than the five minutes
within which rows are merged. The second log file of macOS is read like the first.
Days are days of the clock: the local time and its changes are left to SQLite.
`counted`, `passed`, `overlapped`, `unmarked` and `uncleaned` are observers: how often
each line was counted from each source, which lines were read, whether two tasks
were at the file together, which lines were stored by a reading that then did not
move the offset, and how many rows came since the last cleanup. `CountedOnce` and
`TableIsBounded` say that only these lines are counted again and that the table
passes its limit by no more than these rows.

### DnsFilter and QueryService

The listener receives packets (`Receive`), answers a health check itself, and puts
others into the bounded queue or drops them. Workers share the receiving end
behind a mutex (`LockReceiver`), wait at most 250 ms (`ReceiveTimesOut`) and look
at the stop flag between jobs. A query is one of six kinds, what the rules and
safe search make of it; `kind` never changes, so rules are constant during a
query. `forward_dns_packet` tries upstreams in order; a send error ends the loop
(`UpstreamUnreachable`), and the order of the fallbacks is that of
`UpstreamsExhausted`. A "safe" query stands for a name with a safe search mapping
whether it asks for an address (answered locally) or something else (forwarded);
the lookup of the mapped name is part of the local answer. `inFlight` is a static
of the process and outlives the filter.

`ImplementsService` maps each query to its status in `QueryService`: sent while
it is in the socket or in the hand of the listener, taken once it is in the queue
or with a worker, then what it was told. A full queue, a stop and a failed send
are `Lose`; `AnswerHealth` is `AnswerAtOnce`. A blocked name can only be answered
"no such name", and nothing else can.

### RuleDecisions

A domain is a sequence of labels from the top, so a suffix rule is a prefix.
`Parsed` and `Import` say what a line of each list format turns into; keyword,
wildcard and regular expression rules are one kind. `Index` is the set of entries
`append_parent_domain_rules` and `append_imported_domain_rules` make; it is
searched tier by tier (`IndexBlocks`). `KernelRules` stands for the list that
`build_config` writes: a set of lines, each with the part of the list it is in and
its place there (the number of the subscription by creation and that of the
line, as the `ORDER BY` of `append_imported_rules` has it). `Precedes` is the order of the
list, and `KernelDecides` the first line that matches; lines of equal place
are rules of the parents with one action, so their order decides nothing.
`Outcome` is what index and list make of a connection together. `Diagnosis` is the
third implementation.

The cache of the index is a directory with a manifest, replaced in two steps
(`RemoveOldIndex`, `RenameIndex`) under the database lock; `Fingerprint` is what
the manifest is compared with. It does not contain the imported rules, only the
stamp of each subscription, which has a resolution of one second. `unstamped`
holds the subscriptions whose rules are newer than that stamp tells; the
properties are claimed when it is empty.

### DatabaseOpening

`open_with_rule_source_dir` is straight-line code over statements that commit one
by one: `pc` is the next statement, and `Crash` may come before each of them. A
database is a fresh one or of any earlier version (`Earlier`): with the old or
the new constraint, with text in the access log or not, with either flag, with
any kind of payload. Sources of the same treatment are one (`Sources`). Edits and
refreshes by the open application come between openings. `wanted` and `choice`
are observers of what the parents last did.
`OpeningInit`, `OpeningNext` and `OpeningSpec` are named so that one module can
extend this one and `AppLifecycle`.

`migrate_legacy_keychain_payloads_to_debug_key` runs in debug builds only and is left out.

### AppLifecycle

Synchronous commands and window events run on the main thread, one action each.
Starts run on another thread (`starter`), the web view answers when it likes.
`take_pending_quit_request` and its answer are two steps, since the interface
acts on the answer after an await. `network` is "taken" when a start has
succeeded; `cleaned` observes that `stop_protection` succeeded in this process.
A wrong password changes no state.

### MobileVpn

Plugin commands and callbacks of the service are steps of the main thread;
`startVpn` is four of them ("looper" to "mark"), because the threads of tunnels
run meanwhile. A tunnel is numbered by its order in the process; its `worker` is
the packet loop or the thread that waits for the kernel, and acts on the fields
of the service that created it (`Mine`). Android (external) delivers starts and
stops in order, destroys a service some time after `stopSelf` and restarts a
sticky one after the process died.

A policy goes from `PreparePolicy` through `WriteConfig` to `UpdatePolicy`; an
import is `StorePayload`, `StoreInfo`. `config` is "torn" while `fs::write` is at it and
"cut" when that broke off by an error (`WriteFails`) or a death.

A thread that finds its tunnel broken tests the flag or pid (`Test`), clears it
(`Clear`), reports (`Report`), closes the interface (`CloseInterface`), sets the
field to null (`Forget`) and stops the service (`Quit`), each a step of its own, with
the fields as they are by then; `WaitFails` is the exception of `waitMihomo`, after
which the pid is not looked at. `forgotten` observes which open interfaces `Forget`
has struck from the field. `startVpn` gives up a full tunnel whose interface has
been closed under it.

Assumed: one policy and one import at a time; a read of a plain field sees the last
write (the interface is neither volatile nor locked); `stopVpn` is one step, as its
assignments are on the main thread and a thread that reads between them acts on the
same interface as one that reads before or after; so is the reading of `stopping`
and the pid in `Test`, since both are written by the main thread in one go and the
later read decides; a kernel started on a torn configuration exits. An interface
that nobody holds is open until the garbage collector finalizes it, and a kernel
has a descriptor of its own. The counters of the status, the log of queries, and
the files of safe search and rule subscriptions are left out.

## Runs

Every run passes. States are distinct states.

| Run | Configuration | States | Shows |
|---|---|---|---|
| helper | two services (one hot-plugged), two resolvers, one address, 2 edits, 1 crash | 842 thousand | no setting lost, successful stop undoes the takeover, failed request leaves no kernel, host routes on record, every request answered, refinement of NetworkTakeover |
| runtime_serial | 1 worker and polls, all failures, 2 requests, 1 crash, 2 policies | 841 thousand | marker true, stop final |
| runtime_concurrent | 2 workers without polls, all failures, 2 requests, 1 kernel exit | 173 thousand | no filter thread orphaned, commands end, flags come down |
| runtime_liveness | 1 worker and polls, 1 kernel exit, 2 requests, 2 policies | 373 thousand | a kernel exit in a quiet moment gives the DNS back |
| subscriptions_serial | 1 refresher, 2 subscriptions (one built-in), with an interval or without, sources with ETags, with dates only and never answering, 1 publication, 1 request, 1 crash | 62 thousand | rules not behind the row, success means current, an enabled subscription with an interval catches up |
| subscriptions_concurrent | 2 refreshers, 1 subscription, a web source and a file, 1 publication, 2 edits, 1 request | 526 thousand (symmetry) | deletion is final |
| access_logs | collector and one command, 2 lines, days of 2 ticks, 3 times, 2 events, limits of 1 line and 2 rows | 1.3 million | no line passed over, none counted twice unless its reading broke off, table bounded, views agree |
| dns_filter | 3 queries in two mixes of kinds, 2 workers, a queue of 1, 2 upstreams and 1 of a VPN, 2 starts | 114 thousand | refinement of QueryService, names in flight have one owner, a stop ends, queries end, type |
| rule_decisions | a security and a content subscription with 3 files each and a list of routes, 4 rules of parents, 4 targets, 1 tick, 2 edits | 255 thousand | cached index fresh, documented priority, true diagnosis |
| database | 2 rules of parents, 1 row, every earlier version, 2 crashes, 2 edits | 392 thousand | rules and rows survive, openings that end have migrated, category stays covered, choices kept |
| lifecycle | 2 tokens, time to live 1, 1 tick, 2 requests, 1 failure, 2 launches | 60 thousand | clean exit, dead sessions stay dead, requests to quit shown |
| mobile_vpn | 4 commands, 1 import, 1 failure, 1 kill | 1.3 million | "running" is true, tunnels are held, files usable, type |

Two more configurations pass. `MCPrivilegedHelper_routes` checks `RoutesOnRecord` with
two addresses, so that one start installs other routes than the next, and two
crashes (23 thousand states). `MCSubscriptionRefresh_apart` checks `RulesNotBehindRow`
and `SuccessMeansCurrent` with two refreshers that overlap but never have one
subscription at hand, one edit and one crash (1.5 million states, symmetry): the
assumptions of the theorems are met in it by real overlaps. All others that are
not in the table belong to the disagreements below.

Bounds. A stable and a hot-plugged service are enough for the helper because
its loops treat services independently and properties speak of one service at a
time; two edits allow a service to be removed and to come back, or a change
before and one during a takeover; one crash may fall on any step, and the state
after it (file and settings in any combination) is a start state of every
request that follows. Requests to the helper are not bounded. Two requests to
the runtime let one command meet the leftovers of another and, with two workers,
overlap it; three are needed when the overlap needs a running kernel first. The
counters `failures` and `policy` are bounded by `HealthFailureLimit` and
`MaxPolicy`, and `launched` by the requests and crashes. The polls are left out of
runtime_concurrent, since a liveness check with two overlapping commands takes all
the states TLC can look at; the commands take the same look at the state that a
poll does (`Status`), so what a poll would clean up is cleaned up there, too.

Rounds of the timer are not bounded. For subscriptions, one publication puts a
document into the hands of a refresh while a newer one is served, and two let two
refreshes hold different new ones; the second subscription is there to be passed
over or to fail in the same round; two edits let a subscription be edited or
switched off and then deleted under a refresh.

Two lines and a limit of one make a log long, so that it is read in part and
emptied; they also let one line be read while the other is written. Two events are
two of a restart of the kernel, a death of the application, a failing statement, a
clearing and a name the filter blocks. Days of two ticks let the console ask in the
middle of a day and at its edge. Reading rounds are
not bounded.

Two workers and a queue of one let one worker block the other at the channel,
fill the queue, and ask for one name twice; the second start meets names that the
first filter left in flight. The two mixes cover the six kinds; a mix of three
forwarded queries only repeats the paths of two.

Four targets (a domain, a name below it, a local name, an address) and the rules
chosen give each pair of neighbouring ranks a target on which they disagree. Two
edits store rules and stamp them, or change two things between two loads.

Two crashes interrupt an opening and the one that repairs it; the state on disk
after that is the start of further openings, which are not bounded. One row is
enough because every statement treats rows alike.

Two tokens let one session expire while another is used. Two requests make a
second quit or start overlap the first; polls, answers and dismissals are not
bounded. Four commands on Android let a tunnel be started, stopped, started and
changed.

Deadlock. The helper, the runtime with its polls and database never stop, and
TLC checks that. The other configurations say `CHECK_DEADLOCK FALSE`, because there
the system may really stop: in runtime_concurrent the requests are used up; in
subscriptions_serial no subscription may have an interval, in subscriptions_concurrent
every one may be deleted; in access_logs everybody may wait for the database (the disagreement
below), or the kernel has nothing more to write; the filter may be off with its
starts used up, the application exited with its launches used up; in
rule_decisions the edits and in mobile_vpn the commands run out.

Fairness. `PrivilegedHelper!FairSpec`: the daemon does not stall within a
request (every command it runs returns, its waits are bounded loops).
`ProtectionRuntime!FairSpec`: pool threads, the timer and the polls keep running
(runtime_concurrent: pool threads, `UnpolledSpec`). Nothing is asked of a kernel: the
wait for its TUN device ends after five seconds, with an error if it has not come.
`SubscriptionRefresh!FairSpec`: the timer of the user interface keeps asking (as
it does while the console is unlocked), tasks of the runtime run, an update interval
that a subscription has passes; and, as strong fairness, a source that is not in
`Unreachable` answers again and again when it is asked again and again. `DnsFilter!FairSpec`: the listener and each
worker run, and their timeouts (250 ms, those of the upstreams, 750 ms for the
system) end; the order in which the mutex of the channel is granted is left
open, and a worker may never get it, which keeps neither a query nor a stop
waiting. `AppLifecycle!FairSpec`: setup ends, the window system delivers exit
requests, the timer of 500 ms calls and calls are answered. No fairness for users,
crashes, kernel exits, policy changes, publications, dismissals or commands.

## Disagreements, each with the configuration that makes TLC show it

These configurations end in a counterexample. Each checks one statement of the
documents, or one that the code seems to rely on.

Helper and runtime:

- `MCPrivilegedHelper_hotplug`, `NoServiceLeftBehind`. `platform.rs:1133`: services
  are listed twice; one that appears in between is taken over without a backup and
  never given back. `docs/product-spec.md:165`.
- `MCProtectionRuntime_recovery`, `FailedRecoveryKeepsNetwork`. `mihomo.rs:353`: a
  start that fails after the launch does not ask the helper to give the DNS back,
  and nothing does so later because the marker is gone.
  `docs/architecture.md:115`, `docs/product-spec.md:126`.
- `MCProtectionRuntime_poll`, `DnsNeverDead`. `mihomo.rs:1073`: a poll that started
  before a start tears down what the start has just set up. The trace TLC
  prints uses three polls during one wait for the TUN device; one poll whose
  look at the PID file comes before, and whose cleanup comes after, the start
  writes it is enough (with `HealthFailureLimit` raised TLC finds that trace).
- `MCProtectionRuntime_stop`, `StopIsFinal`. `mihomo.rs:489`: a stop does not look
  at the flags of starts and reloads. `docs/product-spec.md:28`. With no other command
  at work it holds (run runtime_serial, and `StopStaysFinal`).

Subscriptions:

- `MCSubscriptionRefresh_race`, `RulesNotBehindRow`. `subscription_download.rs:203`:
  rules and validators are written apart, and two refreshes of one subscription
  can mix theirs; the source then answers "not modified" to rules it has
  replaced. `docs/architecture.md:79`. Without two refreshes of one subscription it
  holds, crashes included (subscriptions_serial, `_apart`, and `RulesInStep`).
- `MCSubscriptionRefresh_edit`, `SuccessMeansCurrent`. `storage.rs:1271`: an edit
  keeps the validators of the old address and the hash of what was imported
  under the old category, so the next refresh changes nothing and reports
  success. `packages/frontend/App.tsx:362`. With address and category
  settled before the first refresh it holds (subscriptions_serial, `_apart`, and
  `SuccessIsTrue`).

Access log:

- `MCAccessLogCollector_blocks`, `CollectingDoesNotBlock`. `access_logs.rs:574`: a
  log over its limit is emptied while the database is locked, and resetting the
  offset locks it again. `docs/architecture.md:127`: a failure to collect logs
  must not block the network.
- `MCAccessLogCollector_off`, `OffMeansNoRecord`. A line that the kernel wrote
  while logging was off is still in the file when logging is switched on again, and
  is then read and stored; so is a streamed line that was waiting. `docs/architecture.md:127`: with logging off
  no new access is kept.
- `MCAccessLogCollector_filter`, `FilterRecordsNothingWhenOff`. `dns_filter.rs:234`: the
  DNS filter writes each name it blocks into the table without asking whether logging
  is on. `docs/architecture.md:127`, the same sentence.

Rules:

- `MCRuleDecisions_direct`, `FilterBeforeDirect`. `docs/product-spec.md:89`: filter
  rules come before direct rules, so that a DIRECT rule of the same domain does
  not go round them. An imported permission (a line of a subscription in the
  category "direct", or an exception) enters the tier of the parents' permissions
  and wins over the blocks of subscriptions.
- `MCRuleDecisions_permission`, `PermissionIsKept`. `docs/product-spec.md:75`: what the
  parents allow comes before the lists of subscriptions other than security.
  A permission by keyword, wildcard, regular expression or network is not in the index
  (`dns_filter.rs:883`), so a list's block of the name stands; and a list's blocked
  network is written ahead of all others (`mihomo.rs:1379`).

Life cycle:

- `MCAppLifecycle_quit`, `QuitReleasesNetwork`. `lib.rs:98`, `lib.rs:117`: a start
  that is still under way when the quit stops protection takes the network
  afterwards, and the exit does not stop it again. `docs/product-spec.md:165`.

Android:

- `MobileVpn_failed`, `FailureStaysReported`. `onDestroy`, which follows every
  failure, overwrites the state "failed" with "stopped".
  `docs/platforms/android.md:21`.
- `MobileVpn_mode`, `ModeIsTrue`. A new policy sets the reported mode at once, and
  the tunnel that runs keeps its old one until it is restarted.
  `docs/platforms/android.md:24`.
- `MobileVpn_thread`, `OldThreadsAreHarmless`. The thread of a failed tunnel closes
  whatever interface the service has when it gets to it, which may be that of a
  restart. `docs/platforms/android.md:20`.
- `MobileVpn_leak`, `StopLeavesNothing`. `CleanWebVpnService.kt:154`: a thread that has
  closed the interface of its tunnel sets a plain field to null in the next step; if a
  stop and a start come in between, that is the new interface, and neither a stop nor
  `onDestroy` finds it any more. Clearing a pid that a restart has just set
  (`CleanWebVpnService.kt:194`) leaves a kernel the same way.
  `docs/platforms/android.md:19`. Apart from what such a thread strikes from the
  fields, no tunnel is lost (`TunnelIsHeld`).
- `MobileVpn_bundle`, `BundleIsWhole`. `mobile_vpn.rs:426`: `fs::write` empties the
  configuration before it writes the new one, and a death or an error in the middle
  leaves it so under the policy saved earlier, with which the system restarts the
  service. `docs/platforms/android.md:18`. Nothing else comes between
  a saved policy and its configuration (`FilesAreUsable`).

Others, met while modelling, that no configuration states:

- `MarkerIsTrue` holds for one worker (run runtime_serial), and for more while nobody
  overwrites what another is about to launch (`MarkerStaysTrue`), and fails for two
  (2 workers, 2 requests, 1 crash, 2 policies, no failure): starts and
  reloads use different flags and share `config.yaml` (`mihomo.rs:278`), so the
  marker may name a configuration the kernel does not run.
  `docs/architecture.md:115`.
- A stop that finds no kernel left (`platform.rs:709`) removes tunnel routes but
  not the recorded bypass routes. `docs/architecture.md:113` says they must be
  removed.
- `docs/architecture.md:90` says a configuration is validated before a start,
  which `start_inner` does not do (a reload does).
- `docs/product-spec.md:125` and `docs/architecture.md:115` say a kernel that has
  exited is restarted automatically, while `core_status` only cleans up after it.
- `docs/product-spec.md:132` wants at most one record per connection. A line of the
  stream, the same line in the file, and the connection in a snapshot have
  three different hashes and are counted separately. A restart of the kernel
  empties the log (`platform.rs:655`) and leaves the offset, so a new log that has
  grown past it is read from the middle.
- The diagnosis ranks an exception of a subscription below its blocks, the filter
  above them. A security
  subscription's exception precedes the parents' keyword blocks in the kernel's
  list. Names of local networks go direct before keyword, wildcard and regular
  expression blocks. A route of one subscription precedes the keyword blocks of
  those created later (`mihomo.rs:1504`). `PriorityHolds` and `DiagnosisIsTrue`
  leave these targets, and those of `PermissionIsKept`, aside (`RankedOtherwise`).
- A crash between renaming `parent_rules` and creating the new table leaves the
  rules in a table nobody reads again: `ParentRulesOnDisk` is true of the two tables
  together. A crash after the creation of `access_logs_compact` leaves a table
  that every later opening stumbles over. A fallback list inserted in part is
  never completed. The parser migration removes rules and keeps the hash, so the
  next refresh finds nothing new and does not bring them back.
- On Android a start that is delivered between `stopSelf` and the destruction of the
  service is lost; two refreshes of one subscription share one temporary file.

## Proofs

`PrivilegedHelperProofs` proves, for all sets of services, resolvers and
addresses, and without relying on the bounds, that `Spec` implies `TypeOK`,
`OriginalsKept`, `StopRestoresNetwork`, `FailedRequestLeavesNoKernel`,
`RoutesOnRecord` and `ImplementsTakeover`. The assumptions are those of
`PrivilegedHelper`: `Hotplug` is a part of `Services`, and the resolvers,
`CleanWeb`, `Absent` and `Contested` are different things.

None of the properties is inductive: `OriginalsKept` says nothing about the
services already given back or still to be collected, `StopRestoresNetwork` only
looks at the end of a request. `IInv` adds, place by place, what the loops have
achieved:

- `Located`: what the place tells of the local variables (which loop runs, that
  nothing has been collected outside "collect" and "save");
- `Due`: a service whose setting is in nobody's hands has the setting it is due,
  and one that has been collected is collected with that setting;
- `Restorable`: while a backup is valid, every stable service is in it with a
  real resolver, and services not in `todo` have been given back;
- `Reported`: what an answer implies of kernel, backup, routes and settings;
- `Recorded`: a route of the daemon is in the file, just added, or one of those whose
  deletion or recording went wrong.

`Inductive` has one step per action. `StepRefines` maps every step to a step of
`NetworkTakeover` or a stutter: `WriteBackup`, `Crash` and `TakeoverFails` are
`Record`, `TakeService` is `Take`, `RestoreService` is `GiveBack`, `RemoveBackup`
is `Forget`, `EditSetting` and `PlugService` are `Edit`.

`ProtectionRuntimeProofs` proves, for any number of workers, any set of failing
steps and any bounds, that `Spec` implies `TypeOK`, `FlagsAreExclusive` and
`FilterHasOwner`. Neither safety property is inductive. `FlagsAreExclusive` does
not say that a command that ends without release holds no flag; `Placed` adds
where a holder can be, and that a status taken on the way (`ReturnStatus`), which
may claim a flag, is never taken under one. `FilterHasOwner` does not say that a
thread about to store the handle is the only one, or that nobody has stopped the
filter it bound; `Filter` adds both. `FlagsKept` and `FilterKept` settle the
actions that leave flags and filter to their owners, `Invariance` has one step
per action and treats the seven others in full.

`MarkerIsTrue` and `StopIsFinal` are not kept for two commands at a time (the first
entry of "Others" above, and `MCProtectionRuntime_stop`). For any number of workers
the module proves `MarkerIsTrue` of every behaviour with `ConfigUndisturbed` throughout
(when a command asks the helper to launch it, `config.yaml` is still what that command
has written), and `StopIsFinal` of every behaviour with `StopsAlone` throughout (while
a stop is at work no other command is); polls may overlap everything. Neither
property says what a command is about to do. `MainPolls` adds that the main thread
only polls; `MarkerSafe`, that a PID is given once, and that each command that has
launched a kernel carries the PID and the configuration it was launched with, until it
writes the marker; `StopSafe`, what a stop has already cleared (filter, kernel and DNS,
files) at each of its places, which no poll brings back.

`SubscriptionRefreshProofs` proves, for any number of refreshers and any sources
and bounds, that `Spec` implies `TypeOK` and `DeletedStaysDeleted`: an update of a row
neither brings a deleted one back nor removes one (`MarkingKeepsRows`), and only `Store`
and `Delete` touch rules (`RulesAlone`). `RulesNotBehindRow` and `SuccessMeansCurrent` are
proved of every behaviour with two conditions throughout, and any number of
overlapping refreshers, deletions, switches, changes of the interval and crashes:
`Apart`, no two refreshes have the same subscription at hand, and `SettledFirst`,
address and category of a subscription change only before its first refresh. The
configurations `_race` and `_edit` show that each is needed; the code sees to neither.
Neither property is inductive: a row says nothing of what a
refresher is about to write. `IInv` adds that a row names nothing newer than the
rules and the rules are not newer than the source (`InStep`), that sources serve
what has been published (`Published`), and that a refresher's row is as it was
read and its answer not older than the rules, and of their very version if the
source said "not modified" (`Fits`). A step of one refresher leaves what the others
have at hand alone (`Elsewhere`, `OneStep`).

`AccessLogCollectorProofs` proves, for any number of tasks, lines, restarts of the
kernel and clearings, any limits and any retention, that `Spec` implies `TypeOK`,
`OffsetPassesReadLines`, `CountedOnce`, `TableIsBounded` and `ViewsAgree`. It assumes
that decisions are the three there are, that own lines and noise are no recorded
accesses, and that the controller lists finitely many connections
(`ConnectionsAssumption`). `Numbered` comes first: lines in the log, on the stream and
in the hands of tasks have ascending numbers, none above `written`, and none is from
the future. The offset is stored long after the file was measured, so `PassedInv`
follows what is in the hand of each task (`InHand`): nothing was measured in a log that
is still to come, and what a task is about to store was read up to `end`, if the log
is still the one it was read from. `FileInv` is about the time before two tasks overlap:
one task is at the file (`Alone`), the offset reaches past every line of the log that
was counted by a reading that moved the offset (`CountedInLog`), and so does what that
task has measured, while the lines in its hand are uncounted or `unmarked`
(`HoldsFile`). Emptying the log keeps this, since it leaves no line that
was counted and what is written later has higher numbers. `StreamInv` says the same
of the stream, where a line that was taken is gone. For the table, `TableInv` holds
that ids tell rows apart and that none is from the future; without the first, two rows
of one time would have one place, and cleaning up could keep too many
(`CleanupBounds`). A row that comes without a cleanup, from the DNS filter
(`TableBlocks`) or a reading that broke off (`TableInserted`), is counted in `uncleaned`. `ViewsAgree` follows in each such state: rows differ in place
(`PlacesDiffer`), so each place up to their number is taken (`PlacesTaken`) and the
list is a bijection to the rows (`ListedOnce`); a sum is the same in any order
(`TotalReordered`), and sums of parts that share nothing make no more than the whole
(`TotalOfParts`). `DayBegins` is why the counter of today and the last day of the chart
agree: no row is later than now.

`LaunchProofs` is about what a launch goes through. Of the life cycle it proves, for
any number of tokens, requests, failures and launches, that `Spec` implies `TypeOK`,
`ExitIsClean` and `DeadSessionsStayDead`. `ExitIsClean` is not inductive: an exit skips the
stop when the flag `networkCleanupStarted` is up, so `CleanInv` adds that the flag
is up only after a stop that succeeded. For the sessions, a token must not
become live by a clock that stands still or by an extension: the step needs
that an expired session is dropped before it is looked up (`ManagementKeepsDead`),
that a token drawn once is not drawn again, and that a launch starts without any
session (`SetupInv`).

Of the opening of the database it proves, for any rules, rows, bounds and version to
start from, that `OpeningSpec` implies `ParentRulesOnDisk`, `RowsReadable`, `ChoiceIsKept`,
`OpenIsMigrated` and `PornographyStaysCovered`. Each needs to know what an
interrupted opening leaves behind. `ParentsSafe`: the table of the parents' rules is
renamed only when no renamed one is there, and the renamed one is dropped only when
its rules have been copied. `LogsSafe`: a column of the log is emptied, and the
compact table made, only when the strings of the texts are saved. `SourcesSafe`:
what a migration has done stays done, and the source that replaces another has
its rules before the other is deleted. `ChoiceSafe`: a choice is made in an open
application only, when nothing is left to migrate.
`OpeningTypeCorrect` has its own types: that no rules are stored for a source that is
not listed takes that the defaults are listed before anything is inserted for them,
and that the replaced source has no content hash left behind when it goes.
`FallbackStaysApart` adds to `FallbackNotMixed` that between the two lines of the
fallback file no list has been downloaded, since nothing refreshes a source before
the opening ends, and that an opening which dies there does not come back to the
second line: the source has a rule by then.

`DnsFilterProofs` proves, for any number of queries, workers and upstreams, any
length of the queue and any number of starts, that `Spec` implies `TypeOK`,
`InFlightHasOwner` and `ImplementsService`. Cardinalities are not inductive;
`OneOwner` says instead that a name in flight has a worker that resolves it, that
what a worker resolves is in flight, and that two workers never resolve one name.
For the refinement a query must not be answered twice: `InOnePlace` says that it
is in the socket, in the listener's hand, in the queue or with one worker, once
and in one of them, and pending as long as it is; `WorkersFit` that whoever
forwards has no blocked query, and `OffIsIdle` that a filter that is off has
neither workers nor queries, so that a start loses none. `WorkerSteps` sorts the
steps of a worker into those that take a query, those that are done with one and
those that do neither; `WorkerFlights` sorts them by what becomes of the names in
flight. `WorkersServe` and `OutsideServes` map the steps: `Enqueue` is `Take`,
`AnswerHealth` is `AnswerAtOnce`, `DropJob`, `Close` and `Join` are `Lose`, a reply
is `Answer` or `Lose`, and all others but `Send` are stutters.

`RuleDecisionsProofs` proves, for any labels, targets, rules, subscriptions and
files, that `Spec` implies `TypeOK`, `IndexIsFresh`, `PriorityHolds` and
`DiagnosisIsTrue`. It assumes that names are sequences of labels that are not empty,
that rules have one of the kinds and actions of the tables, and that files are
finite; nothing of how many subscriptions there are, which targets are local or
what a keyword contains. `IndexIsFresh` is not inductive, as it does not say what is on
disk. `Cached` adds that a manifest and its index were made of the same rules
and settings, and that the rules stored now are those, except of subscriptions that
are unstamped or have a later stamp than the manifest; `StampsArePast`, that no
stamp is ahead of the clock. A stamp can then only move away from that of an old
manifest (`EditKeepsCached`), and equal fingerprints mean equal indexes
(`CacheIsIndex`). `FreshInv` also holds that a list the kernel has loaded since the
last edit is that of the database. What remains is about one state: `TierIs` and
`FilterBlocks` say for which rules the index blocks a name, `Least` and
`FirstExists` that a list with a match has a first one, `FirstDecides` that this one
decides and that no match is in an earlier part of the list. `OutcomeIs` puts filter
and kernel together: a target is rejected just if it is `Blocked`, and
`HighestIs` and `DiagnosisIs` say the same of the documented order and of the
diagnosis.

`MobileVpnProofs` proves, for any number of commands, imports, failures and kills,
that `Spec` implies `TypeOK`, `TunnelIsHeld`, `FilesAreUsable` and `RunningIsTrue`. `TunnelsSafe`
adds that the service lives while `startVpn` runs, that it asks for an
interface only when its field names none, and that an open interface is named by the
field or `forgotten`: so a thread of an earlier tunnel, which closes what the field
names and later sets it to null, loses an interface only where `Forget` says so.
`FilesSafe` follows an import between its two files, and `PolicySafe` a full
tunnel from the request, when its configuration is torn, to the saved policy; a
configuration is cut only when a newer one was being written. `RunningIsTrue` does not say who will still correct the status when a tunnel
is lost. `IfaceIsOpen` and `IfaceIsAttended` say that an interface the service
names is open, and that its thread carries the packets or finds out that nothing
does, unless a thread is about to close or strike it (`Breaking`); `LossIsNoticed`, that a service which
claims to run without one is being ended, or a message that ends or restarts it is
on its way.

Proved only, and not in a run: `TypeOK` of the helper, the runtime, the
subscriptions, the access log, the rules and the life cycle, `OpeningTypeOK`, `FallbackNotMixed`
and `FlagsAreExclusive`.

Model-checked only: `Answered`, `CommandsEnd`, `FlagsComeDown`, `CrashRestoresDns`, `CatchesUp`,
`StopEnds`, `QueriesEnd` and `QuitIsAnswered`: they are liveness properties, which
are out of reach of the prover. Every other property of a run is
proved, `MarkerIsTrue`, `StopIsFinal`, `RulesNotBehindRow` and `SuccessMeansCurrent` under
the conditions above.

## What the results assume

- `ps` lists every kernel the daemon has started: when `ps` itself fails,
  `cleanweb_mihomo_pids` returns nothing and a stop leaves the kernel alone.
- `cleanup_macos_mihomo_routes` knows every route a killed kernel leaves behind
  (a list of destinations in `is_macos_mihomo_auto_route_destination`), and the file
  that lists the bypass routes can be removed.
- `networksetup` does what it reports. A service whose DNS is automatic is one
  more resolver value.
- `route add` reports success only for a route it has added: whose a route is cannot
  be told from the table.
- Servers compare ETags and dates as HTTP says, and every document published has
  a later date than the one before.
- SQLite transactions are atomic and foreign keys are on (as `storage.rs` sets
  them).
- The resolver of the system answers or is given up after 750 ms; the thread that asks
  it may live on and touches nothing.
- The mutex of SQLite's connection is fair enough for a task to get it at some
  time; nothing is asked of it where only safety is claimed.
- Android behaves as described above (external part of `MobileVpn`), and a process
  that dies takes its kernel with it.
- No two lines of a log have the same text and time, so a line has one hash.

## Not modelled

- `browser_policy.rs` (managed policy files of browsers), the updater and the
  installers: sequential writes of files, no shared state.
- Parsing of share links and of lists line by line, the contents of the Mihomo
  configuration other than its rules, encryption other than which envelopes
  an opening leaves: sequential code on data, which unit tests reach.
- The manual import of proxies on the desktop (`import_proxy_payload`), which
  stores row and payload in two steps (listed among the hazards).
- iOS, for which the repository holds no code; Windows and Linux, whose
  branches take over and give back the network by other commands.

## What could follow

The manual import as operations of `SubscriptionRefresh`; `MobileVpn` with two
policies in flight.
