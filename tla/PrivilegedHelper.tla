--------------------------- MODULE PrivilegedHelper ---------------------------
(***************************************************************************)
(* The root daemon of the macOS application (platform.rs): it serves one   *)
(* client at a time, starts and stops the Mihomo kernel and, around it,    *)
(* takes over the system DNS settings and installs host routes that keep   *)
(* upstream traffic out of the tunnel.  launchd restarts it when it dies;  *)
(* what survives is on disk (the DNS backup, the list of bypass routes)    *)
(* and in the system (settings, routes, the kernel process).               *)
(*                                                                         *)
(* One action is one command the daemon runs or one file it writes; users, *)
(* networks and the kernel move between any two of them.                   *)
(***************************************************************************)
EXTENDS Naturals, FiniteSets

CONSTANTS
  Services,    \* network services, as networksetup names them
  Hotplug,     \* the services that appear and disappear while the daemon runs
  Resolvers,   \* DNS settings of users and networks
  CleanWeb,    \* CLEANWEB_DNS_SERVER, 127.0.0.1
  Absent,      \* a service a backup says nothing about
  Contested,   \* see the variable orig
  Addresses,   \* upstream, proxy and VPN addresses that need a bypass route
  MaxEdits,    \* bound: changes by users and networks
  MaxCrashes   \* bound: crashes of the daemon

ASSUME ServicesAssumption == Hotplug \subseteq Services
ASSUME SettingsAssumption ==
  /\ CleanWeb \notin Resolvers
  /\ Absent \notin Resolvers \cup {CleanWeb}
  /\ Contested \notin Resolvers \cup {CleanWeb, Absent}
ASSUME BoundsAssumption == MaxEdits \in Nat /\ MaxCrashes \in Nat

VARIABLES
  dns,         \* DNS setting of every service
  present,     \* services networksetup lists
  file,        \* DNS_BACKUP_FILE: "none", "torn" or "valid"
  saved,       \* its contents
  routes,      \* host routes installed by the daemon
  routesFile,  \* DNS_BYPASS_ROUTES_FILE: the recorded routes, {} if no file
  kernel,      \* a Mihomo process is alive
  child,       \* ... and this incarnation of the daemon is its parent
  tunRoutes,   \* routes of the tunnel are in the routing table
  pc,          \* where the daemon is in the request it serves
  req,         \* the request: "Start" or "Stop"
  todo,        \* services the current loop still has to visit
  acc,         \* settings collected so far for the backup
  added,       \* routes added but not recorded yet
  slow,        \* helper_stop_mihomo waited out its two seconds
  reply,       \* the last answer: "none", "refused", "ok", "err" or "lost"
  orig,        \* observer: the setting a service is due (see below)
  lost,        \* observer: host routes whose deletion or recording went wrong
  uncleaned,   \* observer: the last removal of the routes of the tunnel failed
  edits, crashes

diskVars   == <<file, saved, routesFile>>
systemVars == <<dns, present, routes, kernel, child, tunRoutes>>
localVars  == <<pc, req, todo, acc, added, slow, reply>>
vars == <<diskVars, systemVars, localVars, orig, lost, uncleaned, edits, crashes>>

Stable == Services \ Hotplug
Settings == Resolvers \cup {CleanWeb}
NothingSaved == [s \in Services |-> Absent]

\* A takeover is under way from the first setting collected until the backup
\* is removed.  orig[s] is the setting that users and networks gave s outside
\* a takeover; a change made during one is Contested, nothing is promised
\* about it.
TakeoverUnderWay == file # "none" \/ pc \in {"collect", "save"}

Locations ==
  {"idle", "terminate", "open", "restore", "unroute", "prepare", "bypass",
   "record", "spawn", "decide", "collect", "save", "list", "take", "abandon"}

TypeOK ==
  /\ dns \in [Services -> Settings]
  /\ present \subseteq Services
  /\ file \in {"none", "torn", "valid"}
  /\ saved \in [Services -> Settings \cup {Absent}]
  /\ routes \subseteq Addresses
  /\ routesFile \subseteq Addresses
  /\ kernel \in BOOLEAN
  /\ child \in BOOLEAN
  /\ tunRoutes \in BOOLEAN
  /\ pc \in Locations
  /\ req \in {"Start", "Stop"}
  /\ todo \subseteq Services
  /\ acc \in [Services -> Settings \cup {Absent}]
  /\ added \subseteq Addresses
  /\ slow \in BOOLEAN
  /\ reply \in {"none", "refused", "ok", "err", "lost"}
  /\ orig \in [Services -> Resolvers \cup {Contested}]
  /\ lost \subseteq Addresses
  /\ uncleaned \in BOOLEAN
  /\ edits \in Nat
  /\ crashes \in Nat

Init ==
  /\ dns \in [Services -> Resolvers]
  /\ present \in {Stable, Services}
  /\ file = "none" /\ saved = NothingSaved
  /\ routes = {} /\ routesFile = {}
  /\ kernel = FALSE /\ child = FALSE /\ tunRoutes = FALSE
  /\ pc = "idle" /\ req = "Stop" /\ todo = {} /\ acc = NothingSaved
  /\ added = {} /\ slow = FALSE /\ reply = "none"
  /\ orig = dns /\ lost = {} /\ uncleaned = FALSE
  /\ edits = 0 /\ crashes = 0

-----------------------------------------------------------------------------
(* Control.                                                                *)

GoTo(loc) == pc' = loc /\ UNCHANGED <<req, todo, acc, added, slow, reply>>

\* The request is answered and the loop accepts the next client.
Answer(r) ==
  /\ pc' = "idle" /\ reply' = r
  /\ todo' = {} /\ acc' = NothingSaved /\ added' = {} /\ slow' = FALSE
  /\ UNCHANGED req

Observers == <<orig, lost, uncleaned, edits, crashes>>

\* handle_helper_client: Ping and Version change nothing and are left out.
\* Start and Stop both begin by stopping the kernel, once they are accepted.
Accept(r) ==
  /\ pc = "idle"
  /\ pc' = "terminate" /\ req' = r /\ reply' = "none"
  /\ UNCHANGED <<todo, acc, added, slow>>
  /\ UNCHANGED <<diskVars, systemVars, Observers>>

\* The caller is not the user at the console, or what it wants started is not a
\* binary and a configuration of that user: the answer is an error, and
\* whatever runs goes on running.
Refuse(r) ==
  /\ pc = "idle"
  /\ req' = r /\ reply' = "refused"
  /\ UNCHANGED <<pc, todo, acc, added, slow>>
  /\ UNCHANGED <<diskVars, systemVars, Observers>>

-----------------------------------------------------------------------------
(* helper_stop_mihomo.                                                     *)

\* SIGTERM, and within two seconds nothing is left (or there was nothing).  A
\* kernel that exits by itself removes the routes of its tunnel.  This path is
\* closed for a child: `mem::forget(child)` leaves it unreaped, and the zombie
\* still answers kill(pid, 0), which is how pid_running tells the living.
KernelTerminates ==
  /\ pc = "terminate"
  /\ kernel => ~child
  /\ kernel' = FALSE
  /\ tunRoutes' = (tunRoutes /\ ~kernel)
  /\ GoTo("open")
  /\ UNCHANGED <<diskVars, dns, present, routes, child, Observers>>

\* The two seconds pass, a process that still runs gets SIGKILL; killed that
\* way it leaves the routes of the tunnel behind.
KernelIsKilled ==
  /\ pc = "terminate" /\ kernel
  /\ kernel' = FALSE
  /\ tunRoutes' \in {FALSE, tunRoutes}
  /\ pc' = "open" /\ slow' = TRUE
  /\ UNCHANGED <<req, todo, acc, added, reply>>
  /\ UNCHANGED <<diskVars, dns, present, routes, child, Observers>>

\* Mutant: a backup that cannot be parsed counts as no backup.
OpenBackupLeniently ==
  /\ pc = "open"
  /\ IF file # "valid"
     THEN GoTo("unroute")
     ELSE /\ pc' = "restore"
          /\ todo' = {s \in Services : saved[s] # Absent}
          /\ UNCHANGED <<req, acc, added, slow, reply>>
  /\ UNCHANGED <<diskVars, systemVars, Observers>>

\* restore_macos_dns reads the backup: none is a success, a torn one is an
\* error that also ends helper_stop_mihomo and helper_start_mihomo.
OpenBackup ==
  /\ pc = "open"
  /\ \/ file = "none" /\ GoTo("unroute")
     \/ file = "torn" /\ Answer("err")
     \/ /\ file = "valid"
        /\ pc' = "restore"
        /\ todo' = {s \in Services : saved[s] # Absent}
        /\ UNCHANGED <<req, acc, added, slow, reply>>
  /\ UNCHANGED <<diskVars, systemVars, Observers>>

\* networksetup -setdnsservers with the recorded setting, service by service.
RestoreService(s) ==
  /\ pc = "restore" /\ s \in todo /\ s \in present
  /\ dns' = [dns EXCEPT ![s] = saved[s]]
  /\ todo' = todo \ {s}
  /\ UNCHANGED <<pc, req, acc, added, slow, reply>>
  /\ UNCHANGED <<diskVars, present, routes, kernel, child, tunRoutes, Observers>>

\* Mutant: the services that cannot be restored are given up.
RestoreFailsSilently ==
  /\ pc = "restore"
  /\ file' = "none" /\ saved' = NothingSaved
  /\ GoTo("unroute")
  /\ UNCHANGED <<routesFile, systemVars, Observers>>

\* Mutant: the restoration is tried again until it succeeds.
RestoreFailsAndRetries ==
  /\ pc = "restore"
  /\ GoTo("open")
  /\ UNCHANGED <<diskVars, systemVars, Observers>>

\* A command fails (always so for a service that is no longer there), or the
\* backup cannot be removed: it stays and the rest of the stop is skipped.
RestoreFails ==
  /\ pc = "restore"
  /\ Answer("err")
  /\ UNCHANGED <<diskVars, systemVars, Observers>>

RemoveBackup ==
  /\ pc = "restore" /\ todo = {}
  /\ file' = "none" /\ saved' = NothingSaved
  /\ GoTo("unroute")
  /\ UNCHANGED <<routesFile, systemVars, Observers>>

\* cleanup_dns_upstream_bypass_routes: delete what the file lists, and the file,
\* whether the deletions succeed or not: those in left do not.
CleanupBypass(left) ==
  /\ routes' = routes \ (routesFile \ left) /\ routesFile' = {}
  /\ lost' = lost \cup left

\* The end of helper_stop_mihomo: only the path that had to kill the kernel
\* removes the bypass routes; both remove the routes of the tunnel, and both
\* are content when netstat or a deletion fails.
RemoveRoutes ==
  /\ pc = "unroute"
  /\ IF slow THEN \E left \in SUBSET (routes \cap routesFile) : CleanupBypass(left)
             ELSE UNCHANGED <<routes, routesFile, lost>>
  /\ uncleaned' \in BOOLEAN
  /\ tunRoutes' = (tunRoutes /\ uncleaned')
  /\ IF req = "Stop" THEN Answer("ok") ELSE GoTo("prepare")
  /\ UNCHANGED <<file, saved, dns, present, kernel, child, orig, edits, crashes>>

-----------------------------------------------------------------------------
(* helper_start_mihomo, after the stop.                                    *)

\* Install binary, config and log file; any of these may fail.
PrepareFiles ==
  /\ pc = "prepare"
  /\ GoTo("bypass") \/ Answer("err")
  /\ UNCHANGED <<diskVars, systemVars, Observers>>

\* install_dns_upstream_bypass_routes: drop the routes of an earlier start,
\* then add one per address.  `route add` fails for an address that has a
\* host route already, whoever installed it, or for reasons of its own;
\* without a gateway or addresses nothing is added.
AddBypassRoutes ==
  /\ pc = "bypass"
  /\ \E left \in SUBSET (routes \cap routesFile) :
       LET kept == routes \ (routesFile \ left)
       IN  \E new \in SUBSET (Addresses \ kept) :
             /\ routes' = kept \cup new /\ added' = new
             /\ lost' = lost \cup left
             /\ pc' = IF new = {} THEN "spawn" ELSE "record"
  /\ routesFile' = {}
  /\ UNCHANGED <<req, todo, acc, slow, reply>>
  /\ UNCHANGED <<file, saved, dns, present, kernel, child, tunRoutes,
                 orig, uncleaned, edits, crashes>>

RecordBypassRoutes ==
  /\ pc = "record"
  /\ routesFile' = added /\ added' = {} /\ pc' = "spawn"
  /\ UNCHANGED <<req, todo, acc, slow, reply>>
  /\ UNCHANGED <<file, saved, systemVars, Observers>>

\* Mutant of BypassFails: no cleanup follows.
BypassFailsOnly ==
  /\ pc \in {"bypass", "record"} /\ Answer("err")
  /\ UNCHANGED <<diskVars, systemVars, Observers>>

\* The config cannot be read, or the routes cannot be recorded: a cleanup
\* follows, which finds what was written, an unreadable file or none.
BypassFails ==
  /\ \/ /\ pc = "bypass"
        /\ \E left \in SUBSET (routes \cap routesFile) : CleanupBypass(left)
     \/ /\ pc = "record"
        /\ \E left \in SUBSET added :
             routes' = routes \ (added \ left) /\ lost' = lost \cup left
        /\ routesFile' = {}
  /\ Answer("err")
  /\ UNCHANGED <<file, saved, dns, present, kernel, child, tunRoutes,
                 orig, uncleaned, edits, crashes>>

SpawnKernel ==
  /\ pc = "spawn"
  /\ kernel' = TRUE /\ child' = TRUE
  /\ GoTo("decide")
  /\ UNCHANGED <<diskVars, dns, present, routes, tunRoutes, Observers>>

\* `map_err(..)?` on spawn: the bypass routes stay.
SpawnFails ==
  /\ pc = "spawn"
  /\ Answer("err")
  /\ UNCHANGED <<diskVars, systemVars, Observers>>

\* Another VPN holds routes: the system DNS is left alone.
PreserveDns ==
  /\ pc = "decide"
  /\ Answer("ok")
  /\ UNCHANGED <<diskVars, systemVars, Observers>>

\* Mutant: the settings are changed without a backup.
BeginTakeoverUnsaved ==
  /\ pc = "decide"
  /\ GoTo("list")
  /\ UNCHANGED <<diskVars, systemVars, Observers>>

\* backup_and_set_macos_dns: collect a backup unless there is one.
BeginTakeover ==
  /\ pc = "decide"
  /\ IF file # "none"
     THEN GoTo("list")
     ELSE /\ pc' = "collect" /\ todo' = present
          /\ UNCHANGED <<req, acc, added, slow, reply>>
  /\ UNCHANGED <<diskVars, systemVars, Observers>>

\* collect_macos_dns_backup: networksetup -getdnsservers, service by service.
CollectService(s) ==
  /\ pc = "collect" /\ s \in todo /\ s \in present
  /\ acc' = [acc EXCEPT ![s] = dns[s]]
  /\ todo' = todo \ {s}
  /\ UNCHANGED <<pc, req, added, slow, reply>>
  /\ UNCHANGED <<diskVars, systemVars, Observers>>

CollectDone ==
  /\ pc = "collect" /\ todo = {}
  /\ GoTo("save")
  /\ UNCHANGED <<diskVars, systemVars, Observers>>

WriteBackup ==
  /\ pc = "save"
  /\ file' = "valid" /\ saved' = acc
  /\ GoTo("list")
  /\ UNCHANGED <<routesFile, systemVars, Observers>>

\* list_macos_network_services again, for the settings to change.
ListServices ==
  /\ pc = "list"
  /\ pc' = "take" /\ todo' = present
  /\ UNCHANGED <<req, acc, added, slow, reply>>
  /\ UNCHANGED <<diskVars, systemVars, Observers>>

TakeService(s) ==
  /\ pc = "take" /\ s \in todo /\ s \in present
  /\ dns' = [dns EXCEPT ![s] = CleanWeb]
  /\ todo' = todo \ {s}
  /\ UNCHANGED <<pc, req, acc, added, slow, reply>>
  /\ UNCHANGED <<diskVars, present, routes, kernel, child, tunRoutes, Observers>>

TakeoverDone ==
  /\ pc = "take" /\ todo = {}
  /\ Answer("ok")
  /\ UNCHANGED <<diskVars, systemVars, Observers>>

\* A networksetup command fails, or the backup cannot be written (fs::write
\* truncates before it writes) or protected.
TakeoverFails ==
  /\ \/ pc \in {"collect", "take"} /\ todo # {} /\ UNCHANGED <<file, saved>>
     \/ pc = "list" /\ UNCHANGED <<file, saved>>
     \/ pc = "save" /\ file' \in {"none", "torn"} /\ UNCHANGED saved
     \/ pc = "save" /\ file' = "valid" /\ saved' = acc
  /\ GoTo("abandon")
  /\ UNCHANGED <<routesFile, systemVars, Observers>>

\* Mutant: the child is forgotten instead of killed.
AbandonStartOnly ==
  /\ pc = "abandon"
  /\ \E left \in SUBSET (routes \cap routesFile) : CleanupBypass(left)
  /\ Answer("err")
  /\ UNCHANGED <<file, saved, dns, present, kernel, child, tunRoutes,
                 orig, uncleaned, edits, crashes>>

\* Kill the child and remove the bypass routes; settings changed so far stay.
AbandonStart ==
  /\ pc = "abandon"
  /\ kernel' = FALSE
  /\ \E left \in SUBSET (routes \cap routesFile) : CleanupBypass(left)
  /\ Answer("err")
  /\ UNCHANGED <<file, saved, dns, present, child, tunRoutes,
                 orig, uncleaned, edits, crashes>>

-----------------------------------------------------------------------------
(* The world around the daemon.                                            *)

\* The daemon dies, at any moment, and launchd starts it again: the client in
\* service gets no answer, a backup being written may be torn, recorded routes
\* may be deleted in part, added ones not be recorded yet, and a kernel that
\* survives is nobody's child.
Crash ==
  /\ crashes < MaxCrashes
  /\ crashes' = crashes + 1
  /\ Answer(IF pc = "idle" THEN reply ELSE "lost")
  /\ IF pc = "save" THEN file' \in {"none", "torn"} ELSE UNCHANGED file
  /\ IF pc \in {"unroute", "bypass", "abandon"}
     THEN \E gone \in SUBSET routesFile : routes' = routes \ gone
     ELSE UNCHANGED routes
  /\ lost' = lost \cup added
  /\ child' = FALSE
  /\ UNCHANGED <<saved, routesFile, dns, present, kernel, tunRoutes, orig, uncleaned, edits>>

KernelBringsTunnelUp ==
  /\ kernel /\ ~tunRoutes
  /\ tunRoutes' = TRUE
  /\ UNCHANGED <<diskVars, dns, present, routes, kernel, child, localVars, Observers>>

KernelDies ==
  /\ kernel
  /\ kernel' = FALSE
  /\ UNCHANGED <<diskVars, dns, present, routes, child, tunRoutes, localVars, Observers>>

\* A user or a network changes the setting of a service.
EditSetting(s) ==
  /\ edits < MaxEdits /\ s \in present
  /\ edits' = edits + 1
  /\ \E r \in Resolvers \ {dns[s]} :
       /\ dns' = [dns EXCEPT ![s] = r]
       /\ orig' = [orig EXCEPT ![s] = IF TakeoverUnderWay THEN Contested ELSE r]
  /\ UNCHANGED <<diskVars, present, routes, kernel, child, tunRoutes, localVars, lost, uncleaned, crashes>>

\* A service is created with a setting of its own, or removed.
PlugService(s) ==
  /\ edits < MaxEdits /\ s \in Hotplug \ present
  /\ edits' = edits + 1
  /\ present' = present \cup {s}
  /\ \E r \in Resolvers :
       dns' = [dns EXCEPT ![s] = r] /\ orig' = [orig EXCEPT ![s] = r]
  /\ UNCHANGED <<diskVars, routes, kernel, child, tunRoutes, localVars, lost, uncleaned, crashes>>

UnplugService(s) ==
  /\ edits < MaxEdits /\ s \in Hotplug \cap present
  /\ edits' = edits + 1
  /\ present' = present \ {s}
  /\ UNCHANGED <<diskVars, dns, routes, kernel, child, tunRoutes, localVars, orig, lost, uncleaned, crashes>>

-----------------------------------------------------------------------------
Stopping ==
  \/ KernelTerminates \/ KernelIsKilled \/ OpenBackup
  \/ \E s \in Services : RestoreService(s)
  \/ RestoreFails \/ RemoveBackup \/ RemoveRoutes

Starting ==
  \/ PrepareFiles \/ AddBypassRoutes \/ RecordBypassRoutes \/ BypassFails
  \/ SpawnKernel \/ SpawnFails \/ PreserveDns \/ BeginTakeover
  \/ \E s \in Services : CollectService(s)
  \/ CollectDone \/ WriteBackup \/ ListServices
  \/ \E s \in Services : TakeService(s)
  \/ TakeoverDone \/ TakeoverFails \/ AbandonStart

Environment ==
  \/ Crash \/ KernelBringsTunnelUp \/ KernelDies
  \/ \E s \in Services : EditSetting(s) \/ PlugService(s) \/ UnplugService(s)

Daemon == Stopping \/ Starting

Next ==
  \/ \E r \in {"Start", "Stop"} : Accept(r) \/ Refuse(r)
  \/ Daemon
  \/ Environment

Spec == Init /\ [][Next]_vars

\* The daemon is a running process: it does not stall inside a request.
\* Clients, users and crashes owe nothing.
FairSpec == Spec /\ WF_vars(Daemon)

-----------------------------------------------------------------------------
(* Properties.                                                             *)

\* Whatever fails, crashes or is changed in between, a service CleanWeb has
\* taken over can be given back: its setting is on record, the record is the
\* setting the user or the network last chose outside a takeover, and it is
\* never CleanWeb's own address (backup_and_set_macos_dns, restore_macos_dns).
OriginalsKept ==
  \A s \in Stable :
    /\ dns[s] = CleanWeb => file = "valid" /\ saved[s] \in Resolvers
    /\ orig[s] # Contested => orig[s] = IF dns[s] = CleanWeb THEN saved[s] ELSE dns[s]

\* A stop that reports success has undone the takeover for good, also after a
\* start that failed half-way or a daemon that died in one: no kernel, no
\* backup, no stable service at CleanWeb, and no route of the tunnel unless
\* the commands that remove them failed in that very stop, which it does not
\* report (helper_stop_mihomo; hot-plugged services: see NoServiceLeftBehind).
StopRestoresNetwork ==
  pc = "idle" /\ req = "Stop" /\ reply = "ok" =>
    /\ ~kernel
    /\ tunRoutes => uncleaned
    /\ file = "none"
    /\ \A s \in Stable : dns[s] # CleanWeb

\* A request that fails after it was accepted leaves no kernel running, neither
\* the one it found nor the one it started, so that the client need not clean
\* up after it (the error paths of helper_stop_mihomo and helper_start_mihomo).
\* A request that is refused says nothing about the kernel.
FailedRequestLeavesNoKernel ==
  pc = "idle" /\ reply = "err" => ~kernel

\* The daemon can find every host route it has installed, over any number of
\* starts with other addresses, of failures and of deaths: it is on record, or
\* about to be, unless the very command that deletes or records it went wrong
\* (install_dns_upstream_bypass_routes, cleanup_dns_upstream_bypass_routes).
RoutesOnRecord == routes \subseteq routesFile \cup added \cup lost

\* Every request is answered, or the daemon dies: it never waits for a
\* service that does not come back (handle_helper_client).
Answered == pc # "idle" ~> pc = "idle"

\* The daemon does with the settings only what NetworkTakeover allows.
Takeover == INSTANCE NetworkTakeover
ImplementsTakeover == Takeover!Spec

\* product-spec.md: after a stop no wrong DNS setting stays behind.  A service
\* that appears between the two listings of backup_and_set_macos_dns is taken
\* over without being in the backup.
NoServiceLeftBehind ==
  pc = "idle" /\ req = "Stop" /\ reply = "ok" =>
    \A s \in present : dns[s] # CleanWeb
=============================================================================
