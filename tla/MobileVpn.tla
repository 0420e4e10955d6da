------------------------------ MODULE MobileVpn ------------------------------
(***************************************************************************)
(* Protection on Android.  The commands of the plugin and the callbacks of *)
(* CleanWebVpnService take turns on the main thread; every tunnel has a    *)
(* thread of its own, which carries DNS packets or waits for the Mihomo    *)
(* process.  Those threads report a failure and close the tunnel by the    *)
(* fields of the service, which the main thread changes meanwhile.         *)
(*                                                                         *)
(* The policy goes through Rust first: mobile_update_policy writes the     *)
(* configuration of the kernel, then the plugin loads the DNS engine and   *)
(* saves the policy for a service that the system restarts.  Both parts    *)
(* read the files that the import of a proxy subscription replaces.        *)
(*                                                                         *)
(* External: Android.  It delivers starts and stops in order, destroys a   *)
(* service some time after its last stopSelf unless it is started again,   *)
(* and restarts a sticky one whose process died.  A process takes its      *)
(* kernel with it.                                                         *)
(***************************************************************************)
EXTENDS Naturals, Sequences, SequencesExt

CONSTANTS
  MaxCommands,   \* starts, stops and policies the user asks for
  MaxImports,    \* imports of the proxy subscription
  MaxFailures,   \* failures of a device, a kernel, a system call, a save
  MaxKills       \* deaths of the process

ASSUME MobileAssumption ==
  MaxCommands \in Nat /\ MaxImports \in Nat /\ MaxFailures \in Nat /\ MaxKills \in Nat

VARIABLES
  payload, info,  \* the import each of the two files of the subscription is from
  importing,      \* the import whose payload is stored and whose info is not yet
  config,         \* config.yaml of the kernel: torn while it is written, cut when
                  \* the process has died meanwhile
  saved,          \* POLICY_JSON in the preferences
  applying,       \* the policy mobile_update_policy is working on
  engine,         \* the policy of the DNS engine
  enabled,        \* mihomoEnabled
  status,         \* running (and dataPlaneReady), stage, dataPlaneMode
  permitted,      \* VpnService.prepare has nothing to ask
  record,         \* the service as Android sees it
  queue,          \* what Android has posted to the main thread
  main,           \* how far startVpn is
  inst,           \* instances of the service created so far
  field,          \* the fields of the last one
  tunnel,         \* the tunnels established by this process
  forgotten,      \* observer: open ones a thread of another has struck from the fields
  commands, imports, failures, kills

fileVars   == <<payload, info, importing, imports>>
policyVars == <<config, saved, applying, engine, enabled>>
systemVars == <<record, queue>>
fieldVars  == <<inst, field>>
tunnelVars == <<tunnel, forgotten>>
vars == <<fileVars, policyVars, status, permitted, systemVars, main, fieldVars, tunnelVars,
          commands, failures, kills>>

Modes    == {"dns_only", "full_tunnel"}
Policies == Modes \cup {"invalid"}  \* a regular expression of the parents' that does not compile
Stages   == {"stopped", "starting", "running", "failed", "policy_failed",
             "permission_required", "permission_denied"}

None == 0
NoFields == [alive |-> FALSE, iface |-> None, loop |-> FALSE, stopping |-> TRUE, pid |-> None]
Created  == [NoFields EXCEPT !.alive = TRUE, !.stopping = FALSE]
Initially == [running |-> FALSE, stage |-> "stopped", mode |-> "dns_only"]

Tunnels == 1..Len(tunnel)

TypeOK ==
  /\ payload \in 0..MaxImports /\ info \in 0..MaxImports /\ importing \in 0..MaxImports
  /\ config \in {"absent", "torn", "cut", "whole"}
  /\ saved \in {"none"} \cup Policies /\ engine \in Modes /\ enabled \in BOOLEAN
  /\ applying \in [policy : {"none"} \cup Policies, at : {"config", "plugin"}]
  /\ status \in [running : BOOLEAN, stage : Stages, mode : Modes]
  /\ permitted \in BOOLEAN
  /\ record \in {"none", "started", "idle"}
  /\ queue \in Seq({"START", "STOP", "DESTROY", "REVOKE"})
  /\ main \in {"looper", "establish", "plane", "mark"}
  /\ inst \in Nat
  /\ field \in [alive : BOOLEAN, iface : 0..Len(tunnel), loop : BOOLEAN,
                stopping : BOOLEAN, pid : 0..Len(tunnel)]
  /\ tunnel \in Seq([inst : 1..inst, mode : Modes, open : BOOLEAN,
                     worker : {"unborn", "read", "decide", "forward", "wait", "test",
                               "clear", "report", "close", "forget", "quit", "gone"},
                     kernel : {"none", "up", "ending", "gone"}])
  /\ forgotten \subseteq Tunnels
  /\ commands \in 0..MaxCommands /\ imports \in 0..MaxImports
  /\ failures \in 0..MaxFailures /\ kills \in 0..MaxKills

Init ==
  /\ payload = 0 /\ info = 0 /\ importing = 0 /\ config = "absent"
  /\ saved = "none" /\ applying = [policy |-> "none", at |-> "config"]
  /\ engine = "dns_only" /\ enabled = FALSE
  /\ status = Initially /\ permitted \in BOOLEAN
  /\ record = "none" /\ queue = <<>> /\ main = "looper"
  /\ inst = 0 /\ field = NoFields /\ tunnel = <<>> /\ forgotten = {}
  /\ commands = 0 /\ imports = 0 /\ failures = 0 /\ kills = 0

MayFail == failures < MaxFailures /\ failures' = failures + 1

AskedFor == commands < MaxCommands /\ commands' = commands + 1

------------------------------------------------------------------------------
(* CleanWebVpnState.                                                       *)

MarkStarting == [status EXCEPT !.running = FALSE, !.stage = "starting"]
MarkRunning(m) == [running |-> TRUE, stage |-> "running", mode |-> m]
MarkStopped == [status EXCEPT !.running = FALSE, !.stage = "stopped"]
MarkFailed == [status EXCEPT !.running = FALSE, !.stage = "failed"]

------------------------------------------------------------------------------
(* Android's part.                                                         *)

Doomed == Contains(queue, "DESTROY")

\* startService, startForegroundService
Deliver(message) ==
  /\ record' = "started"
  /\ queue' = Append(queue, message)

\* stopSelf, whatever has been started since: nothing when the service is being
\* destroyed already.
EndService == record' = IF Doomed THEN record ELSE "idle"

BringDown ==
  /\ record = "idle"
  /\ record' = "none" /\ queue' = Append(queue, "DESTROY")
  /\ UNCHANGED <<fileVars, policyVars, status, permitted, main, fieldVars, tunnelVars,
                 commands, failures, kills>>

\* Another VPN takes over, or the user withdraws the permission.
Revoke ==
  /\ permitted /\ permitted' = FALSE /\ MayFail
  /\ IF field.alive /\ field.iface # None /\ ~Doomed
     THEN queue' = Append(queue, "REVOKE") ELSE UNCHANGED queue
  /\ UNCHANGED <<fileVars, policyVars, status, record, main, fieldVars, tunnelVars,
                 commands, kills>>

\* The process dies, with threads, tunnels and kernel; START_STICKY.
Kill ==
  /\ kills < MaxKills /\ kills' = kills + 1
  /\ importing' = None /\ applying' = [policy |-> "none", at |-> "config"]
  /\ engine' = "dns_only" /\ enabled' = FALSE /\ status' = Initially
  /\ queue' = IF record = "started" THEN <<"START">> ELSE <<>>
  /\ record' = IF record = "started" THEN "started" ELSE "none"
  /\ main' = "looper" /\ inst' = 0 /\ field' = NoFields
  /\ tunnel' = <<>> /\ forgotten' = {}
  /\ config' = IF config = "torn" THEN "cut" ELSE config
  /\ UNCHANGED <<payload, info, imports, saved, permitted, commands, failures>>

------------------------------------------------------------------------------
(* The plugin, on the main thread.                                         *)

StartCommand ==
  /\ main = "looper" /\ AskedFor
  /\ \/ /\ ~permitted
        /\ status' = [status EXCEPT !.stage = "permission_required"]
        /\ UNCHANGED systemVars
     \/ /\ permitted
        /\ status' = MarkStarting
        /\ Deliver("START")
  /\ UNCHANGED <<fileVars, policyVars, permitted, main, fieldVars, tunnelVars, failures, kills>>

StopCommand ==
  /\ main = "looper" /\ AskedFor
  /\ Deliver("STOP")
  /\ UNCHANGED <<fileVars, policyVars, status, permitted, main, fieldVars, tunnelVars,
                 failures, kills>>

\* prepareVpn: the system asks the user.
Prepare ==
  /\ main = "looper" /\ ~permitted
  /\ \/ permitted' = TRUE /\ UNCHANGED <<status, failures>>
     \/ /\ MayFail
        /\ status' = [status EXCEPT !.stage = "permission_denied"]
        /\ UNCHANGED permitted
  /\ UNCHANGED <<fileVars, policyVars, systemVars, main, fieldVars, tunnelVars, commands, kills>>

------------------------------------------------------------------------------
(* Files and policy, on a thread of the runtime.                           *)

\* import_mobile_proxy_payload.  Each file is written beside the old one,
\* flushed and renamed over it.
StorePayload ==
  /\ importing = None /\ imports < MaxImports
  /\ imports' = imports + 1 /\ importing' = imports' /\ payload' = imports'
  /\ UNCHANGED <<info, policyVars, status, permitted, systemVars, main, fieldVars,
                 tunnelVars, commands, failures, kills>>

StoreInfo ==
  /\ importing # None
  /\ info' = importing /\ importing' = None
  /\ UNCHANGED <<payload, imports, policyVars, status, permitted, systemVars, main,
                 fieldVars, tunnelVars, commands, failures, kills>>

\* Mutant of PreparePolicy: the policy goes on while its configuration is written.
PolicyBeforeConfig(p) ==
  /\ applying.policy = "none" /\ AskedFor
  /\ applying' = [policy |-> p, at |-> "plugin"]
  /\ \/ p # "full_tunnel" /\ UNCHANGED config
     \/ p = "full_tunnel" /\ payload # 0 /\ config' = "torn"
  /\ UNCHANGED <<fileVars, saved, engine, enabled, status, permitted, systemVars, main,
                 fieldVars, tunnelVars, failures, kills>>

\* policy_with_store_dir: a full tunnel needs proxies and a configuration, which
\* File::create empties before it is written.
PreparePolicy(p) ==
  /\ applying.policy = "none" /\ AskedFor
  /\ \/ /\ p # "full_tunnel"
        /\ applying' = [policy |-> p, at |-> "plugin"]
        /\ UNCHANGED config
     \/ /\ p = "full_tunnel" /\ payload # 0
        /\ applying' = [policy |-> p, at |-> "config"]
        /\ config' = "torn"
  /\ UNCHANGED <<fileVars, saved, engine, enabled, status, permitted, systemVars, main,
                 fieldVars, tunnelVars, failures, kills>>

WriteConfig ==
  /\ applying.policy # "none" /\ applying.at = "config"
  /\ config' = "whole" /\ applying' = [applying EXCEPT !.at = "plugin"]
  /\ UNCHANGED <<fileVars, saved, engine, enabled, status, permitted, systemVars, main,
                 fieldVars, tunnelVars, commands, failures, kills>>

\* The writing breaks off on an error.
WriteFails ==
  /\ applying.policy # "none" /\ applying.at = "config" /\ MayFail
  /\ config' = "cut" /\ applying' = [policy |-> "none", at |-> "config"]
  /\ UNCHANGED <<fileVars, saved, engine, enabled, status, permitted, systemVars, main,
                 fieldVars, tunnelVars, commands, kills>>

\* updateRuntimePolicyFields
TakeFields(m) ==
  /\ enabled' = (m = "full_tunnel")
  /\ status' = [status EXCEPT !.mode = m]

\* Mutant of SavePolicy: the engine takes what compiles and reports the rest.
SaveUnchecked(p) ==
  /\ engine' = p /\ saved' = p /\ TakeFields(p) /\ UNCHANGED failures

\* CleanWebVpnState.updatePolicy: the engine takes a policy as a whole or not at
\* all, and keeps it when the preferences cannot be written.
SavePolicy(p) ==
  \/ /\ p = "invalid"
     /\ status' = [status EXCEPT !.stage = "policy_failed"]
     /\ UNCHANGED <<saved, engine, enabled, failures>>
  \/ /\ p # "invalid" /\ engine' = p /\ saved' = p
     /\ TakeFields(p) /\ UNCHANGED failures
  \/ /\ p # "invalid" /\ engine' = p /\ MayFail
     /\ UNCHANGED <<saved, enabled, status>>

UpdatePolicy ==
  /\ main = "looper" /\ applying.policy # "none" /\ applying.at = "plugin"
  /\ SavePolicy(applying.policy)
  /\ applying' = [policy |-> "none", at |-> "config"]
  /\ UNCHANGED <<fileVars, config, permitted, systemVars, main, fieldVars, tunnelVars,
                 commands, kills>>

------------------------------------------------------------------------------
(* CleanWebVpnService, on the main thread.                                 *)

Saved == IF saved = "none" THEN "dns_only" ELSE saved

LoadPolicy ==
  /\ enabled' = (Saved = "full_tunnel")
  /\ status' = [MarkStarting EXCEPT !.mode = Saved]

\* The kernel of the pid and the interface of the fields, if there are any.
Terminated(s) == IF s = field.pid /\ tunnel[s].kernel = "up" THEN "ending" ELSE tunnel[s].kernel

Released ==
  [s \in Tunnels |-> [tunnel[s] EXCEPT !.open = @ /\ s # field.iface, !.kernel = Terminated(s)]]

\* Mutant of StopVpn: whoever reads the closed interface closes it, too.
StopVpnKeepsInterface ==
  /\ field' = [NoFields EXCEPT !.alive = TRUE]
  /\ tunnel' = [s \in Tunnels |-> [tunnel[s] EXCEPT !.kernel = Terminated(s)]]

\* stopVpn
StopVpn ==
  /\ field' = [NoFields EXCEPT !.alive = TRUE]
  /\ tunnel' = Released

\* onCreate comes with the first start.
Instance == IF field.alive THEN field ELSE Created

Born == inst' = IF field.alive THEN inst ELSE inst + 1

\* startVpn up to the request for the interface.  loadPolicy sets the fields
\* before it fails on a file of the store it cannot read.
StartBegins ==
  \/ /\ field.iface # None
     /\ status' = MarkRunning(status.mode)
     /\ UNCHANGED <<field, enabled, engine, main, record, tunnel, failures>>
  \/ /\ field.iface = None
     /\ field' = [Instance EXCEPT !.stopping = FALSE]
     /\ LoadPolicy /\ engine' = Saved
     /\ main' = "establish" /\ UNCHANGED <<record, tunnel, failures>>
  \/ /\ field.iface = None /\ MayFail
     /\ enabled' = (Saved = "full_tunnel")
     /\ status' = [MarkFailed EXCEPT !.mode = Saved]
     /\ StopVpn /\ EndService
     /\ UNCHANGED <<engine, main>>

Start ==
  /\ main = "looper" /\ queue # <<>> /\ Head(queue) = "START"
  /\ queue' = Tail(queue) /\ Born
  /\ StartBegins
  /\ UNCHANGED <<fileVars, config, saved, applying, permitted, forgotten, commands, kills>>

\* The rest of startVpn fails: the catch block.
GiveUp ==
  /\ StopVpn
  /\ status' = MarkFailed
  /\ EndService
  /\ main' = "looper"

Establish ==
  /\ main = "establish"
  /\ \/ /\ permitted
        /\ tunnel' = Append(tunnel,
             [inst |-> inst, mode |-> IF enabled THEN "full_tunnel" ELSE "dns_only",
              open |-> TRUE, worker |-> "unborn", kernel |-> "none"])
        /\ field' = [field EXCEPT !.iface = Len(tunnel')]
        /\ main' = "plane" /\ UNCHANGED <<status, record, failures>>
     \/ ~permitted /\ GiveUp /\ UNCHANGED failures
     \/ permitted /\ MayFail /\ GiveUp
  /\ UNCHANGED <<fileVars, policyVars, permitted, queue, inst, forgotten, commands, kills>>

\* startPacketLoop, startMihomo, on the interface just established; one that an
\* older thread has closed meanwhile has no descriptor for the kernel.
StartPlane ==
  LET s == field.iface IN
  /\ main = "plane" /\ s # None
  /\ \/ /\ tunnel[s].mode = "dns_only"
        /\ field' = [field EXCEPT !.loop = TRUE]
        /\ tunnel' = [tunnel EXCEPT ![s].worker = "read"]
        /\ main' = "mark" /\ UNCHANGED <<status, record, failures>>
     \/ /\ tunnel[s].mode = "full_tunnel" /\ config # "absent" /\ tunnel[s].open
        /\ field' = [field EXCEPT !.pid = s]
        /\ tunnel' = [tunnel EXCEPT ![s].worker = "wait",
                                  ![s].kernel = IF config = "whole" THEN "up" ELSE "ending"]
        /\ main' = "mark" /\ UNCHANGED <<status, record, failures>>
     \/ /\ tunnel[s].mode = "full_tunnel"
        /\ IF config = "absent" \/ ~tunnel[s].open THEN UNCHANGED failures ELSE MayFail
        /\ GiveUp
  /\ UNCHANGED <<fileVars, policyVars, permitted, queue, inst, forgotten, commands, kills>>

\* An older thread has nulled the interface meanwhile: vpnInterface!! throws.
PlaneLost ==
  /\ main = "plane" /\ field.iface = None
  /\ GiveUp
  /\ UNCHANGED <<fileVars, policyVars, permitted, queue, inst, forgotten,
                 commands, failures, kills>>

\* The mode is the one startVpn has branched on.
Mark ==
  /\ main = "mark" /\ main' = "looper"
  /\ status' = MarkRunning(IF enabled THEN "full_tunnel" ELSE "dns_only")
  /\ UNCHANGED <<fileVars, policyVars, permitted, systemVars, fieldVars, tunnelVars,
                 commands, failures, kills>>

\* ACTION_STOP, onRevoke
Stop ==
  /\ main = "looper" /\ queue # <<>> /\ Head(queue) \in {"STOP", "REVOKE"}
  /\ queue' = Tail(queue) /\ Born
  /\ StopVpn /\ status' = MarkStopped
  /\ EndService
  /\ UNCHANGED <<fileVars, policyVars, permitted, main, forgotten, commands, failures, kills>>

\* onDestroy
Destroy ==
  /\ main = "looper" /\ queue # <<>> /\ Head(queue) = "DESTROY"
  /\ queue' = Tail(queue)
  /\ field' = NoFields /\ tunnel' = Released
  /\ status' = MarkStopped
  /\ UNCHANGED <<fileVars, policyVars, permitted, record, main, inst, forgotten,
                 commands, failures, kills>>

------------------------------------------------------------------------------
(* The thread of tunnel s, with the fields of its own service.             *)

Mine(s) == tunnel[s].inst = inst /\ field.alive

Loop(s) == Mine(s) /\ field.loop

Goes(s, at) == tunnel' = [tunnel EXCEPT ![s].worker = at]

\* The packet loop reads a packet or an error, which a closed interface gives for
\* sure.
Read(s) ==
  /\ tunnel[s].worker = "read"
  /\ \/ ~Loop(s) /\ Goes(s, "gone") /\ UNCHANGED failures
     \/ Loop(s) /\ tunnel[s].open /\ Goes(s, "decide") /\ UNCHANGED failures
     \/ Loop(s) /\ ~tunnel[s].open /\ Goes(s, "test") /\ UNCHANGED failures
     \/ Loop(s) /\ tunnel[s].open /\ MayFail /\ Goes(s, "test")
  /\ UNCHANGED <<fileVars, policyVars, status, permitted, systemVars, main, fieldVars,
                 forgotten, commands, kills>>

Write(s) == Goes(s, IF tunnel[s].open THEN "read" ELSE "test")

\* handle_dns_query: the engine answers a name it blocks or maps to a safe search,
\* and leaves every other to the resolvers.
Decide(s) ==
  /\ tunnel[s].worker = "decide"
  /\ Write(s) \/ Goes(s, "forward")
  /\ UNCHANGED <<fileVars, policyVars, status, permitted, systemVars, main, fieldVars,
                 forgotten, commands, failures, kills>>

\* forwardDns comes back, at the latest when every resolver has timed out.
Forwarded(s) ==
  /\ tunnel[s].worker = "forward"
  /\ Write(s) \/ Goes(s, "read")
  /\ UNCHANGED <<fileVars, policyVars, status, permitted, systemVars, main, fieldVars,
                 forgotten, commands, failures, kills>>

\* waitMihomo returns.
Waited(s) ==
  /\ tunnel[s].worker = "wait" /\ tunnel[s].kernel = "gone"
  /\ Goes(s, "test")
  /\ UNCHANGED <<fileVars, policyVars, status, permitted, systemVars, main, fieldVars,
                 forgotten, commands, failures, kills>>

\* Nobody has asked the thread to end: its flag, or its pid, is still there.
Wanted(s) ==
  IF tunnel[s].mode = "dns_only" THEN Loop(s)
  ELSE Mine(s) /\ ~field.stopping /\ field.pid = s

Test(s) ==
  /\ tunnel[s].worker = "test"
  /\ Goes(s, IF Wanted(s) THEN "clear" ELSE "gone")
  /\ UNCHANGED <<fileVars, policyVars, status, permitted, systemVars, main, fieldVars,
                 forgotten, commands, failures, kills>>

\* The flag, or the pid, the service has by now.
Clear(s) ==
  /\ tunnel[s].worker = "clear" /\ Goes(s, "report")
  /\ field' = IF ~Mine(s) THEN field
              ELSE IF tunnel[s].mode = "dns_only" THEN [field EXCEPT !.loop = FALSE]
              ELSE [field EXCEPT !.pid = None]
  /\ UNCHANGED <<fileVars, policyVars, status, permitted, systemVars, main, inst,
                 forgotten, commands, failures, kills>>

\* waitMihomo throws, and nobody looks at the pid.
WaitFails(s) ==
  /\ tunnel[s].worker = "wait" /\ MayFail
  /\ Goes(s, IF Mine(s) /\ ~field.stopping THEN "report" ELSE "gone")
  /\ UNCHANGED <<fileVars, policyVars, status, permitted, systemVars, main, fieldVars,
                 forgotten, commands, kills>>

Report(s) ==
  /\ tunnel[s].worker = "report"
  /\ status' = MarkFailed /\ Goes(s, "close")
  /\ UNCHANGED <<fileVars, policyVars, permitted, systemVars, main, fieldVars,
                 forgotten, commands, failures, kills>>

\* vpnInterface?.close(): whatever interface the service has by now.
CloseInterface(s) ==
  /\ tunnel[s].worker = "close"
  /\ IF Mine(s)
     THEN tunnel' = [r \in Tunnels |->
            [tunnel[r] EXCEPT !.open = @ /\ r # field.iface,
                              !.worker = IF r = s THEN "forget" ELSE @]]
     ELSE Goes(s, "forget")
  /\ UNCHANGED <<fileVars, policyVars, status, permitted, systemVars, main, fieldVars,
                 forgotten, commands, failures, kills>>

\* vpnInterface = null: whatever it has by now, which may be one established since.
Forget(s) ==
  /\ tunnel[s].worker = "forget" /\ Goes(s, "quit")
  /\ IF Mine(s)
     THEN /\ field' = [field EXCEPT !.iface = None]
          /\ forgotten' = forgotten \cup {r \in Tunnels : r = field.iface /\ tunnel[r].open}
     ELSE UNCHANGED <<field, forgotten>>
  /\ UNCHANGED <<fileVars, policyVars, status, permitted, systemVars, main, inst,
                 commands, failures, kills>>

\* Mutant of Quit: the service is left to the user's next command.
QuitWithoutStop(s) ==
  /\ tunnel[s].worker = "quit" /\ Goes(s, "gone")
  /\ UNCHANGED <<fileVars, policyVars, status, permitted, systemVars, main, fieldVars,
                 forgotten, commands, failures, kills>>

Quit(s) ==
  /\ tunnel[s].worker = "quit" /\ Goes(s, "gone")
  /\ IF Mine(s) THEN EndService ELSE UNCHANGED record
  /\ UNCHANGED <<fileVars, policyVars, status, permitted, queue, main, fieldVars,
                 forgotten, commands, failures, kills>>

\* The kernel exits: by itself, on a configuration it cannot use, or when told to.
KernelExits(s) ==
  /\ \/ tunnel[s].kernel = "up" /\ MayFail
     \/ tunnel[s].kernel = "ending" /\ UNCHANGED failures
  /\ tunnel' = [tunnel EXCEPT ![s].kernel = "gone"]
  /\ UNCHANGED <<fileVars, policyVars, status, permitted, systemVars, main, fieldVars,
                 forgotten, commands, kills>>

------------------------------------------------------------------------------
Looper == Start \/ Establish \/ StartPlane \/ PlaneLost \/ Mark \/ Stop \/ Destroy

Worker(s) ==
  \/ Read(s) \/ Decide(s) \/ Forwarded(s) \/ Waited(s)
  \/ WaitFails(s) \/ Test(s) \/ Clear(s) \/ Report(s)
  \/ CloseInterface(s) \/ Forget(s) \/ Quit(s)

Next ==
  \/ StartCommand \/ StopCommand \/ Prepare
  \/ StorePayload \/ StoreInfo
  \/ \E p \in Policies : PreparePolicy(p)
  \/ WriteConfig \/ WriteFails \/ UpdatePolicy
  \/ Looper
  \/ \E s \in Tunnels : Worker(s) \/ KernelExits(s)
  \/ BringDown \/ Revoke \/ Kill

Spec == Init /\ [][Next]_vars

------------------------------------------------------------------------------
(* Properties.                                                             *)

\* Somebody still has to act: the main thread, Android, or a thread that is about
\* to find its tunnel broken.
Pending ==
  \/ main # "looper" \/ queue # <<>> \/ record = "idle"
  \/ \E s \in Tunnels :
       \/ tunnel[s].worker \in {"test", "clear", "report", "close", "forget", "quit"}
       \/ tunnel[s].worker \in {"read", "decide", "forward"} /\ Loop(s) /\ ~tunnel[s].open
       \/ tunnel[s].worker = "wait" /\ tunnel[s].kernel \in {"ending", "gone"}

Carries(s) ==
  /\ tunnel[s].open
  /\ \/ tunnel[s].worker \in {"read", "decide", "forward"} /\ Loop(s)
     \/ tunnel[s].worker = "wait" /\ tunnel[s].kernel = "up"

\* CleanWeb does not claim protection it does not give: when the status says
\* running and nobody has anything left to do, the tunnel of the service is open
\* and something carries its packets (markRunning; the threads' failure paths).
RunningIsTrue ==
  status.running /\ ~Pending => field.alive /\ field.iface # None /\ Carries(field.iface)

\* An interface that is open is the one the service will close, whoever stops it,
\* whatever starts, stops and failures come before (stopVpn, the threads' failure
\* paths) - except one a thread has struck from the fields after it had closed
\* another: StopLeavesNothing.
TunnelIsHeld ==
  \A s \in Tunnels : tunnel[s].open /\ s \notin forgotten => field.alive /\ field.iface = s

Rewriting == applying.policy = "full_tunnel" /\ applying.at = "config"

\* Whenever the process dies, the saved policy is one the engine has accepted, no
\* summary of proxies is without their payload, and a full tunnel is saved only
\* with a configuration that is whole, is being replaced, or was cut short by an
\* error or a death while it was replaced: BundleIsWhole (updatePolicy,
\* policy_with_store_dir, import_mobile_proxy_payload).
FilesAreUsable ==
  /\ saved # "invalid"
  /\ saved = "full_tunnel" => config \in {"whole", "cut"} \/ Rewriting
  /\ payload >= info

(* What the code does not keep; see the README.                            *)

\* docs/platforms/android.md: "report running, starting, failed, and
\* permission-denied states".  A failure is reported until the user asks for
\* something else.
FailureStaysReported ==
  [][status.stage = "failed" /\ status'.stage = "stopped"
       => kills' # kills \/ Head(queue) = "STOP"]_vars

\* docs/platforms/android.md: without a network proxy Android reports dns_only,
\* with one it starts Mihomo and reports full_tunnel.
ModeIsTrue ==
  status.running /\ ~Pending /\ field.iface # None => status.mode = tunnel[field.iface].mode

\* docs/platforms/android.md: "stop protection and restore network state".  When a
\* service has ended and nobody has anything left to do, no interface is open and
\* no kernel is left on its own.
StopLeavesNothing ==
  record = "none" /\ ~Pending => \A s \in Tunnels : ~tunnel[s].open /\ tunnel[s].kernel # "up"

\* docs/platforms/android.md: "start protection with a validated CleanWeb
\* policy/config bundle".  The full tunnel the system restarts has a configuration
\* a kernel can use, unless it is just being replaced.
BundleIsWhole == saved = "full_tunnel" => config # "cut"

\* docs/platforms/android.md: "restart protection after policy changes".  The
\* thread of an old tunnel does not take a new one down.
OldThreadsAreHarmless ==
  [][\A s \in Tunnels :
       tunnel[s].worker = "close" /\ s \in DOMAIN tunnel' /\ tunnel'[s].worker = "forget"
       => \A r \in Tunnels \ {s} : tunnel'[r].open = tunnel[r].open]_vars
=============================================================================
