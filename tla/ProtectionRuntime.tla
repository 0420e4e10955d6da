--------------------------- MODULE ProtectionRuntime ---------------------------
(***************************************************************************)
(* The desktop application's side of protection on macOS (mihomo.rs, with  *)
(* the life cycle of the DNS filter in dns_filter.rs): starting, stopping, *)
(* reloading and recovering the Mihomo kernel and the DNS filter, and      *)
(* get_core_status, which looks at both and cleans up what is half gone.   *)
(*                                                                         *)
(* Commands run on threads of a pool and interleave between any two        *)
(* accesses to the state they share: flags, files, the filter, the kernel. *)
(* A request to the privileged helper is one action here: the helper       *)
(* serves one client at a time (PrivilegedHelper says how).                *)
(***************************************************************************)
EXTENDS Naturals, FiniteSets

CONSTANTS
  Workers,      \* threads of the pool that run commands
  Main,         \* the main thread: get_core_status, called by the UI timer
  Failures,     \* the steps that may fail (see FailureKinds)
  MaxRequests,  \* bound: commands issued
  MaxExits,     \* bound: kernels that exit by themselves
  MaxCrashes,   \* bound: crashes of the application
  MaxPolicy     \* bound: versions of settings and rules

FailureKinds == {"build", "helperStart", "helperStop", "filter", "kill"}

ASSUME ThreadsAssumption == Main \notin Workers /\ IsFiniteSet(Workers)
ASSUME FailuresAssumption == Failures \subseteq FailureKinds
ASSUME BoundsAssumption ==
  /\ MaxRequests \in Nat /\ MaxExits \in Nat
  /\ MaxCrashes \in Nat /\ MaxPolicy \in Nat \ {0}

VARIABLES
  startFlag,    \* protection_start_in_progress
  reloadFlag,   \* reload_in_progress
  failures,     \* protection_health_failures
  handle,       \* state.dns_filter is Some
  filter,       \* the filter thread runs and holds port 53
  pidFile,      \* mihomo.pid, NoPid if there is none
  marker,       \* active-config: the PID and configuration recorded, or None
  configFile,   \* config.yaml: the version of the policy it was built from
  kernel,       \* the kernel process and the configuration it read, or None
  ready,        \* the kernel log says the TUN device is up
  dnsTaken,     \* the system DNS points at CleanWeb
  policy,       \* version of the settings and rules in the database
  enabled,      \* setting protection_enabled
  thread,       \* what every thread is doing
  stopped,      \* observer: "asked" since a stop was requested, "done" since it
                \* succeeded, "no" since anything else was requested
  launched, requests, exits, crashes

flagVars    == <<startFlag, reloadFlag>>
filterVars  == <<handle, filter>>
fileVars    == <<pidFile, marker, configFile>>
kernelVars  == <<kernel, ready, dnsTaken, launched>>
databaseVars == <<policy, enabled>>
boundVars   == <<requests, exits, crashes>>
vars == <<flagVars, filterVars, fileVars, kernelVars, databaseVars, failures,
          thread, stopped, boundVars>>

Threads == Workers \cup {Main}
NoPid == 0
None == [pid |-> NoPid, conf |-> 0]
Running == kernel # None
HealthFailureLimit == 3   \* PROTECTION_HEALTH_FAILURE_LIMIT

Operations == {"Start", "Auto", "Stop", "Reload", "Recover", "Poll"}
Locations ==
  {"idle", "wait", "claim", "look", "check", "recoverFilter", "recoverHelper",
   "recoverFiles", "return", "plan", "validate", "stopFilter", "stopHelper",
   "stopFiles", "build", "write", "helper", "filterStop", "filterBind",
   "filterStore", "pidFile", "tun", "mark", "abortLaunch", "abortKill",
   "abortFilter", "abortFiles", "release", "save"}

\* A thread: its place, its operation, the PID and configuration of the kernel
\* it started, the PID it saw last, whether all went well, the flag it holds,
\* whether its operation has done its work ("after") or not.
Idle == [pc |-> "idle", op |-> "Poll", pid |-> NoPid, conf |-> 0, seen |-> NoPid,
         ok |-> FALSE, holds |-> "none", after |-> FALSE]

Kernels == [pid : Nat, conf : Nat]
ThreadStates ==
  [pc : Locations, op : Operations, pid : Nat, conf : Nat, seen : Nat,
   ok : BOOLEAN, holds : {"none", "start", "reload"}, after : BOOLEAN]

TypeOK ==
  /\ startFlag \in BOOLEAN /\ reloadFlag \in BOOLEAN
  /\ failures \in 0..HealthFailureLimit
  /\ handle \in BOOLEAN /\ filter \in BOOLEAN
  /\ pidFile \in Nat /\ marker \in Kernels /\ configFile \in Nat
  /\ kernel \in Kernels /\ ready \in BOOLEAN /\ dnsTaken \in BOOLEAN
  /\ launched \in Nat
  /\ policy \in Nat /\ enabled \in BOOLEAN
  /\ thread \in [Threads -> ThreadStates]
  /\ stopped \in {"no", "asked", "done"}
  /\ requests \in Nat /\ exits \in Nat /\ crashes \in Nat

Init ==
  /\ startFlag = FALSE /\ reloadFlag = FALSE /\ failures = 0
  /\ handle = FALSE /\ filter = FALSE
  /\ pidFile = NoPid /\ marker = None /\ configFile = 0
  /\ kernel = None /\ ready = FALSE /\ dnsTaken = FALSE /\ launched = 0
  /\ policy = 1 /\ enabled \in BOOLEAN
  /\ thread = [t \in Threads |-> Idle]
  /\ stopped = "no"
  /\ requests = 0 /\ exits = 0 /\ crashes = 0

-----------------------------------------------------------------------------
(* Control.                                                                *)

At(t, loc) == thread[t].pc = loc
GoTo(t, loc) == thread' = [thread EXCEPT ![t].pc = loc]
MayFail(kind) == kind \in Failures

\* A request to stop ends in an error: refused before anything was stopped, with
\* the DNS not given back, or with the answer lost.
HelperFailsToStop ==
  /\ MayFail("helperStop")
  /\ \/ UNCHANGED <<kernel, dnsTaken>>
     \/ kernel' = None /\ dnsTaken' \in {dnsTaken, FALSE}

\* Mutant of Fail: the flag stays up.
FailUnderFlag(t) == thread' = [thread EXCEPT ![t] = Idle]

\* start_inner or stop_child returns an error: a command that holds a flag
\* gives it back, stop_protection just returns.
Fail(t) ==
  thread' = IF thread[t].holds = "none"
            THEN [thread EXCEPT ![t] = Idle]
            ELSE [thread EXCEPT ![t] = [Idle EXCEPT !.pc = "release",
                    !.op = thread[t].op, !.holds = thread[t].holds]]

\* start_protection_exclusive: one start at a time, later ones wait for it.
StartExclusively(t, op) ==
  \/ /\ startFlag
     /\ thread' = [thread EXCEPT ![t].pc = "wait", ![t].op = op, ![t].after = TRUE]
     /\ UNCHANGED startFlag
  \/ /\ ~startFlag
     /\ thread' = [thread EXCEPT ![t].pc = "stopFilter", ![t].op = op,
                                 ![t].holds = "start", ![t].after = TRUE]
     /\ startFlag' = TRUE

\* A worker takes a command.  The switch of the UI is disabled while the start
\* or stop it asked for runs; everything else it does overlaps freely.
Switch == {"Start", "Stop"}

Accept(t, op) ==
  /\ t \in Workers /\ At(t, "idle") /\ requests < MaxRequests
  /\ op \in Switch => \A u \in Workers : thread[u].op \notin Switch
  /\ requests' = requests + 1
  /\ stopped' = IF op = "Stop" THEN "asked" ELSE "no"
  /\ UNCHANGED <<exits, crashes, filterVars, fileVars, kernelVars, databaseVars, failures>>

BeginStart(t) ==
  /\ Accept(t, "Start")
  /\ StartExclusively(t, "Start")
  /\ UNCHANGED reloadFlag

BeginStop(t) ==
  /\ Accept(t, "Stop")
  /\ thread' = [thread EXCEPT ![t].pc = "stopFilter", ![t].op = "Stop", ![t].after = TRUE]
  /\ UNCHANGED flagVars

\* auto_start_protection_inner: the status decides, if protection is enabled;
\* if not, it is only a status.
AutoStart == [Idle EXCEPT !.pc = "look", !.op = IF enabled THEN "Auto" ELSE "Poll"]

BeginAuto(t) ==
  /\ Accept(t, "Auto")
  /\ thread' = [thread EXCEPT ![t] = AutoStart]
  /\ UNCHANGED flagVars

\* reload_protection begins with core_status.
BeginReload(t) ==
  /\ Accept(t, "Reload")
  /\ thread' = [thread EXCEPT ![t].pc = "look", ![t].op = "Reload"]
  /\ UNCHANGED flagVars

\* recover_data_plane_failure: the log of a running kernel shows a broken TUN.
BeginRecover(t) ==
  /\ Running /\ enabled
  /\ Accept(t, "Recover")
  /\ thread' = [thread EXCEPT ![t].pc = "claim", ![t].op = "Recover"]
  /\ UNCHANGED flagVars

\* It gives way to a reload that is under way, else keeps reloads away.
ClaimReload(t) ==
  /\ At(t, "claim")
  /\ \/ reloadFlag /\ thread' = [thread EXCEPT ![t] = Idle]
     \/ /\ ~reloadFlag
        /\ thread' = [thread EXCEPT ![t].pc = "stopFilter", ![t].holds = "reload",
                                    ![t].after = TRUE]
  /\ reloadFlag' = TRUE
  /\ UNCHANGED <<startFlag, filterVars, fileVars, kernelVars, databaseVars,
                 failures, stopped, boundVars>>

\* The UI asks for the status every five seconds, start-up included.
BeginPoll ==
  /\ At(Main, "idle")
  /\ GoTo(Main, "look")
  /\ UNCHANGED <<flagVars, filterVars, fileVars, kernelVars, databaseVars,
                 failures, stopped, boundVars>>

\* wait_for_protection_start: until the flag is down, or for a minute.
Wait(t) ==
  /\ At(t, "wait")
  /\ GoTo(t, "look")
  /\ UNCHANGED <<flagVars, filterVars, fileVars, kernelVars, databaseVars,
                 failures, stopped, boundVars>>

-----------------------------------------------------------------------------
(* core_status.                                                            *)

\* current_core_pid: the PID on file, if a kernel runs under it.
LookForKernel(t) ==
  /\ At(t, "look")
  /\ thread' = [thread EXCEPT ![t].pc = "check",
                  ![t].seen = IF kernel.pid = pidFile THEN pidFile ELSE NoPid]
  /\ UNCHANGED <<flagVars, filterVars, fileVars, kernelVars, databaseVars,
                 failures, stopped, boundVars>>

\* protection_resources_healthy, else should_recover_incomplete_protection_state:
\* at once without a kernel, at the third look without a marker, never when
\* only the filter is missing.
Check(t) ==
  LET seen    == thread[t].seen # NoPid
      healthy == seen /\ marker # None /\ handle
      strike  == seen /\ marker = None
  IN /\ At(t, "check")
     /\ failures' = IF healthy THEN 0
                    ELSE IF strike /\ failures < HealthFailureLimit
                         THEN failures + 1 ELSE failures
     /\ thread' = [thread EXCEPT ![t].ok = healthy,
                     ![t].pc = IF ~seen \/ (strike /\ failures' = HealthFailureLimit)
                               THEN "recoverFilter" ELSE "return"]
     /\ UNCHANGED <<flagVars, filterVars, fileVars, kernelVars, databaseVars,
                    stopped, boundVars>>

\* stop_dns_filter: stops the thread whose handle is stored, if any.
StopFilter ==
  \/ handle /\ handle' = FALSE /\ filter' = FALSE
  \/ ~handle /\ UNCHANGED filterVars

\* recover_incomplete_protection_state, in its order.
RecoverFilter(t) ==
  /\ At(t, "recoverFilter")
  /\ StopFilter
  /\ GoTo(t, "recoverHelper")
  /\ UNCHANGED <<flagVars, fileVars, kernelVars, databaseVars, failures, stopped, boundVars>>

\* Mutant of RecoverHelper: a kernel that is gone needs no helper.
RecoverHelperIfRunning(t) ==
  /\ At(t, "recoverHelper")
  /\ IF marker = None \/ ~Running
     THEN UNCHANGED <<kernel, dnsTaken>>
     ELSE kernel' = None /\ dnsTaken' = FALSE
  /\ GoTo(t, "recoverFiles")
  /\ UNCHANGED <<ready, launched, flagVars, filterVars, fileVars, databaseVars,
                 failures, stopped, boundVars>>

\* The helper is asked only if there is a marker; its answer is ignored.
RecoverHelper(t) ==
  /\ At(t, "recoverHelper")
  /\ \/ marker = None /\ UNCHANGED <<kernel, dnsTaken>>
     \/ marker # None /\ kernel' = None /\ dnsTaken' = FALSE
     \/ marker # None /\ HelperFailsToStop
  /\ GoTo(t, "recoverFiles")
  /\ UNCHANGED <<ready, launched, flagVars, filterVars, fileVars, databaseVars,
                 failures, stopped, boundVars>>

RecoverFiles(t) ==
  /\ At(t, "recoverFiles")
  /\ pidFile' = NoPid /\ marker' = None
  /\ GoTo(t, "return")
  /\ UNCHANGED <<configFile, flagVars, filterVars, kernelVars, databaseVars,
                 failures, stopped, boundVars>>

\* A status taken on the way: auto start and reload act on it.
ReturnStatus(t) ==
  LET op == thread[t].op
      up == thread[t].ok
  IN /\ At(t, "return") /\ ~thread[t].after
     /\ \/ /\ op = "Auto" /\ ~up
           /\ StartExclusively(t, "Auto")
           /\ UNCHANGED reloadFlag
        \/ /\ op = "Reload" /\ up /\ ~reloadFlag
           /\ thread' = [thread EXCEPT ![t].pc = "plan", ![t].holds = "reload",
                                       ![t].after = TRUE]
           /\ reloadFlag' = TRUE
           /\ UNCHANGED startFlag
        \/ /\ \/ op = "Poll"
              \/ op = "Auto" /\ up
              \/ op = "Reload" /\ (~up \/ reloadFlag)
           /\ thread' = [thread EXCEPT ![t] = Idle]
           /\ UNCHANGED flagVars
     /\ UNCHANGED <<filterVars, fileVars, kernelVars, databaseVars, failures,
                    stopped, boundVars>>

\* A status taken at the end of a command, or of the start inside it.
ReturnResult(t) ==
  /\ At(t, "return") /\ thread[t].after
  /\ thread' = [thread EXCEPT ![t].ok = TRUE, ![t].seen = NoPid, ![t].conf = 0,
                  ![t].pc = IF thread[t].holds = "none" THEN "save" ELSE "release"]
  /\ stopped' = IF thread[t].op = "Stop" /\ stopped = "asked" THEN "done" ELSE stopped
  /\ UNCHANGED <<flagVars, filterVars, fileVars, kernelVars, databaseVars,
                 failures, boundVars>>

Release(t) ==
  /\ At(t, "release")
  /\ startFlag' = (startFlag /\ thread[t].holds # "start")
  /\ reloadFlag' = (reloadFlag /\ thread[t].holds # "reload")
  /\ thread' = [thread EXCEPT ![t].pc = "save", ![t].holds = "none"]
  /\ UNCHANGED <<filterVars, fileVars, kernelVars, databaseVars, failures,
                 stopped, boundVars>>

\* The UI stores protection_enabled after the start or stop it asked for.
Save(t) ==
  /\ At(t, "save")
  /\ enabled' = IF thread[t].ok /\ thread[t].op \in Switch
                THEN thread[t].op = "Start" ELSE enabled
  /\ thread' = [thread EXCEPT ![t] = Idle]
  /\ UNCHANGED <<policy, flagVars, filterVars, fileVars, kernelVars, failures,
                 stopped, boundVars>>

-----------------------------------------------------------------------------
(* stop_child, on its own or as the beginning of start_inner.              *)

StopTheFilter(t) ==
  /\ At(t, "stopFilter")
  /\ failures' = 0
  /\ StopFilter
  /\ GoTo(t, "stopHelper")
  /\ UNCHANGED <<flagVars, fileVars, kernelVars, databaseVars, stopped, boundVars>>

\* Mutant of StopTheKernel: the error of the helper is dropped.
StopTheKernelCarelessly(t) ==
  /\ At(t, "stopHelper")
  /\ \/ kernel' = None /\ dnsTaken' = FALSE
     \/ HelperFailsToStop
  /\ GoTo(t, "stopFiles")
  /\ UNCHANGED <<ready, launched, flagVars, filterVars, fileVars, databaseVars,
                 failures, stopped, boundVars>>

StopTheKernel(t) ==
  /\ At(t, "stopHelper")
  /\ \/ kernel' = None /\ dnsTaken' = FALSE /\ GoTo(t, "stopFiles")
     \/ HelperFailsToStop /\ Fail(t)
  /\ UNCHANGED <<ready, launched, flagVars, filterVars, fileVars, databaseVars,
                 failures, stopped, boundVars>>

RemoveFiles(t) ==
  /\ At(t, "stopFiles")
  /\ pidFile' = NoPid /\ marker' = None
  /\ GoTo(t, IF thread[t].op = "Stop" THEN "look" ELSE "build")
  /\ UNCHANGED <<configFile, flagVars, filterVars, kernelVars, databaseVars,
                 failures, stopped, boundVars>>

-----------------------------------------------------------------------------
(* reload_protection_inner: skip the restart if the running kernel has this *)
(* configuration already, else write it and let the core validate it.       *)

PlanReload(t) ==
  /\ At(t, "plan")
  /\ \/ thread' = [thread EXCEPT ![t].conf = policy,
                     ![t].pc = IF marker = [pid |-> thread[t].seen, conf |-> policy]
                               THEN "look" ELSE "validate"]
     \/ MayFail("build") /\ Fail(t)
  /\ UNCHANGED <<flagVars, filterVars, fileVars, kernelVars, databaseVars,
                 failures, stopped, boundVars>>

Validate(t) ==
  /\ At(t, "validate")
  /\ configFile' = thread[t].conf
  /\ \/ thread' = [thread EXCEPT ![t].pc = "stopFilter", ![t].seen = NoPid,
                                 ![t].conf = 0]
     \/ MayFail("build") /\ Fail(t)
  /\ UNCHANGED <<pidFile, marker, flagVars, filterVars, kernelVars, databaseVars,
                 failures, stopped, boundVars>>

-----------------------------------------------------------------------------
(* start_inner, after the stop.                                            *)

BuildConfig(t) ==
  /\ At(t, "build")
  /\ \/ thread' = [thread EXCEPT ![t].pc = "write", ![t].conf = policy]
     \/ MayFail("build") /\ Fail(t)
  /\ UNCHANGED <<flagVars, filterVars, fileVars, kernelVars, databaseVars,
                 failures, stopped, boundVars>>

WriteConfig(t) ==
  /\ At(t, "write")
  /\ configFile' = thread[t].conf
  /\ GoTo(t, "helper")
  /\ UNCHANGED <<pidFile, marker, flagVars, filterVars, kernelVars, databaseVars,
                 failures, stopped, boundVars>>

\* The helper stops what runs, truncates the log and starts a kernel that
\* reads config.yaml as it is now; with another VPN up it leaves the DNS alone.
StartKernel ==
  /\ launched' = launched + 1
  /\ kernel' = [pid |-> launched', conf |-> configFile]
  /\ ready' = FALSE /\ dnsTaken' \in BOOLEAN

\* A request to start ends in an error: refused before the old kernel was
\* stopped; with no kernel, the settings taken over in part; or with a kernel
\* started whose answer is lost.
HelperFailsToStart ==
  /\ MayFail("helperStart")
  /\ \/ UNCHANGED kernelVars
     \/ /\ kernel' = None /\ ready' \in {ready, FALSE} /\ dnsTaken' \in BOOLEAN
        /\ UNCHANGED launched
     \/ StartKernel

LaunchKernel(t) ==
  /\ At(t, "helper")
  /\ \/ /\ StartKernel
        /\ thread' = [thread EXCEPT ![t].pc = "filterStop", ![t].pid = launched']
     \/ HelperFailsToStart /\ Fail(t)
  /\ UNCHANGED <<flagVars, filterVars, fileVars, databaseVars, failures, stopped, boundVars>>

\* start_dns_filter: stop the old one, bind port 53, store the handle.
FilterStop(t) ==
  /\ At(t, "filterStop")
  /\ StopFilter
  /\ GoTo(t, "filterBind")
  /\ UNCHANGED <<flagVars, fileVars, kernelVars, databaseVars, failures, stopped, boundVars>>

\* Mutant of FilterBind: the port may be shared.
FilterBindShared(t) ==
  /\ At(t, "filterBind")
  /\ \/ filter' = TRUE /\ GoTo(t, "filterStore")
     \/ MayFail("filter") /\ GoTo(t, "abortLaunch") /\ UNCHANGED filter
  /\ UNCHANGED <<handle, flagVars, fileVars, kernelVars, databaseVars, failures,
                 stopped, boundVars>>

FilterBind(t) ==
  /\ At(t, "filterBind")
  /\ \/ ~filter /\ filter' = TRUE /\ GoTo(t, "filterStore")
     \/ /\ filter \/ MayFail("filter")
        /\ GoTo(t, "abortLaunch")
        /\ UNCHANGED filter
  /\ UNCHANGED <<handle, flagVars, fileVars, kernelVars, databaseVars, failures,
                 stopped, boundVars>>

FilterStore(t) ==
  /\ At(t, "filterStore")
  /\ handle' = TRUE
  /\ GoTo(t, "pidFile")
  /\ UNCHANGED <<filter, flagVars, fileVars, kernelVars, databaseVars, failures,
                 stopped, boundVars>>

WritePidFile(t) ==
  /\ At(t, "pidFile")
  /\ pidFile' = thread[t].pid
  /\ GoTo(t, "tun")
  /\ UNCHANGED <<marker, configFile, flagVars, filterVars, kernelVars, databaseVars,
                 failures, stopped, boundVars>>

\* Mutant of AwaitTun: neither the exit of the kernel nor the time ends it.
AwaitTunForever(t) ==
  /\ At(t, "tun")
  /\ ready /\ GoTo(t, "mark")
  /\ UNCHANGED <<flagVars, filterVars, fileVars, kernelVars, databaseVars,
                 failures, stopped, boundVars>>

\* Five seconds for the log to report the TUN device, which may be too few for
\* any kernel.  There is one log: it may be the report of another kernel.  The
\* PID tells nothing: a kernel that is gone stays a zombie of the helper.
AwaitTun(t) ==
  /\ At(t, "tun")
  /\ \/ ready /\ GoTo(t, "mark")
     \/ GoTo(t, "abortKill")
  /\ UNCHANGED <<flagVars, filterVars, fileVars, kernelVars, databaseVars,
                 failures, stopped, boundVars>>

\* Mutant of WriteMarker: the configuration is taken from the database again.
WriteMarkerLate(t) ==
  /\ At(t, "mark")
  /\ marker' = [pid |-> thread[t].pid, conf |-> policy]
  /\ thread' = [thread EXCEPT ![t].pc = "look", ![t].pid = NoPid, ![t].conf = 0]
  /\ UNCHANGED <<pidFile, configFile, flagVars, filterVars, kernelVars, databaseVars,
                 failures, stopped, boundVars>>

WriteMarker(t) ==
  /\ At(t, "mark")
  /\ marker' = [pid |-> thread[t].pid, conf |-> thread[t].conf]
  /\ thread' = [thread EXCEPT ![t].pc = "look", ![t].pid = NoPid, ![t].conf = 0]
  /\ UNCHANGED <<pidFile, configFile, flagVars, filterVars, kernelVars, databaseVars,
                 failures, stopped, boundVars>>

\* kill_process on the own PID: the application is not root, so this asks for
\* an administrator, who may decline.  Without a filter nothing else is undone.
AbortKill(t) ==
  /\ At(t, "abortLaunch") \/ At(t, "abortKill")
  /\ \/ kernel' = IF kernel.pid = thread[t].pid THEN None ELSE kernel
     \/ MayFail("kill") /\ UNCHANGED kernel
  /\ thread' = [thread EXCEPT ![t].ok = FALSE,
                  ![t].pid = NoPid, ![t].conf = 0,
                  ![t].pc = IF At(t, "abortKill") THEN "abortFilter" ELSE "release"]
  /\ UNCHANGED <<ready, dnsTaken, launched, flagVars, filterVars, fileVars,
                 databaseVars, failures, stopped, boundVars>>

AbortFilter(t) ==
  /\ At(t, "abortFilter")
  /\ StopFilter
  /\ GoTo(t, "abortFiles")
  /\ UNCHANGED <<flagVars, fileVars, kernelVars, databaseVars, failures, stopped, boundVars>>

AbortFiles(t) ==
  /\ At(t, "abortFiles")
  /\ pidFile' = NoPid
  /\ GoTo(t, "release")
  /\ UNCHANGED <<marker, configFile, flagVars, filterVars, kernelVars, databaseVars,
                 failures, stopped, boundVars>>

-----------------------------------------------------------------------------
(* The world around the application.                                       *)

KernelReady ==
  /\ Running /\ ~ready
  /\ ready' = TRUE
  /\ UNCHANGED <<kernel, dnsTaken, launched, flagVars, filterVars, fileVars,
                 databaseVars, failures, thread, stopped, boundVars>>

KernelExits ==
  /\ Running /\ exits < MaxExits
  /\ exits' = exits + 1
  /\ kernel' = None
  /\ UNCHANGED <<ready, dnsTaken, launched, flagVars, filterVars, fileVars,
                 databaseVars, failures, thread, stopped, requests, crashes>>

\* Settings or rules change; the UI follows it up with a reload.
PolicyChanges ==
  /\ policy < MaxPolicy
  /\ policy' = policy + 1
  /\ UNCHANGED <<enabled, flagVars, filterVars, fileVars, kernelVars, failures,
                 thread, stopped, boundVars>>

\* The application dies and is opened again: threads, flags and the filter are
\* gone, files and kernel are not, and the set-up thread runs the auto start.
Crash ==
  /\ crashes < MaxCrashes
  /\ crashes' = crashes + 1
  /\ startFlag' = FALSE /\ reloadFlag' = FALSE /\ failures' = 0
  /\ handle' = FALSE /\ filter' = FALSE
  /\ stopped' = "no"
  /\ \E w \in Workers :
       thread' = [t \in Threads |->
                   IF t = w THEN AutoStart ELSE Idle]
  /\ UNCHANGED <<fileVars, kernelVars, databaseVars, requests, exits>>

-----------------------------------------------------------------------------
Begin(t) ==
  \/ BeginStart(t) \/ BeginStop(t) \/ BeginAuto(t) \/ BeginReload(t)
  \/ BeginRecover(t)

Status(t) ==
  \/ LookForKernel(t) \/ Check(t)
  \/ RecoverFilter(t) \/ RecoverHelper(t) \/ RecoverFiles(t)
  \/ ReturnStatus(t) \/ ReturnResult(t)

Command(t) ==
  \/ Wait(t) \/ ClaimReload(t) \/ StopTheFilter(t) \/ StopTheKernel(t) \/ RemoveFiles(t)
  \/ PlanReload(t) \/ Validate(t)
  \/ BuildConfig(t) \/ WriteConfig(t) \/ LaunchKernel(t)
  \/ FilterStop(t) \/ FilterBind(t) \/ FilterStore(t)
  \/ WritePidFile(t) \/ AwaitTun(t) \/ WriteMarker(t)
  \/ AbortKill(t) \/ AbortFilter(t) \/ AbortFiles(t)
  \/ Release(t) \/ Save(t)

Step(t) == Status(t) \/ Command(t)

Next ==
  \/ \E t \in Workers : Begin(t)
  \/ BeginPoll
  \/ \E t \in Threads : Step(t)
  \/ KernelReady \/ KernelExits \/ PolicyChanges \/ Crash

Spec == Init /\ [][Next]_vars

\* Threads of the pool and the timer keep running.  Nobody owes a command, a
\* crash, a policy or a TUN device.
Fairness ==
  /\ \A t \in Threads : WF_vars(Step(t))
  /\ WF_vars(BeginPoll)

FairSpec == Spec /\ Fairness

-----------------------------------------------------------------------------
(* Properties.                                                             *)

\* A filter thread always has an owner who can stop it: its handle is stored,
\* or the command that has just bound the port is about to store it.  And a
\* stored handle belongs to a running filter (start_dns_filter, stop_dns_filter).
FilterHasOwner ==
  /\ handle => filter
  /\ filter /\ ~handle => \E t \in Threads : At(t, "filterStore")

\* Each flag is up exactly while one command works under it, whichever way the
\* command ends (start_protection_exclusive, reload_protection).
FlagsAreExclusive ==
  /\ startFlag <=> \E t \in Threads : thread[t].holds = "start"
  /\ reloadFlag <=> \E t \in Threads : thread[t].holds = "reload"
  /\ \A t, u \in Threads :
       thread[t].holds = thread[u].holds /\ thread[t].holds # "none" => t = u

\* The marker never claims a configuration the kernel it names was not started
\* with: reload_protection skips the restart on the marker's word.
MarkerIsTrue == marker.pid = kernel.pid => marker.conf = kernel.conf

\* When a stop has succeeded and nothing was asked since, protection is off:
\* no kernel, no filter, no files, and the system DNS is given back.
StopIsFinal ==
  stopped = "done" /\ (\A t \in Workers : At(t, "idle")) =>
    /\ ~Running /\ ~filter /\ ~dnsTaken
    /\ pidFile = NoPid /\ marker = None

\* Every command comes to an end, whichever of its steps fails and whether its
\* kernel ever comes up or not, the one that waits for another start included.
CommandsEnd == \A t \in Workers : ~At(t, "idle") ~> At(t, "idle")

\* Every flag that is up comes down, however the command that raised it ends: no
\* later start waits, and no later reload is refused, for a command that is gone
\* (start_protection_exclusive, reload_protection, recover_data_plane_failure).
FlagsComeDown == (startFlag ~> ~startFlag) /\ (reloadFlag ~> ~reloadFlag)

\* A kernel that dies in a quiet moment, its marker on disk, does not leave the
\* computer without name resolution: the next status gives the system DNS back
\* (core_status, recover_incomplete_protection_state).
CrashRestoresDns ==
  (~Running /\ marker # None /\ \A t \in Threads : At(t, "idle"))
    ~> (Running \/ ~dnsTaken)

\* docs/architecture.md: when automatic recovery fails the system network is
\* restored, the computer stays online.  A recovery that has just failed leaves
\* no system DNS that points at a filter nobody runs.
FailedRecoveryKeepsNetwork ==
  \A t \in Threads :
    At(t, "release") /\ thread[t].op = "Recover" /\ ~thread[t].ok
      => filter \/ ~dnsTaken

\* docs/product-spec.md: when recovery finally fails, the network stays usable.
\* It is not while the system DNS points at CleanWeb, with its kernel up, and no
\* filter answers.
DnsNeverDead ==
  (Running /\ dnsTaken /\ ~filter) ~> (filter \/ ~dnsTaken \/ ~Running)
=============================================================================
