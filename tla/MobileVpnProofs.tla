---------------------------- MODULE MobileVpnProofs ----------------------------
(***************************************************************************)
(* Protection on Android, for any number of commands, imports, failures    *)
(* and deaths of the process: the service holds every interface that is    *)
(* open and that no thread has struck from its fields, what is on disk     *)
(* fits together, and a status that says running is true.                  *)
(***************************************************************************)
EXTENDS MobileVpn, SequenceTheorems, TLAPS

StatusType == [running : BOOLEAN, stage : Stages, mode : Modes]
FieldTypes(n) == [alive : BOOLEAN, iface : 0..n, loop : BOOLEAN, stopping : BOOLEAN, pid : 0..n]
TunnelTypes(n) ==
  [inst : 1..n, mode : Modes, open : BOOLEAN,
   worker : {"unborn", "read", "decide", "forward", "wait", "test", "clear", "report",
             "close", "forget", "quit", "gone"},
   kernel : {"none", "up", "ending", "gone"}]

\* What is on disk, and what is being written there.
FilesSafe ==
  /\ payload \in 0..imports /\ info \in 0..payload /\ imports \in 0..MaxImports
  /\ importing \in {None, payload}

ApplyingType == [policy : {"none"} \cup Policies, at : {"config", "plugin"}]

\* A full tunnel that is saved, or on its way to be, has a configuration.
PolicySafe ==
  /\ config \in {"absent", "torn", "cut", "whole"}
  /\ saved \in {"none"} \cup Modes /\ engine \in Modes /\ enabled \in BOOLEAN
  /\ applying \in ApplyingType
  /\ saved = "full_tunnel" => config \in {"whole", "cut"} \/ Rewriting
  /\ Rewriting => config = "torn"
  /\ applying.policy = "full_tunnel" /\ applying.at = "plugin" => config = "whole"

\* The service holds what is open and has not been struck from its fields; it lives
\* while startVpn runs, which asks for an interface only when it has none.
TunnelsSafe ==
  /\ inst \in Nat /\ field \in FieldTypes(Len(tunnel)) /\ tunnel \in Seq(TunnelTypes(inst))
  /\ forgotten \subseteq Tunnels
  /\ TunnelIsHeld
  /\ field.alive => inst # 0
  /\ main # "looper" => field.alive
  /\ main = "establish" => field.iface = None

RestTyped ==
  /\ status \in StatusType /\ permitted \in BOOLEAN /\ record \in {"none", "started", "idle"}
  /\ queue \in Seq({"START", "STOP", "DESTROY", "REVOKE"})
  /\ main \in {"looper", "establish", "plane", "mark"}
  /\ commands \in 0..MaxCommands /\ failures \in 0..MaxFailures /\ kills \in 0..MaxKills

IInv == FilesSafe /\ PolicySafe /\ TunnelsSafe /\ RestTyped

-----------------------------------------------------------------------------
(* Files and policy.                                                       *)

LEMMA InitSafe == Init => IInv
<1> SUFFICES ASSUME Init PROVE IInv
  OBVIOUS
<1> USE MobileAssumption DEF Init, None
<1>1. FilesSafe
  BY DEF FilesSafe
<1>2. PolicySafe
  BY DEF PolicySafe, Rewriting, ApplyingType, Policies, Modes
<1>3. TunnelsSafe
  <2>1. Len(tunnel) = 0 /\ tunnel \in Seq(TunnelTypes(inst)) /\ DOMAIN tunnel = {}
        /\ forgotten = {}
    OBVIOUS
  <2>2. field \in FieldTypes(0) /\ ~field.alive
    BY DEF FieldTypes, NoFields
  <2>3. TunnelIsHeld
    BY <2>1 DEF TunnelIsHeld, Tunnels
  <2> QED
    BY <2>1, <2>2, <2>3 DEF TunnelsSafe
<1>4. RestTyped
  BY DEF RestTyped, StatusType, Initially, Stages, Modes
<1> QED
  BY <1>1, <1>2, <1>3, <1>4 DEF IInv

LEMMA FilesStaySafe == FilesSafe /\ Next => FilesSafe'
<1> SUFFICES ASSUME FilesSafe, Next PROVE FilesSafe'
  OBVIOUS
<1> USE MobileAssumption DEF FilesSafe, None
<1>1. CASE StorePayload
  BY <1>1 DEF StorePayload
<1>2. CASE StoreInfo
  BY <1>2 DEF StoreInfo
<1>3. CASE Kill
  BY <1>3 DEF Kill
<1>4. ASSUME UNCHANGED fileVars PROVE FilesSafe'
  BY <1>4 DEF fileVars
<1>5. CASE Looper
  BY <1>4, <1>5 DEF Looper, Start, Establish, StartPlane, PlaneLost, Mark, Stop, Destroy
<1>6. CASE \E s \in Tunnels : Worker(s) \/ KernelExits(s)
  BY <1>4, <1>6 DEF Worker, Read, Decide, Forwarded, Waited, WaitFails, Test, Clear, Report,
                    CloseInterface, Forget, Quit, KernelExits
<1>7. CASE StartCommand \/ StopCommand \/ Prepare \/ BringDown \/ Revoke
  BY <1>4, <1>7 DEF StartCommand, StopCommand, Prepare, BringDown, Revoke
<1>8. CASE (\E p \in Policies : PreparePolicy(p)) \/ WriteConfig \/ WriteFails \/ UpdatePolicy
  BY <1>4, <1>8 DEF PreparePolicy, WriteConfig, WriteFails, UpdatePolicy
<1> QED
  BY <1>1, <1>2, <1>3, <1>5, <1>6, <1>7, <1>8 DEF Next

LEMMA PolicyStaysSafe == PolicySafe /\ Next => PolicySafe'
<1> SUFFICES ASSUME PolicySafe, Next PROVE PolicySafe'
  OBVIOUS
<1> USE DEF PolicySafe, Rewriting, ApplyingType
<1>1. ASSUME UNCHANGED policyVars PROVE PolicySafe'
  BY <1>1 DEF policyVars
<1>2. Saved \in Modes
  BY DEF Saved, Modes
<1>3. ASSUME NEW p \in Policies, PreparePolicy(p) PROVE PolicySafe'
  BY <1>3 DEF PreparePolicy
<1>4. CASE WriteConfig
  <2>1. applying'.policy = applying.policy /\ applying' \in ApplyingType /\ config' = "whole"
    BY <1>4 DEF WriteConfig
  <2>2. UNCHANGED <<saved, engine, enabled>>
    BY <1>4 DEF WriteConfig
  <2> QED
    BY <1>4, <2>1, <2>2 DEF WriteConfig
<1>11. CASE WriteFails
  BY <1>11 DEF WriteFails
<1>5. CASE UpdatePolicy
  <2>1. /\ config' = config /\ applying' = [policy |-> "none", at |-> "config"]
        /\ applying.policy \in Policies /\ SavePolicy(applying.policy)
    BY <1>5 DEF UpdatePolicy
  <2>2. applying' \in ApplyingType /\ applying'.policy # "full_tunnel"
    BY <2>1
  <2>3. CASE applying.policy = "invalid"
    BY <2>1, <2>2, <2>3 DEF SavePolicy
  <2>4. CASE applying.policy \in Modes
    <3>1. /\ engine' = applying.policy /\ saved' \in {applying.policy, saved}
          /\ applying.policy # "invalid"
      BY <2>1, <2>4 DEF SavePolicy, Modes
    <3>2. enabled' \in BOOLEAN
      BY <2>1, <3>1 DEF SavePolicy, TakeFields
    <3>3. applying.at = "plugin"
      BY <1>5 DEF UpdatePolicy
    <3>4. saved' = "full_tunnel" => config' \in {"whole", "cut"}
      BY <2>1, <3>1, <3>3
    <3>5. applying'.policy = "none" /\ applying'.at = "config"
      BY <2>1
    <3> QED
      BY <2>1, <2>2, <2>4, <3>1, <3>2, <3>4, <3>5
  <2> QED
    BY <2>1, <2>3, <2>4 DEF Policies
<1>6. CASE Kill
  BY <1>6 DEF Kill, Modes
<1>7. CASE Start
  <2>1. UNCHANGED <<config, saved, applying>> /\ StartBegins
    BY <1>7 DEF Start
  <2>2. engine' \in Modes /\ enabled' \in BOOLEAN
    BY <1>2, <2>1 DEF StartBegins, LoadPolicy
  <2> QED
    BY <2>1, <2>2
<1>8. CASE Establish \/ StartPlane \/ PlaneLost \/ Mark \/ Stop \/ Destroy
  BY <1>1, <1>8 DEF Establish, StartPlane, PlaneLost, Mark, Stop, Destroy
<1>9. CASE \E s \in Tunnels : Worker(s) \/ KernelExits(s)
  BY <1>1, <1>9 DEF Worker, Read, Decide, Forwarded, Waited, WaitFails, Test, Clear, Report,
                    CloseInterface, Forget, Quit, KernelExits
<1>10. CASE StartCommand \/ StopCommand \/ Prepare \/ BringDown \/ Revoke \/ StorePayload \/ StoreInfo
  BY <1>1, <1>10 DEF StartCommand, StopCommand, Prepare, BringDown, Revoke, StorePayload, StoreInfo
<1> QED
  BY <1>3, <1>4, <1>5, <1>6, <1>7, <1>8, <1>9, <1>10, <1>11 DEF Next, Looper

-----------------------------------------------------------------------------
(* Tunnels.                                                                *)

\* A thread moves on, its kernel ends, or startVpn starts them.
LEMMA Tuned ==
  ASSUME TunnelsSafe, NEW s \in Tunnels, NEW e \in TunnelTypes(inst),
         tunnel' = [tunnel EXCEPT ![s] = e], e.open => tunnel[s].open,
         UNCHANGED <<inst, forgotten>>,
         field' \in FieldTypes(Len(tunnel)), field'.alive = field.alive,
         field'.iface = field.iface, main' = main \/ (main' # "establish" /\ field.alive)
  PROVE  TunnelsSafe'
<1>1. tunnel' \in Seq(TunnelTypes(inst)) /\ Len(tunnel') = Len(tunnel)
  BY DEF TunnelsSafe, Tunnels
<1>2. \A r \in Tunnels : tunnel'[r].open => tunnel[r].open
  <2>1. tunnel'[s] = e /\ \A r \in Tunnels \ {s} : tunnel'[r] = tunnel[r]
    BY DEF TunnelsSafe, Tunnels
  <2> QED
    BY <2>1
<1>3. TunnelIsHeld'
  BY <1>1, <1>2 DEF TunnelsSafe, TunnelIsHeld, Tunnels
<1>4. forgotten' \subseteq Tunnels'
  BY <1>1 DEF TunnelsSafe, Tunnels
<1> QED
  BY <1>1, <1>3, <1>4 DEF TunnelsSafe

\* All tunnels are closed, and the fields forget theirs.
LEMMA Emptied ==
  ASSUME TunnelsSafe, tunnel' = Released, inst' \in {inst, inst + 1},
         UNCHANGED forgotten,
         field' \in {NoFields, [NoFields EXCEPT !.alive = TRUE]},
         field'.alive => inst' # 0, main' # "looper" => field'.alive
  PROVE  TunnelsSafe'
<1>1. \A s \in Tunnels : tunnel[s] \in TunnelTypes(inst)
  BY DEF TunnelsSafe, Tunnels
<1>2. inst' \in Nat /\ \A t \in TunnelTypes(inst) : t \in TunnelTypes(inst')
  BY DEF TunnelsSafe, TunnelTypes
<1>3. \A s \in Tunnels : /\ tunnel'[s] \in TunnelTypes(inst')
                         /\ tunnel'[s].open = (tunnel[s].open /\ s # field.iface)
  <2> SUFFICES ASSUME NEW s \in Tunnels
               PROVE  /\ tunnel'[s] \in TunnelTypes(inst')
                      /\ tunnel'[s].open = (tunnel[s].open /\ s # field.iface)
    OBVIOUS
  <2>1. Terminated(s) \in {"none", "up", "ending", "gone"}
    BY <1>1 DEF Terminated, TunnelTypes
  <2>2. tunnel'[s] = [tunnel[s] EXCEPT !.open = tunnel[s].open /\ s # field.iface,
                                       !.kernel = Terminated(s)]
    BY DEF Released
  <2>3. tunnel[s] \in TunnelTypes(inst')
    BY <1>1, <1>2
  <2>4. (tunnel[s].open /\ s # field.iface) \in BOOLEAN
    OBVIOUS
  <2> QED
    BY <2>1, <2>2, <2>3, <2>4 DEF TunnelTypes
<1>4. tunnel' \in Seq(TunnelTypes(inst')) /\ Len(tunnel') = Len(tunnel)
  <2>1. Len(tunnel) \in Nat
    BY LenProperties DEF TunnelsSafe
  <2>2. tunnel' = [s \in 1..Len(tunnel) |-> tunnel'[s]]
    BY DEF Released, Tunnels
  <2>3. \A s \in 1..Len(tunnel) : tunnel'[s] \in TunnelTypes(inst')
    BY <1>3 DEF Tunnels
  <2> QED
    BY <2>1, <2>2, <2>3
<1>5. TunnelIsHeld'
  <2>1. \A s \in Tunnels : tunnel'[s].open => s \in forgotten
    BY <1>3 DEF TunnelsSafe, TunnelIsHeld
  <2> QED
    BY <1>4, <2>1 DEF TunnelIsHeld, Tunnels
<1>6. field' \in FieldTypes(Len(tunnel')) /\ field'.iface = None
  <2>1. Len(tunnel') \in Nat
    BY <1>4, LenProperties
  <2>2. NoFields \in FieldTypes(Len(tunnel')) /\ NoFields.iface = None
    BY <2>1 DEF FieldTypes, NoFields, None
  <2>3. LET living == [NoFields EXCEPT !.alive = TRUE] IN
          living \in FieldTypes(Len(tunnel')) /\ living.iface = None
    BY <2>2 DEF FieldTypes
  <2> QED
    BY <2>2, <2>3
<1> QED
  BY <1>2, <1>4, <1>5, <1>6 DEF TunnelsSafe, Tunnels

LEMMA StartKeepsTunnels == ASSUME TunnelsSafe, Start PROVE TunnelsSafe'
<1>1. Born /\ StartBegins /\ main = "looper" /\ forgotten' = forgotten
  BY DEF Start
<1>2. inst \in Nat /\ inst' \in {inst, inst + 1} /\ (field.alive => inst' = inst)
  BY <1>1 DEF Born, TunnelsSafe
<1>3. ASSUME UNCHANGED tunnel PROVE tunnel' \in Seq(TunnelTypes(inst'))
  <2>1. \A t \in TunnelTypes(inst) : t \in TunnelTypes(inst')
    BY <1>2 DEF TunnelTypes
  <2> QED
    BY <1>3, <2>1 DEF TunnelsSafe
<1>4. CASE field.iface # None /\ UNCHANGED <<field, main, tunnel>>
  BY <1>1, <1>2, <1>3, <1>4 DEF TunnelsSafe, TunnelIsHeld, Tunnels
<1>5. CASE /\ field.iface = None /\ field' = [Instance EXCEPT !.stopping = FALSE]
           /\ main' = "establish" /\ UNCHANGED tunnel
  <2>1. field' \in FieldTypes(Len(tunnel)) /\ field'.iface = None /\ field'.alive
    BY <1>5 DEF Instance, Created, NoFields, None, FieldTypes, TunnelsSafe
  <2>2. inst' # 0
    BY <1>1, <1>2 DEF Born, TunnelsSafe
  <2>3. TunnelIsHeld'
    BY <1>1, <1>5 DEF TunnelsSafe, TunnelIsHeld, Tunnels, None
  <2> QED
    BY <1>1, <1>2, <1>3, <1>5, <2>1, <2>2, <2>3 DEF TunnelsSafe, Tunnels
<1>6. CASE StopVpn /\ UNCHANGED main
  <2>1. inst' # 0
    BY <1>1, <1>2 DEF Born, TunnelsSafe
  <2> QED
    BY <1>1, <1>2, <1>6, <2>1, Emptied DEF StopVpn, NoFields
<1> QED
  BY <1>1, <1>4, <1>5, <1>6 DEF StartBegins

LEMMA GivingUpKeepsTunnels ==
  ASSUME TunnelsSafe, GiveUp, UNCHANGED <<inst, forgotten>>, main # "looper"
  PROVE  TunnelsSafe'
<1>1. inst # 0
  BY DEF TunnelsSafe
<1> QED
  BY <1>1, Emptied DEF GiveUp, StopVpn, NoFields

LEMMA EstablishKeepsTunnels == ASSUME TunnelsSafe, enabled \in BOOLEAN, Establish PROVE TunnelsSafe'
<1>1. main = "establish" /\ inst' = inst /\ forgotten' = forgotten
  BY DEF Establish
<1>2. CASE GiveUp
  BY <1>1, <1>2, GivingUpKeepsTunnels
<1>3. CASE ~GiveUp
  <2> DEFINE new == [inst |-> inst, mode |-> IF enabled THEN "full_tunnel" ELSE "dns_only",
                     open |-> TRUE, worker |-> "unborn", kernel |-> "none"]
  <2>1. /\ tunnel' = Append(tunnel, new) /\ field' = [field EXCEPT !.iface = Len(tunnel')]
        /\ main' = "plane"
    BY <1>3 DEF Establish
  <2>2. new \in TunnelTypes(inst)
    BY <1>1 DEF TunnelTypes, Modes, TunnelsSafe
  <2>3. /\ tunnel' \in Seq(TunnelTypes(inst)) /\ Len(tunnel') = Len(tunnel) + 1
        /\ \A s \in Tunnels : tunnel'[s] = tunnel[s]
    BY <2>1, <2>2 DEF TunnelsSafe, Tunnels
  <2>4. field' \in FieldTypes(Len(tunnel')) /\ field'.iface = Len(tunnel') /\ field'.alive
    <3>1. field \in FieldTypes(Len(tunnel)) /\ field.alive /\ Len(tunnel) \in Nat
      BY <1>1, LenProperties DEF TunnelsSafe
    <3> QED
      BY <2>1, <2>3, <3>1 DEF FieldTypes
  <2>5. \A s \in Tunnels : tunnel[s].open => s \in forgotten
    BY <1>1 DEF TunnelsSafe, TunnelIsHeld, Tunnels, None
  <2>6. TunnelIsHeld'
    BY <1>1, <2>3, <2>4, <2>5 DEF TunnelIsHeld, Tunnels, TunnelsSafe
  <2>7. Tunnels \subseteq Tunnels'
    BY <2>3, LenProperties DEF Tunnels, TunnelsSafe
  <2> QED
    BY <1>1, <2>1, <2>3, <2>4, <2>6, <2>7 DEF TunnelsSafe
<1> QED
  BY <1>2, <1>3

LEMMA PlaneKeepsTunnels == ASSUME TunnelsSafe, StartPlane PROVE TunnelsSafe'
<1>1. PICK s \in Tunnels : s = field.iface
  BY DEF StartPlane, TunnelsSafe, FieldTypes, Tunnels, None
<1>2. main = "plane" /\ UNCHANGED <<inst, forgotten>>
      /\ field.alive /\ tunnel[s] \in TunnelTypes(inst)
      /\ field \in FieldTypes(Len(tunnel)) /\ s \in 1..Len(tunnel)
  BY <1>1 DEF StartPlane, TunnelsSafe, Tunnels
<1>3. CASE GiveUp
  BY <1>2, <1>3, GivingUpKeepsTunnels
<1>4. CASE /\ tunnel[s].mode = "dns_only" /\ main' = "mark"
           /\ field' = [field EXCEPT !.loop = TRUE]
           /\ tunnel' = [tunnel EXCEPT ![s].worker = "read"]
  <2> DEFINE e == [tunnel[s] EXCEPT !.worker = "read"]
  <2>1. tunnel' = [tunnel EXCEPT ![s] = e]
    BY <1>4
  <2>2. e \in TunnelTypes(inst) /\ e.open = tunnel[s].open
    BY <1>2 DEF TunnelTypes
  <2>3. field' \in FieldTypes(Len(tunnel)) /\ field'.alive = field.alive /\ field'.iface = field.iface
    BY <1>2, <1>4 DEF FieldTypes
  <2> QED
    BY <1>2, <1>4, <2>1, <2>2, <2>3, Tuned
<1>5. ASSUME NEW kernel \in {"up", "ending"}, main' = "mark",
             field' = [field EXCEPT !.pid = s],
             tunnel' = [tunnel EXCEPT ![s].worker = "wait", ![s].kernel = kernel]
      PROVE  TunnelsSafe'
  <2> DEFINE e == [tunnel[s] EXCEPT !.worker = "wait", !.kernel = kernel]
  <2>1. tunnel' = [tunnel EXCEPT ![s] = e]
    BY <1>5
  <2>2. e \in TunnelTypes(inst) /\ e.open = tunnel[s].open
    BY <1>2 DEF TunnelTypes
  <2>3. field' = [field EXCEPT !.pid = s] /\ main' = "mark"
    BY <1>5
  <2>4. s \in 0..Len(tunnel)
    BY <1>2, LenProperties DEF TunnelsSafe
  <2>5. field' \in FieldTypes(Len(tunnel)) /\ field'.alive = field.alive /\ field'.iface = field.iface
    BY <1>2, <2>3, <2>4 DEF FieldTypes
  <2> HIDE DEF e
  <2> QED
    BY <1>2, <2>1, <2>2, <2>3, <2>5, Tuned
<1> QED
  BY <1>1, <1>3, <1>4, <1>5 DEF StartPlane

\* Where a thread that has begun can get.
Moves == {"read", "decide", "forward", "test", "clear", "report", "close", "forget", "quit", "gone"}

LEMMA ThreadsKeepTunnels ==
  ASSUME TunnelsSafe, NEW s \in Tunnels, Worker(s) \/ KernelExits(s)
  PROVE  TunnelsSafe'
<1>1. /\ inst' = inst /\ main' = main /\ tunnel[s] \in TunnelTypes(inst)
      /\ field \in FieldTypes(Len(tunnel)) /\ tunnel \in Seq(TunnelTypes(inst))
  <2>1. inst' = inst /\ main' = main
    BY DEF Worker, Read, Decide, Forwarded, Waited, WaitFails, Test, Clear, Report,
           CloseInterface, Forget, Quit, KernelExits, fieldVars
  <2> QED
    BY <2>1 DEF TunnelsSafe, Tunnels
<1>2. \A at \in Moves :
        LET e == [tunnel[s] EXCEPT !.worker = at] IN
        e \in TunnelTypes(inst) /\ e.open = tunnel[s].open
  BY <1>1 DEF TunnelTypes, Moves
<1>3. \A field2 \in {field, [field EXCEPT !.loop = FALSE], [field EXCEPT !.pid = None]} :
        /\ field2 \in FieldTypes(Len(tunnel))
        /\ field2.alive = field.alive /\ field2.iface = field.iface
  <2>1. 0 \in 0..Len(tunnel)
    BY <1>1, LenProperties
  <2> QED
    BY <1>1, <2>1 DEF FieldTypes, None
<1>4. ASSUME NEW at \in Moves, Goes(s, at), UNCHANGED forgotten,
             field' \in {field, [field EXCEPT !.loop = FALSE], [field EXCEPT !.pid = None]}
      PROVE  TunnelsSafe'
  <2> DEFINE e == [tunnel[s] EXCEPT !.worker = at]
  <2>1. tunnel' = [tunnel EXCEPT ![s] = e]
    BY <1>4 DEF Goes
  <2>2. e \in TunnelTypes(inst) /\ e.open = tunnel[s].open
    BY <1>2
  <2>3. /\ field' \in FieldTypes(Len(tunnel))
        /\ field'.alive = field.alive /\ field'.iface = field.iface
    BY <1>3, <1>4
  <2> HIDE DEF e
  <2> QED
    BY <1>1, <1>4, <2>1, <2>2, <2>3, Tuned
<1>5. CASE CloseInterface(s) /\ Mine(s)
  <2>1. /\ UNCHANGED <<field, forgotten>>
        /\ tunnel' = [r \in Tunnels |->
             [tunnel[r] EXCEPT !.open = tunnel[r].open /\ r # field.iface,
                               !.worker = IF r = s THEN "forget" ELSE tunnel[r].worker]]
    BY <1>5 DEF CloseInterface, fieldVars
  <2>2. \A r \in Tunnels : tunnel'[r] \in TunnelTypes(inst) /\ (tunnel'[r].open => r \in forgotten)
    <3> SUFFICES ASSUME NEW r \in Tunnels
                 PROVE  tunnel'[r] \in TunnelTypes(inst) /\ (tunnel'[r].open => r \in forgotten)
      OBVIOUS
    <3>1. tunnel[r] \in TunnelTypes(inst) /\ (tunnel[r].open /\ r # field.iface => r \in forgotten)
      BY <1>1 DEF TunnelsSafe, TunnelIsHeld, Tunnels
    <3>2. tunnel'[r] = [tunnel[r] EXCEPT !.open = tunnel[r].open /\ r # field.iface,
                                         !.worker = IF r = s THEN "forget" ELSE tunnel[r].worker]
      BY <2>1, <3>1
    <3>3. (IF r = s THEN "forget" ELSE tunnel[r].worker)
            \in {"unborn", "read", "decide", "forward", "wait", "test", "clear", "report",
                 "close", "forget", "quit", "gone"}
      BY <3>1 DEF TunnelTypes
    <3>4. (tunnel[r].open /\ r # field.iface) \in BOOLEAN
      OBVIOUS
    <3> QED
      BY <3>1, <3>2, <3>3, <3>4 DEF TunnelTypes
  <2>3. tunnel' \in Seq(TunnelTypes(inst)) /\ Len(tunnel') = Len(tunnel)
    <3>1. Len(tunnel) \in Nat
      BY <1>1, LenProperties
    <3>2. tunnel' = [r \in 1..Len(tunnel) |-> tunnel'[r]]
      BY <2>1 DEF Tunnels
    <3>3. \A r \in 1..Len(tunnel) : tunnel'[r] \in TunnelTypes(inst)
      BY <2>2 DEF Tunnels
    <3> QED
      BY <3>1, <3>2, <3>3
  <2>4. TunnelIsHeld'
    BY <2>1, <2>2, <2>3 DEF TunnelIsHeld, Tunnels
  <2> QED
    BY <1>1, <2>1, <2>3, <2>4 DEF TunnelsSafe, Tunnels
<1>12. CASE Forget(s) /\ Mine(s)
  <2> DEFINE e == [tunnel[s] EXCEPT !.worker = "quit"]
  <2>1. /\ tunnel' = [tunnel EXCEPT ![s] = e] /\ field' = [field EXCEPT !.iface = None]
        /\ forgotten' = forgotten \cup {r \in Tunnels : r = field.iface /\ tunnel[r].open}
    BY <1>12 DEF Forget, Goes
  <2>2. e \in TunnelTypes(inst) /\ e.open = tunnel[s].open
    BY <1>1 DEF TunnelTypes
  <2>3. tunnel'[s] = e /\ \A r \in Tunnels \ {s} : tunnel'[r] = tunnel[r]
    BY <1>1, <2>1 DEF Tunnels
  <2> HIDE DEF e
  <2>4. tunnel' \in Seq(TunnelTypes(inst)) /\ Len(tunnel') = Len(tunnel)
    BY <1>1, <2>1, <2>2 DEF Tunnels
  <2>5. \A r \in Tunnels : tunnel'[r].open => r \in forgotten'
    BY <2>1, <2>2, <2>3 DEF TunnelsSafe, TunnelIsHeld
  <2>6. TunnelIsHeld'
    BY <2>4, <2>5 DEF TunnelIsHeld, Tunnels
  <2>7. field' \in FieldTypes(Len(tunnel')) /\ field'.alive = field.alive /\ field'.iface = None
    <3>1. 0 \in 0..Len(tunnel)
      BY <1>1, LenProperties
    <3> QED
      BY <1>1, <2>1, <2>4, <3>1 DEF FieldTypes, None
  <2>8. forgotten' \subseteq Tunnels'
    BY <2>1, <2>4 DEF TunnelsSafe, Tunnels
  <2> QED
    BY <1>1, <2>4, <2>6, <2>7, <2>8 DEF TunnelsSafe
<1>6. CASE KernelExits(s)
  <2> DEFINE e == [tunnel[s] EXCEPT !.kernel = "gone"]
  <2>1. tunnel' = [tunnel EXCEPT ![s] = e] /\ UNCHANGED <<field, forgotten>>
    BY <1>6 DEF KernelExits, fieldVars
  <2>2. e \in TunnelTypes(inst) /\ e.open = tunnel[s].open
    BY <1>1 DEF TunnelTypes
  <2> QED
    BY <1>1, <2>1, <2>2, Tuned
<1>7. CASE Read(s)
  BY <1>4, <1>7 DEF Read, fieldVars, Moves
<1>8. CASE Decide(s) \/ Forwarded(s)
  BY <1>4, <1>8 DEF Decide, Forwarded, Write, fieldVars, Moves
<1>9. CASE Waited(s) \/ WaitFails(s) \/ Report(s) \/ Quit(s)
  BY <1>4, <1>9 DEF Waited, WaitFails, Report, Quit, fieldVars, Moves
<1>10. CASE Test(s) \/ Clear(s)
  BY <1>4, <1>10 DEF Test, Clear, fieldVars, Moves
<1>11. CASE (CloseInterface(s) \/ Forget(s)) /\ ~Mine(s)
  BY <1>4, <1>11 DEF CloseInterface, Forget, fieldVars, Moves
<1> QED
  BY <1>5, <1>6, <1>7, <1>8, <1>9, <1>10, <1>11, <1>12 DEF Worker

LEMMA TunnelsStaySafe == TunnelsSafe /\ enabled \in BOOLEAN /\ Next => TunnelsSafe'
<1> SUFFICES ASSUME TunnelsSafe, enabled \in BOOLEAN, Next PROVE TunnelsSafe'
  OBVIOUS
<1>1. CASE PlaneLost
  BY <1>1, GivingUpKeepsTunnels DEF PlaneLost
<1>2. CASE Mark
  BY <1>2 DEF Mark, fieldVars, tunnelVars, TunnelsSafe, TunnelIsHeld, Tunnels
<1>3. CASE Stop
  <2>1. inst' \in {inst, inst + 1} /\ inst' # 0 /\ main' = main /\ main = "looper"
    BY <1>3 DEF Stop, Born, TunnelsSafe
  <2> QED
    BY <1>3, <2>1, Emptied DEF Stop, StopVpn
<1>4. CASE Destroy
  BY <1>4, Emptied DEF Destroy, NoFields
<1>5. CASE Kill
  <2>1. Len(tunnel') = 0 /\ tunnel' \in Seq(TunnelTypes(inst')) /\ inst' = 0 /\ forgotten' = {}
    BY <1>5 DEF Kill
  <2>2. field' \in FieldTypes(0) /\ ~field'.alive
    BY <1>5 DEF Kill, FieldTypes, NoFields, None
  <2>3. TunnelIsHeld'
    BY <2>1 DEF TunnelIsHeld, Tunnels
  <2> QED
    BY <1>5, <2>1, <2>2, <2>3 DEF TunnelsSafe, Kill
<1>6. CASE StartCommand \/ StopCommand \/ Prepare \/ StorePayload \/ StoreInfo
           \/ (\E p \in Policies : PreparePolicy(p)) \/ WriteConfig \/ WriteFails \/ UpdatePolicy
           \/ BringDown \/ Revoke
  <2>1. UNCHANGED <<main, inst, field, tunnel, forgotten>>
    BY <1>6 DEF StartCommand, StopCommand, Prepare, StorePayload, StoreInfo, PreparePolicy,
                WriteConfig, WriteFails, UpdatePolicy, BringDown, Revoke, fieldVars,
                tunnelVars
  <2> QED
    BY <2>1 DEF TunnelsSafe, TunnelIsHeld, Tunnels
<1> QED
  BY <1>1, <1>2, <1>3, <1>4, <1>5, <1>6, StartKeepsTunnels, EstablishKeepsTunnels,
     PlaneKeepsTunnels, ThreadsKeepTunnels DEF Next, Looper

-----------------------------------------------------------------------------
(* The rest.                                                               *)

LEMMA StatusTyped ==
  ASSUME status \in StatusType, NEW m \in Modes
  PROVE  /\ MarkStarting \in StatusType /\ MarkRunning(m) \in StatusType
         /\ MarkStopped \in StatusType /\ MarkFailed \in StatusType
         /\ [MarkStarting EXCEPT !.mode = m] \in StatusType
         /\ [MarkFailed EXCEPT !.mode = m] \in StatusType
         /\ [status EXCEPT !.mode = m] \in StatusType
         /\ \A stage \in Stages : [status EXCEPT !.stage = stage] \in StatusType
<1>1. MarkStarting \in StatusType
  BY DEF StatusType, MarkStarting, Stages
<1>2. MarkStopped \in StatusType
  BY DEF StatusType, MarkStopped, Stages
<1>3. MarkFailed \in StatusType
  BY DEF StatusType, MarkFailed, Stages
<1>4. MarkRunning(m) \in StatusType
  BY DEF StatusType, MarkRunning, Stages
<1>5. \A t \in StatusType : [t EXCEPT !.mode = m] \in StatusType
  BY DEF StatusType
<1>6. \A stage \in Stages : [status EXCEPT !.stage = stage] \in StatusType
  BY DEF StatusType
<1> QED
  BY <1>1, <1>2, <1>3, <1>4, <1>5, <1>6

Messages == {"START", "STOP", "DESTROY", "REVOKE"}

LEMMA Posted ==
  ASSUME NEW q \in Seq(Messages)
  PROVE  /\ \A m \in Messages : Append(q, m) \in Seq(Messages)
         /\ q # <<>> => Tail(q) \in Seq(Messages)
         /\ <<>> \in Seq(Messages) /\ <<"START">> \in Seq(Messages)
BY DEF Messages

LEMMA RestStaysTyped == ASSUME IInv, Next PROVE RestTyped'
<1> USE MobileAssumption DEF RestTyped, IInv
<1>1. status \in StatusType /\ queue \in Seq(Messages) /\ enabled \in BOOLEAN /\ Saved \in Modes
      /\ status.mode \in Modes /\ "dns_only" \in Modes /\ "full_tunnel" \in Modes
  BY DEF PolicySafe, Saved, Messages, StatusType, Modes
<1>2. ASSUME status' \in StatusType, queue' \in Seq(Messages),
             permitted' \in BOOLEAN, record' \in {"none", "started", "idle"},
             main' \in {"looper", "establish", "plane", "mark"},
             commands' \in 0..MaxCommands, failures' \in 0..MaxFailures, kills' \in 0..MaxKills
      PROVE  RestTyped'
  BY <1>2 DEF Messages
<1>3. MayFail => failures' \in 0..MaxFailures
  BY DEF MayFail
<1>4. AskedFor => commands' \in 0..MaxCommands
  BY DEF AskedFor
<1>5. EndService => record' \in {"none", "started", "idle"}
  BY DEF EndService
<1>6. {"permission_required", "permission_denied", "policy_failed"} \subseteq Stages
  BY DEF Stages
<1>7. CASE StartCommand \/ StopCommand
  <2>1. queue' \in Seq(Messages) /\ record' \in {"none", "started", "idle"}
    BY <1>1, <1>7, Posted DEF StartCommand, StopCommand, Deliver, systemVars, Messages
  <2>2. status' \in StatusType
    BY <1>1, <1>6, <1>7, StatusTyped DEF StartCommand, StopCommand
  <2> QED
    BY <1>2, <1>4, <1>7, <2>1, <2>2 DEF StartCommand, StopCommand
<1>8. CASE Prepare
  BY <1>1, <1>2, <1>3, <1>6, <1>8, StatusTyped DEF Prepare, systemVars
<1>9. CASE StorePayload \/ StoreInfo \/ WriteConfig \/ WriteFails
  BY <1>1, <1>2, <1>3, <1>9 DEF StorePayload, StoreInfo, WriteConfig, WriteFails, systemVars
<1>10. ASSUME NEW p \in Policies, PreparePolicy(p) PROVE RestTyped'
  BY <1>1, <1>2, <1>4, <1>10 DEF PreparePolicy, systemVars
<1>11. CASE UpdatePolicy
  <2>1. applying.policy \in Policies
    BY <1>11 DEF UpdatePolicy, PolicySafe, ApplyingType
  <2>2. status' \in StatusType /\ failures' \in 0..MaxFailures
    BY <1>1, <1>3, <1>6, <1>11, <2>1, StatusTyped DEF UpdatePolicy, SavePolicy, TakeFields, Policies
  <2> QED
    BY <1>1, <1>2, <1>11, <2>2 DEF UpdatePolicy, systemVars
<1>12. CASE BringDown \/ Revoke
  <2>1. queue' \in Seq(Messages)
    BY <1>1, <1>12, Posted DEF BringDown, Revoke, Messages
  <2> QED
    BY <1>1, <1>2, <1>3, <1>12, <2>1 DEF BringDown, Revoke
<1>13. CASE Kill
  <2>1. status' \in StatusType
    BY <1>13 DEF Kill, StatusType, Initially, Stages, Modes
  <2>2. queue' \in Seq(Messages) /\ record' \in {"none", "started", "idle"}
    BY <1>1, <1>13, Posted DEF Kill
  <2>3. /\ permitted' = permitted /\ main' = "looper" /\ kills' \in 0..MaxKills
        /\ commands' = commands /\ failures' = failures
    BY <1>13 DEF Kill
  <2> QED
    BY <1>2, <2>1, <2>2, <2>3
<1>14. CASE Start
  <2>1. queue' \in Seq(Messages)
    BY <1>1, <1>14, Posted DEF Start
  <2>2. status' \in StatusType
    BY <1>1, <1>14, StatusTyped DEF Start, StartBegins, LoadPolicy
  <2>3. main' \in {"looper", "establish", "plane", "mark"} /\ failures' \in 0..MaxFailures
        /\ record' \in {"none", "started", "idle"}
    BY <1>3, <1>5, <1>14 DEF Start, StartBegins
  <2> QED
    BY <1>2, <1>14, <2>1, <2>2, <2>3 DEF Start
<1>15. CASE Establish \/ StartPlane \/ PlaneLost
  <2>1. /\ status' \in StatusType /\ record' \in {"none", "started", "idle"}
        /\ main' \in {"looper", "establish", "plane", "mark"}
    BY <1>1, <1>5, <1>15, StatusTyped DEF Establish, StartPlane, PlaneLost, GiveUp
  <2>2. failures' \in 0..MaxFailures
    BY <1>3, <1>15 DEF Establish, StartPlane, PlaneLost
  <2> QED
    BY <1>1, <1>2, <1>15, <2>1, <2>2 DEF Establish, StartPlane, PlaneLost
<1>16. CASE Mark
  BY <1>1, <1>2, <1>16, StatusTyped DEF Mark, systemVars
<1>17. CASE Stop \/ Destroy
  <2>1. queue' \in Seq(Messages)
    BY <1>1, <1>17, Posted DEF Stop, Destroy
  <2>2. status' \in StatusType
    BY <1>1, <1>17, StatusTyped DEF Stop, Destroy
  <2> QED
    BY <1>2, <1>5, <1>17, <2>1, <2>2 DEF Stop, Destroy
<1>18. ASSUME NEW s \in Tunnels, Worker(s) \/ KernelExits(s) PROVE RestTyped'
  <2>1. UNCHANGED <<permitted, queue, main, commands, kills>>
    BY <1>18 DEF Worker, Read, Decide, Forwarded, Waited, WaitFails, Test, Clear, Report,
                 CloseInterface, Forget, Quit, KernelExits, systemVars
  <2>2. record' \in {"none", "started", "idle"}
    BY <1>5, <1>18 DEF Worker, Read, Decide, Forwarded, Waited, WaitFails, Test, Clear, Report,
                       CloseInterface, Forget, Quit, KernelExits, systemVars
  <2>3. status' \in StatusType
    BY <1>1, <1>18, StatusTyped
       DEF Worker, Read, Decide, Forwarded, Waited, WaitFails, Test, Clear, Report,
           CloseInterface, Forget, Quit, KernelExits
  <2>4. failures' \in 0..MaxFailures
    BY <1>3, <1>18
       DEF Worker, Read, Decide, Forwarded, Waited, WaitFails, Test, Clear, Report,
           CloseInterface, Forget, Quit, KernelExits
  <2> QED
    BY <1>1, <1>2, <2>1, <2>2, <2>3, <2>4
<1> QED
  BY <1>7, <1>8, <1>9, <1>10, <1>11, <1>12, <1>13, <1>14, <1>15, <1>16, <1>17, <1>18
     DEF Next, Looper

-----------------------------------------------------------------------------
LEMMA Induction == IInv /\ [Next]_vars => IInv'
<1> SUFFICES ASSUME IInv, [Next]_vars PROVE IInv'
  OBVIOUS
<1>1. CASE Next
  BY <1>1, FilesStaySafe, PolicyStaysSafe, TunnelsStaySafe, RestStaysTyped DEF IInv, PolicySafe
<1>2. CASE UNCHANGED vars
  <2> USE <1>2 DEF vars, fileVars, policyVars, systemVars, fieldVars, tunnelVars, IInv
  <2>1. FilesSafe' /\ PolicySafe'
    BY DEF FilesSafe, PolicySafe, Rewriting
  <2>2. TunnelsSafe'
    BY DEF TunnelsSafe, TunnelIsHeld, Tunnels
  <2>3. RestTyped'
    BY DEF RestTyped
  <2> QED
    BY <2>1, <2>2, <2>3
<1> QED
  BY <1>1, <1>2

\* The invariant holds whatever the user, Android and the threads do, and in whatever
\* order.
THEOREM Invariance == Spec => []IInv
<1>1. Init => IInv
  BY InitSafe
<1>2. IInv /\ [Next]_vars => IInv'
  BY Induction
<1> QED
  BY <1>1, <1>2, PTL DEF Spec

\* Type correctness of the service: in particular its fields name tunnels there are.
THEOREM TypeCorrect == Spec => []TypeOK
<1>1. IInv => TypeOK
  <2> SUFFICES ASSUME IInv PROVE TypeOK
    OBVIOUS
  <2>1. payload \in 0..MaxImports /\ info \in 0..MaxImports /\ importing \in 0..MaxImports
        /\ imports \in 0..MaxImports
    BY MobileAssumption DEF IInv, FilesSafe, None
  <2>2. /\ config \in {"absent", "torn", "cut", "whole"} /\ saved \in {"none"} \cup Policies
        /\ engine \in Modes /\ enabled \in BOOLEAN
        /\ applying \in [policy : {"none"} \cup Policies, at : {"config", "plugin"}]
    BY DEF IInv, PolicySafe, ApplyingType, Policies
  <2>3. inst \in Nat /\ field \in FieldTypes(Len(tunnel)) /\ tunnel \in Seq(TunnelTypes(inst))
        /\ forgotten \subseteq Tunnels
    BY DEF IInv, TunnelsSafe
  <2>4. /\ status \in StatusType /\ permitted \in BOOLEAN /\ record \in {"none", "started", "idle"}
        /\ queue \in Seq({"START", "STOP", "DESTROY", "REVOKE"})
        /\ main \in {"looper", "establish", "plane", "mark"}
        /\ commands \in 0..MaxCommands /\ failures \in 0..MaxFailures /\ kills \in 0..MaxKills
    BY DEF IInv, RestTyped
  <2> QED
    BY <2>1, <2>2, <2>3, <2>4, Zenon DEF TypeOK, StatusType, FieldTypes, TunnelTypes
<1> QED
  BY <1>1, Invariance, PTL

\* An interface that is open is the one the service will close, however starts, stops,
\* failures and the threads of earlier tunnels follow each other - or one of those threads
\* has struck it from the fields in the place of another it had closed.
THEOREM TunnelsAreHeld == Spec => []TunnelIsHeld
<1>1. IInv => TunnelIsHeld
  BY DEF IInv, TunnelsSafe
<1> QED
  BY <1>1, Invariance, PTL

\* Whenever the process dies, the saved policy is one the engine takes, proxies are
\* complete, and a full tunnel has its configuration - which only an error or a death
\* in the middle of a rewrite leaves cut short.
THEOREM FilesStayUsable == Spec => []FilesAreUsable
<1>1. IInv => FilesAreUsable
  BY MobileAssumption DEF IInv, FilesSafe, PolicySafe, FilesAreUsable, Modes
<1> QED
  BY <1>1, Invariance, PTL

-----------------------------------------------------------------------------
(* What the status claims.                                                 *)

\* A thread is about to take the interface of the service, whichever that is, from its
\* fields; it may have closed it already.
Breaks == {"clear", "report", "close", "forget"}
Breaking == \E r \in Tunnels : tunnel[r].inst = inst /\ tunnel[r].worker \in Breaks
Forgetting == \E r \in Tunnels : tunnel[r].inst = inst /\ tunnel[r].worker = "forget"

\* A thread has taken it and is about to ask for the end of the service.
Leaving == \E r \in Tunnels : tunnel[r].inst = inst /\ tunnel[r].worker = "quit"

\* Something carries the packets of tunnel s, or its thread finds out that nothing does.
Attended(s) ==
  \/ /\ tunnel[s].mode = "dns_only" /\ field.loop
     /\ tunnel[s].worker \in {"read", "decide", "forward", "test"}
  \/ /\ tunnel[s].mode = "full_tunnel" /\ field.pid = s /\ ~field.stopping
     /\ tunnel[s].worker \in {"wait", "test"} /\ tunnel[s].kernel # "none"

\* Nobody carries the packets of an interface that has just been established.
IfaceIsOpen ==
  field.iface # None => /\ field.alive /\ tunnel[field.iface].inst = inst
                        /\ tunnel[field.iface].open \/ Forgetting
                        /\ main = "plane" => tunnel[field.iface].worker = "unborn"

IfaceIsAttended == field.iface # None /\ main # "plane" => Breaking \/ Attended(field.iface)

\* A service that claims to run, or is about to, and has lost its interface is being
\* ended, or a message for it is on its way.
LossIsNoticed ==
  (status.running \/ main = "mark") /\ field.iface = None
    => Leaving \/ record = "idle" \/ queue # <<>>

PlaneSafe ==
  /\ IfaceIsOpen /\ IfaceIsAttended /\ LossIsNoticed
  /\ main # "looper" => ~field.stopping
  /\ status.running => field.alive

LEMMA InitPlaneSafe == Init => PlaneSafe
BY DEF Init, PlaneSafe, IfaceIsOpen, IfaceIsAttended, LossIsNoticed, NoFields, Initially, None

\* Whoever leaves the service and its tunnels alone, and does not drop a message.
LEMMA Untouched ==
  ASSUME PlaneSafe, UNCHANGED <<inst, field, tunnel>>,
         main' = main \/ (main = "mark" /\ main' = "looper"),
         status'.running => (status.running \/ main = "mark") /\ field.alive,
         record = "idle" \/ queue # <<>> => record' = "idle" \/ queue' # <<>>
  PROVE  PlaneSafe'
<1>1. Tunnels' = Tunnels /\ Breaking' = Breaking /\ Leaving' = Leaving /\ Forgetting' = Forgetting
  BY DEF Tunnels, Breaking, Leaving, Forgetting
<1>2. field.iface # None => Attended(field.iface)' = Attended(field.iface)
  BY DEF Attended
<1>3. IfaceIsOpen'
  BY <1>1 DEF PlaneSafe, IfaceIsOpen
<1>4. IfaceIsAttended'
  BY <1>1, <1>2 DEF PlaneSafe, IfaceIsAttended
<1>5. LossIsNoticed'
  BY <1>1 DEF PlaneSafe, LossIsNoticed
<1> QED
  BY <1>3, <1>4, <1>5 DEF PlaneSafe

\* The service has let go of everything and says so.
LEMMA LetGo ==
  ASSUME field'.iface = None, main' = "looper" \/ (main' = "establish" /\ ~field'.stopping),
         ~status'.running
  PROVE  PlaneSafe'
BY DEF PlaneSafe, IfaceIsOpen, IfaceIsAttended, LossIsNoticed

\* A thread moves on, or the kernel of a tunnel ends.
LEMMA ThreadMoves ==
  ASSUME TunnelsSafe, PlaneSafe, NEW s \in Tunnels, NEW e, UNCHANGED <<inst, main, field>>,
         tunnel' = [tunnel EXCEPT ![s] = e],
         e.open = tunnel[s].open, e.inst = tunnel[s].inst, e.mode = tunnel[s].mode,
         status'.running => status.running,
         record = "idle" \/ queue # <<>> => record' = "idle" \/ queue' # <<>>,
         tunnel[s].worker = "unborn" => e.worker = "unborn",
         Mine(s) /\ tunnel[s].worker \in Breaks => e.worker = tunnel[s].worker,
         Mine(s) /\ tunnel[s].worker = "quit"
           => e.worker = "quit" \/ record' = "idle" \/ queue' # <<>>,
         Mine(s) /\ Attended(s) => Attended(s)'
  PROVE  PlaneSafe'
<1>1. /\ Tunnels' = Tunnels /\ tunnel'[s] = e
      /\ \A r \in Tunnels \ {s} : tunnel'[r] = tunnel[r]
      /\ field.iface # None => field.iface \in Tunnels
  BY DEF TunnelsSafe, Tunnels, FieldTypes, None
<1>2. \A r \in Tunnels : tunnel'[r].open = tunnel[r].open /\ tunnel'[r].inst = tunnel[r].inst
  BY <1>1
<1>3. IfaceIsOpen'
  <2>1. field.iface # None /\ Forgetting => Forgetting'
    BY <1>1, <1>2 DEF PlaneSafe, IfaceIsOpen, Forgetting, Breaks, Mine
  <2>2. field.iface # None /\ main = "plane" => tunnel'[field.iface].worker = "unborn"
    BY <1>1 DEF PlaneSafe, IfaceIsOpen
  <2> QED
    BY <1>1, <1>2, <2>1, <2>2 DEF PlaneSafe, IfaceIsOpen
<1>4. field.iface # None /\ Breaking => Breaking'
  BY <1>1, <1>2 DEF PlaneSafe, IfaceIsOpen, Breaking, Breaks, Mine
<1>5. field.iface # None /\ Attended(field.iface) => Attended(field.iface)'
  <2>1. ASSUME field.iface = s, Attended(field.iface) PROVE Attended(field.iface)'
    <3>1. Mine(s) /\ Attended(s)
      BY <1>1, <2>1, LenProperties DEF PlaneSafe, IfaceIsOpen, Mine, None, Tunnels, TunnelsSafe
    <3> QED
      BY <2>1, <3>1 DEF Attended
  <2>2. ASSUME field.iface \in Tunnels \ {s}, Attended(field.iface) PROVE Attended(field.iface)'
    BY <1>1, <2>2 DEF Attended
  <2> QED
    BY <1>1, <2>1, <2>2
<1>6. IfaceIsAttended'
  BY <1>4, <1>5 DEF PlaneSafe, IfaceIsAttended
<1>7. LossIsNoticed'
  <2> SUFFICES ASSUME status'.running \/ main' = "mark", field'.iface = None,
                      ~(record' = "idle" \/ queue' # <<>>)
               PROVE  Leaving'
    BY DEF LossIsNoticed
  <2>1. field.alive
    BY DEF PlaneSafe, TunnelsSafe
  <2>2. Leaving
    BY DEF PlaneSafe, LossIsNoticed
  <2> QED
    BY <1>1, <1>2, <2>1, <2>2 DEF Leaving, Mine
<1> QED
  BY <1>3, <1>6, <1>7 DEF PlaneSafe

\* A thread of the service has found its tunnel broken, or is on its way to say so.
LEMMA ThreadBreaks ==
  ASSUME TunnelsSafe, PlaneSafe, NEW s \in Tunnels, NEW at \in Breaks, Mine(s), Goes(s, at),
         tunnel[s].worker \notin {"unborn", "forget", "quit"}, UNCHANGED <<inst, main>>,
         field' \in {field, [field EXCEPT !.loop = FALSE], [field EXCEPT !.pid = None]},
         status'.running => status.running,
         record = "idle" \/ queue # <<>> => record' = "idle" \/ queue' # <<>>
  PROVE  PlaneSafe'
<1>1. /\ field'.iface = field.iface /\ field'.alive = field.alive
      /\ field'.stopping = field.stopping
      /\ field.iface # None => field.iface \in Tunnels
  BY DEF TunnelsSafe, FieldTypes, Tunnels, None
<1>2. /\ Tunnels' = Tunnels /\ tunnel'[s].worker = at
      /\ \A r \in Tunnels : tunnel'[r].open = tunnel[r].open /\ tunnel'[r].inst = tunnel[r].inst
      /\ \A r \in Tunnels \ {s} : tunnel'[r] = tunnel[r]
  BY DEF TunnelsSafe, Goes, Tunnels, TunnelTypes
<1>3. Breaking'
  BY <1>2 DEF Breaking, Mine
<1>4. /\ Leaving => Leaving'
      /\ Forgetting => Forgetting'
  BY <1>2 DEF Leaving, Forgetting
<1>5. IfaceIsOpen'
  <2>1. field.iface # None /\ main = "plane" => tunnel'[field.iface].worker = "unborn"
    BY <1>1, <1>2 DEF PlaneSafe, IfaceIsOpen
  <2> QED
    BY <1>1, <1>2, <1>4, <2>1 DEF PlaneSafe, IfaceIsOpen
<1>6. LossIsNoticed'
  BY <1>1, <1>4 DEF PlaneSafe, LossIsNoticed
<1> QED
  BY <1>1, <1>3, <1>5, <1>6 DEF PlaneSafe, IfaceIsAttended

LEMMA ThreadsKeepPlane ==
  ASSUME TunnelsSafe, RestTyped, PlaneSafe, NEW s \in Tunnels, Worker(s) \/ KernelExits(s)
  PROVE  PlaneSafe'
<1>1. /\ inst' = inst /\ main' = main /\ queue' = queue /\ tunnel[s] \in TunnelTypes(inst)
      /\ tunnel \in Seq(TunnelTypes(inst)) /\ s \in 1..Len(tunnel)
  <2>1. inst' = inst /\ main' = main /\ queue' = queue
    BY DEF Worker, Read, Decide, Forwarded, Waited, WaitFails, Test, Clear, Report,
           CloseInterface, Forget, Quit, KernelExits, fieldVars, systemVars
  <2> QED
    BY <2>1 DEF TunnelsSafe, Tunnels
<1>2. ASSUME NEW at, Goes(s, at), UNCHANGED field
      PROVE  LET e == [tunnel[s] EXCEPT !.worker = at] IN
             /\ tunnel' = [tunnel EXCEPT ![s] = e] /\ tunnel'[s] = e
             /\ e.open = tunnel[s].open /\ e.inst = tunnel[s].inst /\ e.mode = tunnel[s].mode
             /\ e.worker = at /\ e.kernel = tunnel[s].kernel
  BY <1>1, <1>2 DEF Goes, TunnelTypes
<1>3. ASSUME NEW at, Goes(s, at), UNCHANGED <<field, status, record>>,
             tunnel[s].worker \notin Breaks \cup {"unborn", "quit"},
             Mine(s) /\ Attended(s)
               => /\ at \in {"read", "decide", "forward", "test"}
                  /\ tunnel[s].mode = "full_tunnel" => at = "test"
      PROVE  PlaneSafe'
  <2> DEFINE e == [tunnel[s] EXCEPT !.worker = at]
  <2>1. /\ tunnel' = [tunnel EXCEPT ![s] = e] /\ tunnel'[s] = e
        /\ e.open = tunnel[s].open /\ e.inst = tunnel[s].inst /\ e.mode = tunnel[s].mode
        /\ e.worker = at /\ e.kernel = tunnel[s].kernel
    BY <1>2, <1>3
  <2> HIDE DEF e
  <2>2. Mine(s) /\ Attended(s) => Attended(s)'
    BY <1>3, <2>1 DEF Attended
  <2> QED
    BY <1>1, <1>3, <2>1, <2>2, ThreadMoves
<1>4. CASE Read(s)
  BY <1>1, <1>3, <1>4 DEF Read, Attended, Loop, Breaks, fieldVars, systemVars
<1>5. CASE Decide(s) \/ Forwarded(s)
  BY <1>1, <1>3, <1>5 DEF Decide, Forwarded, Write, Attended, Breaks, fieldVars, systemVars
<1>6. CASE Waited(s)
  BY <1>1, <1>3, <1>6 DEF Waited, Attended, Breaks, fieldVars, systemVars
<1>7. CASE WaitFails(s)
  <2>1. CASE Mine(s) /\ ~field.stopping
    <3>1. Goes(s, "report") /\ UNCHANGED <<field, status, record>> /\ tunnel[s].worker = "wait"
      BY <1>7, <2>1 DEF WaitFails, fieldVars, systemVars
    <3> QED
      BY <1>1, <2>1, <3>1, ThreadBreaks DEF Breaks
  <2>2. CASE ~(Mine(s) /\ ~field.stopping)
    <3>1. Goes(s, "gone") /\ UNCHANGED <<field, status, record>> /\ tunnel[s].worker = "wait"
      BY <1>7, <2>2 DEF WaitFails, fieldVars, systemVars
    <3>2. ~(Mine(s) /\ Attended(s))
      BY <2>2, <3>1 DEF Attended
    <3> QED
      BY <1>3, <3>1, <3>2 DEF Breaks
  <2> QED
    BY <2>1, <2>2
<1>8. CASE Test(s)
  <2>1. CASE Wanted(s)
    <3>1. Goes(s, "clear") /\ UNCHANGED <<field, status, record>> /\ tunnel[s].worker = "test"
      BY <1>8, <2>1 DEF Test, fieldVars, systemVars
    <3>2. Mine(s)
      BY <2>1 DEF Wanted, Loop
    <3> QED
      BY <1>1, <3>1, <3>2, ThreadBreaks DEF Breaks
  <2>2. CASE ~Wanted(s)
    <3>1. Goes(s, "gone") /\ UNCHANGED <<field, status, record>> /\ tunnel[s].worker = "test"
      BY <1>8, <2>2 DEF Test, fieldVars, systemVars
    <3>2. ~(Mine(s) /\ Attended(s))
      BY <2>2 DEF Wanted, Loop, Attended
    <3> QED
      BY <1>3, <3>1, <3>2 DEF Breaks
  <2> QED
    BY <2>1, <2>2
<1>9. CASE Mine(s) /\ (Clear(s) \/ Report(s))
  <2>1. PICK at \in Breaks : Goes(s, at)
    BY <1>9 DEF Clear, Report, Breaks
  <2>2. /\ tunnel[s].worker \in {"clear", "report"} /\ record' = record
        /\ field' \in {field, [field EXCEPT !.loop = FALSE], [field EXCEPT !.pid = None]}
    BY <1>9 DEF Clear, Report, fieldVars, systemVars
  <2>3. status'.running => status.running
    BY <1>9 DEF Clear, Report, MarkFailed, RestTyped, StatusType
  <2> QED
    BY <1>1, <1>9, <2>1, <2>2, <2>3, ThreadBreaks
<1>12. CASE ~Mine(s) /\ (Clear(s) \/ Report(s) \/ CloseInterface(s) \/ Forget(s))
  <2>1. PICK at : Goes(s, at)
    BY <1>12 DEF Clear, Report, CloseInterface, Forget
  <2>2. UNCHANGED <<field, record>> /\ tunnel[s].worker \in Breaks
    BY <1>12 DEF Clear, Report, CloseInterface, Forget, fieldVars, systemVars, Breaks
  <2>3. status'.running => status.running
    BY <1>12 DEF Clear, Report, CloseInterface, Forget, MarkFailed, RestTyped, StatusType
  <2> QED
    BY <1>1, <1>2, <1>12, <2>1, <2>2, <2>3, ThreadMoves DEF Breaks
<1>10. CASE Quit(s)
  <2>1. Goes(s, "gone") /\ UNCHANGED <<field, status>> /\ tunnel[s].worker = "quit"
    BY <1>10 DEF Quit, fieldVars
  <2>2. ~Attended(s)
    BY <2>1 DEF Attended
  <2>3. queue = <<>> => ~Doomed
    BY DEF Doomed, Contains
  <2>4. record = "idle" \/ queue # <<>> => record' = "idle" \/ queue' # <<>>
    BY <1>1, <1>10 DEF Quit, EndService
  <2>5. Mine(s) => record' = "idle" \/ queue' # <<>>
    BY <1>1, <1>10, <2>3 DEF Quit, EndService
  <2> DEFINE e == [tunnel[s] EXCEPT !.worker = "gone"]
  <2>6. /\ tunnel' = [tunnel EXCEPT ![s] = e]
        /\ e.open = tunnel[s].open /\ e.inst = tunnel[s].inst /\ e.mode = tunnel[s].mode
    BY <1>2, <2>1
  <2> HIDE DEF e
  <2> QED
    BY <1>1, <2>1, <2>2, <2>4, <2>5, <2>6, ThreadMoves DEF Breaks
<1>11. CASE KernelExits(s)
  <2> DEFINE e == [tunnel[s] EXCEPT !.kernel = "gone"]
  <2>1. /\ tunnel' = [tunnel EXCEPT ![s] = e] /\ tunnel'[s] = e
        /\ UNCHANGED <<field, status, record>>
    BY <1>1, <1>11 DEF KernelExits, fieldVars, systemVars, Tunnels
  <2>2. /\ e.open = tunnel[s].open /\ e.inst = tunnel[s].inst /\ e.mode = tunnel[s].mode
        /\ e.worker = tunnel[s].worker /\ e.kernel = "gone"
    BY <1>1 DEF TunnelTypes
  <2> HIDE DEF e
  <2>3. Attended(s) => Attended(s)'
    BY <2>1, <2>2 DEF Attended
  <2> QED
    BY <1>1, <2>1, <2>2, <2>3, ThreadMoves
<1>13. CASE CloseInterface(s) /\ Mine(s)
  <2>1. /\ UNCHANGED <<field, status, record>> /\ tunnel[s].worker = "close"
        /\ tunnel' = [r \in Tunnels |->
             [tunnel[r] EXCEPT !.open = tunnel[r].open /\ r # field.iface,
                               !.worker = IF r = s THEN "forget" ELSE tunnel[r].worker]]
    BY <1>13 DEF CloseInterface, fieldVars, systemVars
  <2>2. Tunnels' = Tunnels
    <3>1. tunnel' \in Seq(TunnelTypes(inst'))
      BY ThreadsKeepTunnels DEF TunnelsSafe
    <3>2. DOMAIN tunnel' = 1..Len(tunnel')
      BY <3>1, LenProperties
    <3>3. DOMAIN tunnel' = 1..Len(tunnel)
      BY <2>1 DEF Tunnels
    <3> QED
      BY <3>2, <3>3 DEF Tunnels
  <2>3. \A r \in Tunnels :
          /\ tunnel'[r].inst = tunnel[r].inst
          /\ tunnel'[r].worker = IF r = s THEN "forget" ELSE tunnel[r].worker
    <3> SUFFICES ASSUME NEW r \in Tunnels
                 PROVE  /\ tunnel'[r].inst = tunnel[r].inst
                        /\ tunnel'[r].worker = IF r = s THEN "forget" ELSE tunnel[r].worker
      OBVIOUS
    <3>1. tunnel[r] \in TunnelTypes(inst)
      BY <1>1 DEF Tunnels
    <3>2. tunnel'[r] = [tunnel[r] EXCEPT !.open = tunnel[r].open /\ r # field.iface,
                          !.worker = IF r = s THEN "forget" ELSE tunnel[r].worker]
      BY <2>1
    <3> HIDE DEF Tunnels
    <3> QED
      BY <3>1, <3>2 DEF TunnelTypes
  <2>4. Forgetting' /\ Breaking'
    BY <1>1, <1>13, <2>2, <2>3 DEF Forgetting, Breaking, Breaks, Mine
  <2>5. Leaving => Leaving'
    BY <1>1, <2>1, <2>2, <2>3 DEF Leaving
  <2>6. field.iface # None => field.iface \in Tunnels
    BY DEF TunnelsSafe, FieldTypes, Tunnels, None
  <2>7. IfaceIsOpen'
    BY <1>1, <2>1, <2>3, <2>4, <2>6 DEF PlaneSafe, IfaceIsOpen
  <2> QED
    BY <1>1, <2>1, <2>4, <2>5, <2>7 DEF PlaneSafe, IfaceIsAttended, LossIsNoticed
<1>14. CASE Forget(s) /\ Mine(s)
  <2>1. /\ field' = [field EXCEPT !.iface = None] /\ UNCHANGED status /\ Goes(s, "quit")
    BY <1>14 DEF Forget
  <2>2. /\ field'.iface = None /\ field'.alive = field.alive /\ field'.stopping = field.stopping
    BY <2>1 DEF TunnelsSafe, FieldTypes
  <2>3. Tunnels' = Tunnels /\ tunnel'[s].worker = "quit" /\ tunnel'[s].inst = tunnel[s].inst
    BY <1>1, <2>1 DEF Goes, Tunnels, TunnelTypes
  <2>4. Leaving'
    BY <1>1, <1>14, <2>3 DEF Leaving, Mine
  <2> QED
    BY <1>1, <2>1, <2>2, <2>4 DEF PlaneSafe, IfaceIsOpen, IfaceIsAttended, LossIsNoticed
<1> QED
  BY <1>4, <1>5, <1>6, <1>7, <1>8, <1>9, <1>10, <1>11, <1>12, <1>13, <1>14 DEF Worker

LEMMA StoppingLetsGo ==
  ASSUME RestTyped
  PROVE  ~MarkStarting.running /\ ~MarkStopped.running /\ ~MarkFailed.running
         /\ \A m \in Modes : /\ ~[MarkStarting EXCEPT !.mode = m].running
                             /\ ~[MarkFailed EXCEPT !.mode = m].running
                             /\ MarkRunning(m).running
BY DEF RestTyped, StatusType, MarkStarting, MarkStopped, MarkFailed, MarkRunning

LEMMA GivingUpKeepsPlane == ASSUME RestTyped, GiveUp PROVE PlaneSafe'
BY LetGo, StoppingLetsGo DEF GiveUp, StopVpn, NoFields

LEMMA StartKeepsPlane == ASSUME IInv, PlaneSafe, Start PROVE PlaneSafe'
<1>1. Born /\ StartBegins /\ main = "looper" /\ RestTyped /\ TunnelsSafe
  BY DEF Start, IInv
<1>2. Saved \in Modes
  BY DEF IInv, PolicySafe, Saved, Modes
<1>3. CASE field.iface # None /\ UNCHANGED <<field, main, tunnel>>
  <2>1. inst' = inst /\ field.alive
    BY <1>1, <1>3 DEF PlaneSafe, IfaceIsOpen, Born
  <2>2. Tunnels' = Tunnels
    BY <1>3 DEF Tunnels
  <2>3. /\ Breaking' = Breaking /\ Forgetting' = Forgetting
        /\ Attended(field.iface)' = Attended(field.iface)
    BY <1>3, <2>1 DEF Breaking, Forgetting, Attended, Tunnels
  <2>4. IfaceIsOpen'
    BY <1>3, <2>1, <2>3 DEF PlaneSafe, IfaceIsOpen
  <2> QED
    BY <1>1, <1>3, <2>1, <2>3, <2>4 DEF PlaneSafe, IfaceIsAttended, LossIsNoticed
<1>4. CASE /\ field.iface = None /\ field' = [Instance EXCEPT !.stopping = FALSE]
           /\ main' = "establish" /\ LoadPolicy
  <2>1. field'.iface = None /\ ~field'.stopping
    BY <1>1, <1>4 DEF Instance, Created, NoFields, None, FieldTypes, TunnelsSafe
  <2>2. ~status'.running
    BY <1>1, <1>2, <1>4, StoppingLetsGo DEF LoadPolicy
  <2> QED
    BY <1>4, <2>1, <2>2, LetGo
<1>5. CASE StopVpn /\ UNCHANGED main /\ status' = [MarkFailed EXCEPT !.mode = Saved]
  BY <1>1, <1>2, <1>5, LetGo, StoppingLetsGo DEF StopVpn, NoFields
<1> QED
  BY <1>1, <1>3, <1>4, <1>5 DEF StartBegins

LEMMA EstablishKeepsPlane ==
  ASSUME TunnelsSafe, RestTyped, PlaneSafe, Establish PROVE PlaneSafe'
<1>1. main = "establish" /\ UNCHANGED inst
  BY DEF Establish
<1>2. CASE GiveUp
  BY <1>2, GivingUpKeepsPlane
<1>3. CASE ~GiveUp
  <2> DEFINE new == [inst |-> inst, mode |-> IF enabled THEN "full_tunnel" ELSE "dns_only",
                     open |-> TRUE, worker |-> "unborn", kernel |-> "none"]
  <2>1. /\ tunnel' = Append(tunnel, new) /\ field' = [field EXCEPT !.iface = Len(tunnel')]
        /\ main' = "plane" /\ UNCHANGED status
    BY <1>3 DEF Establish
  <2>2. Len(tunnel') = Len(tunnel) + 1 /\ Len(tunnel) \in Nat /\ tunnel'[Len(tunnel')] = new
    BY <2>1, LenProperties DEF TunnelsSafe
  <2>3. /\ field'.iface = Len(tunnel') /\ field'.alive = field.alive
        /\ field'.stopping = field.stopping /\ field.alive
    BY <1>1, <2>1 DEF TunnelsSafe, FieldTypes
  <2>4. IfaceIsOpen'
    BY <1>1, <2>2, <2>3 DEF IfaceIsOpen
  <2>5. field'.iface # None
    BY <2>2, <2>3 DEF None
  <2> QED
    BY <1>1, <2>1, <2>3, <2>4, <2>5 DEF PlaneSafe, IfaceIsAttended, LossIsNoticed
<1> QED
  BY <1>2, <1>3

LEMMA PlaneKeepsPlane ==
  ASSUME TunnelsSafe, RestTyped, PlaneSafe, StartPlane PROVE PlaneSafe'
<1>1. PICK s \in Tunnels : s = field.iface /\ s # None
  BY DEF StartPlane, TunnelsSafe, FieldTypes, Tunnels, None
<1>2. main = "plane" /\ inst' = inst /\ tunnel[s] \in TunnelTypes(inst)
      /\ field \in FieldTypes(Len(tunnel)) /\ ~field.stopping
      /\ field.alive /\ tunnel[s].inst = inst /\ tunnel[s].worker = "unborn"
      /\ (tunnel[s].open \/ Forgetting)
  BY <1>1 DEF StartPlane, TunnelsSafe, Tunnels, PlaneSafe, IfaceIsOpen
<1>3. ASSUME NEW e, tunnel' = [tunnel EXCEPT ![s] = e], main' = "mark", UNCHANGED status,
             e.open = tunnel[s].open, e.inst = inst, field'.iface = s, field'.alive, ~field'.stopping,
             \/ e.mode = "dns_only" /\ field'.loop /\ e.worker = "read"
             \/ /\ e.mode = "full_tunnel" /\ field'.pid = s /\ e.worker = "wait"
                /\ e.kernel # "none"
      PROVE  PlaneSafe'
  <2>1. tunnel'[s] = e /\ Tunnels' = Tunnels /\ \A r \in Tunnels \ {s} : tunnel'[r] = tunnel[r]
    BY <1>3 DEF TunnelsSafe, Tunnels
  <2>2. Attended(s)'
    BY <1>3, <2>1 DEF Attended
  <2>5. Forgetting => Forgetting'
    BY <1>2, <2>1 DEF Forgetting
  <2>3. IfaceIsOpen' /\ LossIsNoticed'
    BY <1>1, <1>2, <1>3, <2>1, <2>5 DEF IfaceIsOpen, LossIsNoticed
  <2>4. IfaceIsAttended'
    BY <1>3, <2>2 DEF IfaceIsAttended, Attended
  <2> QED
    BY <1>3, <2>3, <2>4 DEF PlaneSafe
<1>4. CASE GiveUp
  BY <1>4, GivingUpKeepsPlane
<1>5. CASE /\ tunnel[s].mode = "dns_only" /\ main' = "mark" /\ UNCHANGED status
           /\ field' = [field EXCEPT !.loop = TRUE]
           /\ tunnel' = [tunnel EXCEPT ![s].worker = "read"]
  <2> DEFINE e == [tunnel[s] EXCEPT !.worker = "read"]
  <2>1. tunnel' = [tunnel EXCEPT ![s] = e]
    BY <1>5
  <2>2. e.open = tunnel[s].open /\ e.inst = inst /\ e.mode = "dns_only" /\ e.worker = "read"
    BY <1>2, <1>5 DEF TunnelTypes
  <2>3. field'.iface = s /\ field'.alive /\ ~field'.stopping /\ field'.loop
    BY <1>1, <1>2, <1>5 DEF FieldTypes
  <2> HIDE DEF e
  <2> QED
    BY <1>3, <1>5, <2>1, <2>2, <2>3
<1>6. ASSUME NEW kernel \in {"up", "ending"}, main' = "mark", UNCHANGED status,
             tunnel[s].mode = "full_tunnel", field' = [field EXCEPT !.pid = s],
             tunnel' = [tunnel EXCEPT ![s].worker = "wait", ![s].kernel = kernel]
      PROVE  PlaneSafe'
  <2> DEFINE e == [tunnel[s] EXCEPT !.worker = "wait", !.kernel = kernel]
  <2>1. /\ tunnel' = [tunnel EXCEPT ![s] = e] /\ main' = "mark" /\ UNCHANGED status
    BY <1>6
  <2>2. /\ e.open = tunnel[s].open /\ e.inst = inst /\ e.mode = "full_tunnel"
        /\ e.worker = "wait" /\ e.kernel # "none"
    BY <1>2, <1>6 DEF TunnelTypes
  <2>3. field'.iface = s /\ field'.alive /\ ~field'.stopping /\ field'.pid = s
    BY <1>1, <1>2, <1>6 DEF FieldTypes
  <2> HIDE DEF e
  <2> QED
    BY <1>3, <2>1, <2>2, <2>3
<1> QED
  BY <1>1, <1>4, <1>5, <1>6 DEF StartPlane

LEMMA PlaneStaysSafe == ASSUME IInv, PlaneSafe, Next PROVE PlaneSafe'
<1>1. RestTyped /\ TunnelsSafe
  BY DEF IInv
<1>2. queue # <<>> => \A m \in Messages : Append(queue, m) # <<>>
  BY <1>1 DEF RestTyped, Messages
<1>3. CASE StartCommand \/ StopCommand \/ BringDown \/ Revoke
  <2>1. UNCHANGED <<inst, field, tunnel, main>>
    BY <1>3 DEF StartCommand, StopCommand, BringDown, Revoke, fieldVars,
                tunnelVars
  <2>2. \A m : Append(queue, m) # <<>>
    BY <1>1 DEF RestTyped
  <2>3. status'.running => status.running
    BY <1>1, <1>3, StoppingLetsGo DEF StartCommand, StopCommand, BringDown, Revoke, RestTyped, StatusType
  <2>4. record = "idle" \/ queue # <<>> => record' = "idle" \/ queue' # <<>>
    BY <1>3, <2>2 DEF StartCommand, StopCommand, BringDown, Revoke, Deliver, systemVars
  <2> QED
    BY <2>1, <2>3, <2>4, Untouched DEF PlaneSafe
<1>4. CASE Prepare \/ StorePayload \/ StoreInfo \/ (\E p \in Policies : PreparePolicy(p))
           \/ WriteConfig \/ WriteFails \/ UpdatePolicy
  <2>1. UNCHANGED <<inst, field, tunnel, main, record, queue>>
    BY <1>4 DEF Prepare, StorePayload, StoreInfo, PreparePolicy, WriteConfig, WriteFails,
                UpdatePolicy, fieldVars, tunnelVars, systemVars
  <2>2. status'.running = status.running
    BY <1>1, <1>4 DEF Prepare, StorePayload, StoreInfo, PreparePolicy, WriteConfig, WriteFails,
                      UpdatePolicy, SavePolicy, TakeFields, RestTyped, StatusType
  <2> QED
    BY <2>1, <2>2, Untouched DEF PlaneSafe
<1>5. CASE Mark
  BY <1>1, <1>5, Untouched DEF Mark, fieldVars, systemVars, tunnelVars, TunnelsSafe
<1>6. CASE Kill
  BY <1>6, LetGo DEF Kill, NoFields, Initially
<1>7. CASE Stop
  BY <1>1, <1>7, LetGo, StoppingLetsGo DEF Stop, StopVpn, NoFields
<1>8. CASE Destroy
  BY <1>1, <1>8, LetGo, StoppingLetsGo DEF Destroy, NoFields
<1>9. CASE PlaneLost
  BY <1>1, <1>9, GivingUpKeepsPlane DEF PlaneLost
<1>10. CASE Start \/ Establish \/ StartPlane
  BY <1>1, <1>10, StartKeepsPlane, EstablishKeepsPlane, PlaneKeepsPlane
<1>11. ASSUME NEW s \in Tunnels, Worker(s) \/ KernelExits(s) PROVE PlaneSafe'
  BY <1>1, <1>11, ThreadsKeepPlane
<1> QED
  BY <1>3, <1>4, <1>5, <1>6, <1>7, <1>8, <1>9, <1>10, <1>11 DEF Next, Looper

\* When the status says running and nobody has anything left to do, the tunnel of the
\* service is open and something carries its packets: whatever threads of older tunnels
\* were still on their way out when it came up.
THEOREM RunningStaysTrue == Spec => []RunningIsTrue
<1>1. Init => PlaneSafe
  BY InitPlaneSafe
<1>2. IInv /\ PlaneSafe /\ [Next]_vars => PlaneSafe'
  <2> SUFFICES ASSUME IInv, PlaneSafe, [Next]_vars PROVE PlaneSafe'
    OBVIOUS
  <2>1. CASE UNCHANGED vars
    BY <2>1, Untouched DEF vars, fieldVars, systemVars, tunnelVars, PlaneSafe
  <2> QED
    BY <2>1, PlaneStaysSafe
<1>3. IInv /\ PlaneSafe => RunningIsTrue
  <2> SUFFICES ASSUME IInv, PlaneSafe, status.running, ~Pending
               PROVE  field.alive /\ field.iface # None /\ Carries(field.iface)
    BY DEF RunningIsTrue
  <2>1. TunnelsSafe
    BY DEF IInv
  <2>2. /\ main = "looper" /\ queue = <<>> /\ record # "idle"
        /\ \A s \in Tunnels : tunnel[s].worker \notin Breaks \cup {"test", "quit"}
        /\ \A s \in Tunnels :
             tunnel[s].worker = "wait" => tunnel[s].kernel \notin {"ending", "gone"}
    BY DEF Pending, Breaks
  <2>3. field.iface # None
    BY <2>2 DEF PlaneSafe, LossIsNoticed, Leaving
  <2>4. field.iface \in Tunnels
    BY <2>1, <2>3 DEF TunnelsSafe, FieldTypes, Tunnels, None
  <2>5. Attended(field.iface)
    BY <2>2, <2>3 DEF PlaneSafe, IfaceIsAttended, Breaking, Breaks
  <2>6. tunnel[field.iface] \in TunnelTypes(inst)
    BY <2>1, <2>4 DEF TunnelsSafe, Tunnels
  <2> QED
    BY <2>2, <2>3, <2>4, <2>5, <2>6
       DEF PlaneSafe, IfaceIsOpen, Forgetting, Breaks, Attended, Carries, Loop, Mine, TunnelTypes
<1> QED
  BY <1>1, <1>2, <1>3, Invariance, PTL DEF Spec

================================================================================
