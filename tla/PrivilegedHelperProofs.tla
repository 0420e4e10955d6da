----------------------- MODULE PrivilegedHelperProofs -----------------------
(***************************************************************************)
(* Theorems about PrivilegedHelper, for any set of services, resolvers and *)
(* addresses and any bounds: the safety properties MCPrivilegedHelper      *)
(* checks on two services, and the refinement of NetworkTakeover.          *)
(***************************************************************************)
EXTENDS PrivilegedHelper, TLAPS

(* The inductive invariant.  The properties speak of requests that are     *)
(* over; what makes them true has to be said of every location in between. *)

\* What the daemon knows of the backup, the kernel and the request from the
\* place it has reached.
Located ==
  /\ Stable \subseteq present
  /\ pc \in {"unroute", "prepare", "bypass", "record", "spawn", "decide",
             "collect", "save"} => file = "none"
  /\ pc \in {"restore", "list", "take"} => file = "valid"
  /\ pc \in {"open", "restore", "unroute", "prepare", "bypass", "record",
             "spawn"} => ~kernel
  /\ pc \in {"prepare", "bypass", "record", "spawn", "decide", "collect",
             "save", "list", "take", "abandon"} => req = "Start"
  /\ pc = "restore" => \A s \in todo : saved[s] # Absent
  /\ pc \in {"idle", "terminate", "open", "restore", "unroute", "prepare",
             "bypass", "record", "spawn", "decide"} => acc = NothingSaved

\* A setting that is the user's own, if the user is owed one at all.
Due(s, setting) == setting \in Resolvers /\ (orig[s] # Contested => setting = orig[s])

\* The setting of s can be given back, and is being collected or has been.
Restorable(s) ==
  /\ dns[s] = CleanWeb => file = "valid"
  /\ dns[s] # CleanWeb => Due(s, dns[s]) \/ orig[s] = Contested
  /\ file = "valid" => Due(s, saved[s])
  /\ pc \in {"collect", "save"} /\ acc[s] # Absent => Due(s, acc[s])
  /\ pc = "collect" => s \in todo \/ acc[s] # Absent
  /\ pc = "save" => acc[s] # Absent
  /\ pc = "restore" => s \in todo \/ dns[s] # CleanWeb

\* What a reported outcome implies.
Reported ==
  /\ pc = "idle" /\ reply = "err" => ~kernel
  /\ pc = "idle" /\ req = "Stop" /\ reply = "ok" =>
       ~kernel /\ (tunRoutes => uncleaned) /\ file = "none"

\* Routes wait for their record in one place only, where no older record is left.
Recorded ==
  /\ RoutesOnRecord
  /\ pc = "record" => routesFile = {}
  /\ pc # "record" => added = {}

IInv ==
  /\ TypeOK
  /\ Located
  /\ \A s \in Stable : Restorable(s)
  /\ Reported
  /\ Recorded

-----------------------------------------------------------------------------
\* The invariant holds at the start: nothing is taken over, nothing recorded.
LEMMA Initially == Init => IInv
<1> SUFFICES ASSUME Init PROVE IInv
  OBVIOUS
<1> USE ServicesAssumption, SettingsAssumption
<1> USE DEF Init, Stable
<1>1. TypeOK
  BY DEF TypeOK, Locations, Settings, NothingSaved
<1>2. Located
  BY DEF Located
<1>3. \A s \in Stable : Restorable(s)
  BY DEF Restorable, Due
<1>4. Reported
  BY DEF Reported
<1>5. Recorded
  BY DEF Recorded, RoutesOnRecord
<1> QED
  BY <1>1, <1>2, <1>3, <1>4, <1>5 DEF IInv

\* Every step keeps it, whoever takes it.  The steps that need thought are
\* those that change a setting (RestoreService, TakeService, EditSetting), the
\* backup (WriteBackup, RemoveBackup) or what the daemon remembers (Crash).
LEMMA Inductive == IInv /\ [Next]_vars => IInv'
<1> SUFFICES ASSUME IInv, [Next]_vars PROVE IInv'
  OBVIOUS
<1> USE ServicesAssumption, SettingsAssumption, BoundsAssumption
<1> USE DEF IInv, TypeOK, Locations, Located, Restorable, Due, Reported,
            Recorded, RoutesOnRecord, Stable, Settings, NothingSaved, diskVars, systemVars,
            localVars, Observers, GoTo, Answer
<1>1. CASE \E r \in {"Start","Stop"} : Accept(r) \/ Refuse(r)
  BY <1>1 DEF Accept, Refuse
<1>2. CASE KernelTerminates
  BY <1>2 DEF KernelTerminates
<1>3. CASE KernelIsKilled
  BY <1>3 DEF KernelIsKilled
<1>4. CASE OpenBackup
  <2>1. CASE file = "none" /\ GoTo("unroute")
    BY <1>4, <2>1 DEF OpenBackup
  <2>2. CASE file = "torn" /\ Answer("err")
    BY <1>4, <2>2 DEF OpenBackup
  <2>3. CASE file = "valid" /\ pc' = "restore"
    BY <1>4, <2>3 DEF OpenBackup
  <2> QED
    BY <1>4, <2>1, <2>2, <2>3 DEF OpenBackup
<1>5. CASE \E s \in Services : RestoreService(s)
  BY <1>5 DEF RestoreService
<1>6. CASE RestoreFails
  BY <1>6 DEF RestoreFails
<1>7. CASE RemoveBackup
  BY <1>7 DEF RemoveBackup
<1>8. CASE RemoveRoutes
  BY <1>8 DEF RemoveRoutes, CleanupBypass
<1>9. CASE PrepareFiles
  BY <1>9 DEF PrepareFiles
<1>10. CASE AddBypassRoutes
  BY <1>10 DEF AddBypassRoutes
<1>11. CASE RecordBypassRoutes
  BY <1>11 DEF RecordBypassRoutes
<1>12. CASE BypassFails
  BY <1>12 DEF BypassFails, CleanupBypass
<1>13. CASE SpawnKernel
  BY <1>13 DEF SpawnKernel
<1>14. CASE SpawnFails
  BY <1>14 DEF SpawnFails
<1>15. CASE PreserveDns
  BY <1>15 DEF PreserveDns
<1>16. CASE BeginTakeover
  BY <1>16 DEF BeginTakeover
<1>17. CASE \E s \in Services : CollectService(s)
  BY <1>17 DEF CollectService
<1>18. CASE CollectDone
  BY <1>18 DEF CollectDone
<1>19. CASE WriteBackup
  BY <1>19 DEF WriteBackup
<1>20. CASE ListServices
  BY <1>20 DEF ListServices
<1>21. CASE \E s \in Services : TakeService(s)
  BY <1>21 DEF TakeService
<1>22. CASE TakeoverDone
  BY <1>22 DEF TakeoverDone
<1>23. CASE TakeoverFails
  BY <1>23 DEF TakeoverFails
<1>24. CASE AbandonStart
  BY <1>24 DEF AbandonStart, CleanupBypass
<1>25. CASE Crash
  <2>1. /\ pc' = "idle" /\ reply' \in {reply, "lost"} /\ req' = req
        /\ pc # "idle" => reply' = "lost"
        /\ pc = "idle" => reply' = reply
        /\ todo' = {} /\ acc' = NothingSaved /\ added' = {} /\ slow' = FALSE
    BY <1>25 DEF Crash
  <2>2. /\ crashes' \in Nat /\ child' = FALSE
        /\ file' = file \/ (file = "none" /\ file' = "torn" /\ pc = "save")
    BY <1>25 DEF Crash
  <2>3. UNCHANGED <<saved, routesFile, dns, present, kernel, tunRoutes, orig,
                    uncleaned, edits>>
    BY <1>25 DEF Crash
  <2>4. lost' = lost \cup added /\ routes' \subseteq routes
    BY <1>25 DEF Crash
  <2>5. TypeOK' /\ Located' /\ Recorded'
    BY <2>1, <2>2, <2>3, <2>4
  <2>6. \A s \in Stable : Restorable(s)'
    BY <2>1, <2>2, <2>3
  <2>7. Reported'
    BY <2>1, <2>2, <2>3
  <2> QED
    BY <2>5, <2>6, <2>7
<1>26. CASE KernelBringsTunnelUp
  BY <1>26 DEF KernelBringsTunnelUp
<1>27. CASE KernelDies
  <2>1. kernel' = FALSE /\ ~kernel'
    BY <1>27 DEF KernelDies
  <2>2. UNCHANGED <<diskVars, dns, present, routes, child, tunRoutes,
                    localVars, Observers>>
    BY <1>27 DEF KernelDies
  <2>3. TypeOK'
    <3>1. kernel' \in BOOLEAN
      BY <2>1
    <3> QED
      BY <2>2, <3>1
  <2>4. Located'
    <3>1. UNCHANGED <<present, pc, file, req, todo, saved, acc>>
      BY <2>2
    <3> QED
      BY <2>1, <3>1
  <2>5. Reported'
    BY <2>1, <2>2
  <2>6. Recorded'
    BY <2>2
  <2>7. \A s \in Stable : Restorable(s)'
    BY <2>2
  <2> QED
    BY <2>3, <2>4, <2>5, <2>6, <2>7
<1>28. CASE \E s \in Services : EditSetting(s)
  BY <1>28 DEF EditSetting, TakeoverUnderWay
<1>29. CASE \E s \in Services : PlugService(s)
  BY <1>29 DEF PlugService
<1>30. CASE \E s \in Services : UnplugService(s)
  BY <1>30 DEF UnplugService
<1>31. CASE UNCHANGED vars
  BY <1>31 DEF vars
<1> QED
  BY <1>1, <1>2, <1>3, <1>4, <1>5, <1>6, <1>7, <1>8, <1>9, <1>10,
     <1>11, <1>12, <1>13, <1>14, <1>15, <1>16, <1>17, <1>18,
     <1>19, <1>20, <1>21, <1>22, <1>23, <1>24, <1>25, <1>26,
     <1>27, <1>28, <1>29, <1>30, <1>31
     DEF Next, Daemon, Stopping, Starting, Environment

\* The inductive invariant holds of every reachable state.
THEOREM Invariance == Spec => []IInv
  BY Initially, Inductive, PTL DEF Spec

\* Types, whatever the services and the bounds are.
THEOREM TypeCorrect == Spec => []TypeOK
<1>1. IInv => TypeOK
  BY DEF IInv
<1> QED
  BY <1>1, Invariance, PTL

\* The setting of a service CleanWeb has taken over can always be given back.
THEOREM OriginalsAreKept == Spec => []OriginalsKept
<1>1. IInv => OriginalsKept
  <2> SUFFICES ASSUME IInv, NEW s \in Stable
               PROVE  /\ dns[s] = CleanWeb => file = "valid" /\ saved[s] \in Resolvers
                      /\ orig[s] # Contested =>
                           orig[s] = IF dns[s] = CleanWeb THEN saved[s] ELSE dns[s]
    BY DEF OriginalsKept
  <2>1. Restorable(s)
    BY DEF IInv
  <2> QED
    BY <2>1 DEF Restorable, Due
<1> QED
  BY <1>1, Invariance, PTL

\* A stop that reports success has undone the takeover.
THEOREM StopRestores == Spec => []StopRestoresNetwork
<1>1. IInv => StopRestoresNetwork
  BY DEF IInv, Reported, Restorable, StopRestoresNetwork
<1> QED
  BY <1>1, Invariance, PTL

\* A request that fails after it was accepted leaves no kernel behind.
THEOREM FailureLeavesNoKernel == Spec => []FailedRequestLeavesNoKernel
<1>1. IInv => FailedRequestLeavesNoKernel
  BY DEF IInv, Reported, FailedRequestLeavesNoKernel
<1> QED
  BY <1>1, Invariance, PTL

\* Every host route the daemon has installed is on record, or about to be, unless
\* its deletion or its recording went wrong.
THEOREM RoutesStayOnRecord == Spec => []RoutesOnRecord
<1>1. IInv => RoutesOnRecord
  BY DEF IInv, Recorded
<1> QED
  BY <1>1, Invariance, PTL

-----------------------------------------------------------------------------
(* PrivilegedHelper implements NetworkTakeover under the identity mapping.  *)

\* A takeover step: a service whose setting is on record is pointed at CleanWeb.
LEMMA TakeRefines ==
  ASSUME IInv, NEW s \in Services, TakeService(s)
  PROVE  Takeover!Take(s)
<1>1. file = "valid"
  BY DEF IInv, Located, TakeService
<1>2. s \in Takeover!Stable => saved[s] # Absent
  BY <1>1, SettingsAssumption DEF IInv, Restorable, Due, Stable, Takeover!Stable
<1> QED
  BY <1>1, <1>2 DEF TakeService, diskVars, Takeover!Take

\* A restored service had a recorded setting.
LEMMA GiveBackRefines ==
  ASSUME IInv, NEW s \in Services, RestoreService(s)
  PROVE  Takeover!GiveBack(s)
  BY DEF IInv, TypeOK, Located, RestoreService, diskVars, Takeover!GiveBack

\* The backup is removed when every stable service has been given back.
LEMMA ForgetRefines == IInv /\ RemoveBackup => Takeover!Forget
  BY DEF IInv, Located, Restorable, RemoveBackup, GoTo, systemVars, Stable,
         NothingSaved, Takeover!Forget, Takeover!Stable, Takeover!NothingSaved

\* A written backup replaces nothing and knows every stable service.
LEMMA RecordRefines ==
  ASSUME IInv, pc = "save", UNCHANGED dns,
         \/ file' = "valid" /\ saved' = acc
         \/ file' = "torn" /\ saved' = saved
  PROVE  Takeover!Record
<1>1. file = "none"
  BY DEF IInv, Located
<1>2. saved' \in [Services -> Takeover!Settings \cup {Absent}]
  BY DEF IInv, TypeOK, Settings, Takeover!Settings
<1>3. file' = "valid" => \A s \in Takeover!Stable : saved'[s] \in Resolvers
  BY DEF IInv, Restorable, Due, Stable, Takeover!Stable
<1> QED
  BY <1>1, <1>2, <1>3 DEF Takeover!Record

\* A change by users and networks is one in both.
LEMMA EditRefines ==
  ASSUME NEW s \in Services, EditSetting(s) \/ PlugService(s)
  PROVE  Takeover!Edit(s)
  BY DEF EditSetting, PlugService, diskVars, Takeover!Edit

\* Every step is a step of NetworkTakeover, or leaves settings and record alone.
LEMMA StepRefines == IInv /\ [Next]_vars => [Takeover!Next]_(Takeover!takeoverVars)
<1> SUFFICES ASSUME IInv, [Next]_vars
             PROVE  Takeover!Next \/ UNCHANGED <<dns, file, saved>>
  BY DEF Takeover!takeoverVars
<1> USE DEF diskVars, systemVars, GoTo, Answer
<1>1. CASE \/ \E r \in {"Start", "Stop"} : Accept(r) \/ Refuse(r)
           \/ KernelTerminates \/ KernelIsKilled \/ OpenBackup
           \/ RestoreFails \/ RemoveRoutes
  BY <1>1 DEF Accept, Refuse, KernelTerminates, KernelIsKilled, OpenBackup,
              RestoreFails, RemoveRoutes
<1>2. CASE \/ PrepareFiles \/ AddBypassRoutes \/ RecordBypassRoutes \/ BypassFails
           \/ SpawnKernel \/ SpawnFails \/ PreserveDns \/ BeginTakeover
  BY <1>2 DEF PrepareFiles, AddBypassRoutes, RecordBypassRoutes, BypassFails,
              SpawnKernel, SpawnFails, PreserveDns, BeginTakeover
<1>3. CASE \/ \E s \in Services : CollectService(s)
           \/ CollectDone \/ ListServices \/ TakeoverDone \/ AbandonStart
  BY <1>3 DEF CollectService, CollectDone, ListServices, TakeoverDone, AbandonStart
<1>4. CASE \/ KernelBringsTunnelUp \/ KernelDies
           \/ \E s \in Services : UnplugService(s)
  BY <1>4 DEF KernelBringsTunnelUp, KernelDies, UnplugService
<1>5. CASE \E s \in Services : RestoreService(s)
  BY <1>5, GiveBackRefines DEF Takeover!Next
<1>6. CASE RemoveBackup
  BY <1>6, ForgetRefines DEF Takeover!Next
<1>7. CASE WriteBackup
  <2>1. Takeover!Record
    BY <1>7, RecordRefines DEF WriteBackup
  <2> QED
    BY <2>1 DEF Takeover!Next
<1>8. CASE \E s \in Services : TakeService(s)
  BY <1>8, TakeRefines DEF Takeover!Next
<1>9. CASE TakeoverFails
  <2>1. CASE pc # "save" \/ file' = "none"
    BY <1>9, <2>1 DEF TakeoverFails, IInv, Located
  <2>2. CASE pc = "save" /\ file' # "none"
    <3>1. /\ UNCHANGED dns
          /\ \/ file' = "valid" /\ saved' = acc
             \/ file' = "torn" /\ saved' = saved
      BY <1>9, <2>2 DEF TakeoverFails
    <3>2. Takeover!Record
      BY <2>2, <3>1, RecordRefines
    <3> QED
      BY <3>2 DEF Takeover!Next
  <2> QED
    BY <2>1, <2>2
<1>10. CASE Crash
  <2>1. UNCHANGED <<dns, saved>> /\ (pc = "save" \/ UNCHANGED file)
    BY <1>10 DEF Crash
  <2>2. CASE pc = "save" /\ file' = "torn"
    <3>1. Takeover!Record
      BY <2>1, <2>2, RecordRefines
    <3> QED
      BY <3>1 DEF Takeover!Next
  <2>3. CASE pc = "save" /\ file' = "none"
    BY <2>1, <2>3 DEF IInv, Located
  <2> QED
    BY <1>10, <2>1, <2>2, <2>3 DEF Crash
<1>11. CASE \E s \in Services : EditSetting(s) \/ PlugService(s)
  BY <1>11, EditRefines DEF Takeover!Next
<1>12. CASE UNCHANGED vars
  BY <1>12 DEF vars
<1> QED
  BY <1>1, <1>2, <1>3, <1>4, <1>5, <1>6, <1>7, <1>8, <1>9, <1>10, <1>11, <1>12
     DEF Next, Daemon, Stopping, Starting, Environment

\* The daemon, crashes and failures included, never does with the system DNS
\* what NetworkTakeover rules out.
THEOREM Refinement == Spec => ImplementsTakeover
<1>1. Init => Takeover!Init
  BY DEF Init, NothingSaved, Takeover!Init, Takeover!NothingSaved
<1> QED
  BY <1>1, Invariance, StepRefines, PTL DEF Spec, ImplementsTakeover, Takeover!Spec
=============================================================================
