---------------------- MODULE ProtectionRuntimeProofs ----------------------
(***************************************************************************)
(* Theorems about ProtectionRuntime, for any number of worker threads, any *)
(* set of steps that fail and any bounds: its types, that the two flags    *)
(* exclude each other's holders, and that a filter always has an owner;    *)
(* that the marker is true as long as no command rewrites config.yaml      *)
(* under another, and that a stop no other command overlaps is final.      *)
(***************************************************************************)
EXTENDS ProtectionRuntime, TLAPS

(* Types.                                                                  *)

\* The locations and operations the actions name, and the values they reset
\* threads and files to, are of their types.
LEMMA Literals ==
  /\ "idle" \in Locations
  /\ "wait" \in Locations
  /\ "claim" \in Locations
  /\ "look" \in Locations
  /\ "check" \in Locations
  /\ "recoverFilter" \in Locations
  /\ "recoverHelper" \in Locations
  /\ "recoverFiles" \in Locations
  /\ "return" \in Locations
  /\ "plan" \in Locations
  /\ "validate" \in Locations
  /\ "stopFilter" \in Locations
  /\ "stopHelper" \in Locations
  /\ "stopFiles" \in Locations
  /\ "build" \in Locations
  /\ "write" \in Locations
  /\ "helper" \in Locations
  /\ "filterStop" \in Locations
  /\ "filterBind" \in Locations
  /\ "filterStore" \in Locations
  /\ "pidFile" \in Locations
  /\ "tun" \in Locations
  /\ "mark" \in Locations
  /\ "abortLaunch" \in Locations
  /\ "abortKill" \in Locations
  /\ "abortFilter" \in Locations
  /\ "abortFiles" \in Locations
  /\ "release" \in Locations
  /\ "save" \in Locations
  /\ "Start" \in Operations
  /\ "Auto" \in Operations
  /\ "Stop" \in Operations
  /\ "Reload" \in Operations
  /\ "Recover" \in Operations
  /\ "Poll" \in Operations
  /\ Idle \in ThreadStates
  /\ None \in Kernels
BY DEF Locations, Operations, Idle, None, NoPid, ThreadStates, Kernels

\* Every thread is in a state of its type.
ThreadsTyped == thread \in [Threads -> ThreadStates]

\* A command that fails leaves its thread in a typed state: idle, or with the
\* operation and the flag it had.
LEMMA FailTyped ==
  ASSUME ThreadsTyped, NEW t \in Threads, Fail(t) PROVE ThreadsTyped'
<1>1. CASE thread[t].holds = "none"
  BY <1>1, Literals DEF Fail, ThreadsTyped
<1>2. CASE thread[t].holds # "none"
  <2> DEFINE new == [Idle EXCEPT !.pc = "release", !.op = thread[t].op, !.holds = thread[t].holds]
  <2>1. new \in ThreadStates
    BY Literals DEF ThreadsTyped, ThreadStates
  <2>2. thread' = [thread EXCEPT ![t] = new]
    BY <1>2 DEF Fail
  <2> QED
    BY <2>1, <2>2 DEF ThreadsTyped
<1> QED
  BY <1>1, <1>2

\* Accepting a command keeps every variable but threads and flags typed.
LEMMA AcceptTyped ==
  ASSUME TypeOK, NEW t \in Threads, NEW op, Accept(t, op)
  PROVE  /\ failures' \in 0..HealthFailureLimit
         /\ handle' \in BOOLEAN /\ filter' \in BOOLEAN
         /\ pidFile' \in Nat /\ marker' \in Kernels /\ configFile' \in Nat
         /\ kernel' \in Kernels /\ ready' \in BOOLEAN /\ dnsTaken' \in BOOLEAN
         /\ launched' \in Nat /\ policy' \in Nat /\ enabled' \in BOOLEAN
         /\ stopped' \in {"no", "asked", "done"}
         /\ requests' \in Nat /\ exits' \in Nat /\ crashes' \in Nat
BY DEF TypeOK, Accept, filterVars, fileVars, kernelVars, databaseVars

\* start_protection_exclusive keeps threads and its flag typed.
LEMMA StartTyped ==
  ASSUME ThreadsTyped, startFlag \in BOOLEAN, NEW t \in Threads,
         NEW op \in Operations, StartExclusively(t, op)
  PROVE  ThreadsTyped' /\ startFlag' \in BOOLEAN
<1>1. CASE startFlag
  BY <1>1, Literals DEF StartExclusively, ThreadsTyped, ThreadStates
<1>2. CASE ~startFlag
  <2> DEFINE new == [thread[t] EXCEPT !.pc = "stopFilter", !.op = op, !.holds = "start", !.after = TRUE]
  <2>1. new \in ThreadStates
    BY Literals DEF ThreadsTyped, ThreadStates
  <2>2. thread' = [thread EXCEPT ![t] = new] /\ startFlag' = TRUE
    BY <1>2 DEF StartExclusively, ThreadsTyped
  <2> QED
    BY <2>1, <2>2 DEF ThreadsTyped
<1> QED
  BY <1>1, <1>2

\* Whatever the helper answers, the kernel and the DNS stay typed.
LEMMA HelperTyped ==
  ASSUME TypeOK
  PROVE  /\ HelperFailsToStop => kernel' \in Kernels /\ dnsTaken' \in BOOLEAN
         /\ StartKernel \/ HelperFailsToStart =>
              /\ kernel' \in Kernels /\ launched' \in Nat
              /\ ready' \in BOOLEAN /\ dnsTaken' \in BOOLEAN
<1> USE Literals DEF TypeOK
<1>1. ASSUME HelperFailsToStop PROVE kernel' \in Kernels
  BY <1>1 DEF HelperFailsToStop
<1>2. ASSUME HelperFailsToStop PROVE dnsTaken' \in BOOLEAN
  BY <1>2 DEF HelperFailsToStop
<1>3. ASSUME StartKernel
      PROVE  /\ kernel' \in Kernels /\ launched' \in Nat
             /\ ready' \in BOOLEAN /\ dnsTaken' \in BOOLEAN
  <2>1. kernel' \in Kernels /\ launched' \in Nat
    BY <1>3 DEF StartKernel, Kernels
  <2> QED
    BY <1>3, <2>1 DEF StartKernel
<1>4. ASSUME HelperFailsToStart
      PROVE  /\ kernel' \in Kernels /\ launched' \in Nat
             /\ ready' \in BOOLEAN /\ dnsTaken' \in BOOLEAN
  <2>1. CASE UNCHANGED kernelVars
    BY <2>1 DEF kernelVars
  <2>2. CASE kernel' = None /\ ready' \in {ready, FALSE} /\ dnsTaken' \in BOOLEAN /\ UNCHANGED launched
    BY <2>2
  <2> QED
    BY <1>3, <1>4, <2>1, <2>2 DEF HelperFailsToStart
<1> QED
  BY <1>1, <1>2, <1>3, <1>4

\* Every step preserves the types.
LEMMA Typing == TypeOK /\ [Next]_vars => TypeOK'
<1> SUFFICES ASSUME TypeOK, [Next]_vars PROVE TypeOK'
  OBVIOUS
<1> USE Literals DEF TypeOK
<1>1. ASSUME NEW t \in Threads, LookForKernel(t) PROVE TypeOK'
  <2> DEFINE new == [thread[t] EXCEPT !.pc = "check",
                      !.seen = IF kernel.pid = pidFile THEN pidFile ELSE NoPid]
  <2>1. new \in ThreadStates
    BY <1>1 DEF LookForKernel, ThreadStates, NoPid, Kernels
  <2>2. thread' = [thread EXCEPT ![t] = new]
    BY <1>1 DEF LookForKernel
  <2>3. thread' \in [Threads -> ThreadStates]
    BY <2>1, <2>2
  <2>4. QED
    BY <2>3, <1>1
       DEF LookForKernel, flagVars, filterVars, fileVars, kernelVars, databaseVars,
           boundVars
<1>2. ASSUME NEW t \in Threads, Check(t) PROVE TypeOK'
  BY <1>2
     DEF Check, At, HealthFailureLimit, ThreadStates, flagVars, filterVars,
         fileVars, kernelVars, databaseVars, boundVars
<1>3. ASSUME NEW t \in Threads, RecoverFilter(t) PROVE TypeOK'
  BY <1>3
     DEF RecoverFilter, GoTo, StopFilter, At, ThreadStates, flagVars, filterVars,
         fileVars, kernelVars, databaseVars, boundVars
<1>4. ASSUME NEW t \in Threads, RecoverHelper(t) PROVE TypeOK'
  BY <1>4, HelperTyped
     DEF RecoverHelper, GoTo, At, ThreadStates, flagVars, filterVars, fileVars,
         kernelVars, databaseVars, boundVars
<1>5. ASSUME NEW t \in Threads, RecoverFiles(t) PROVE TypeOK'
  BY <1>5
     DEF RecoverFiles, GoTo, At, ThreadStates, NoPid, flagVars, filterVars,
         fileVars, kernelVars, databaseVars, boundVars
<1>6. ASSUME NEW t \in Threads, ReturnStatus(t) PROVE TypeOK'
  BY <1>6, StartTyped
     DEF ReturnStatus, At, ThreadStates, ThreadsTyped, flagVars, filterVars,
         fileVars, kernelVars, databaseVars, boundVars
<1>7. ASSUME NEW t \in Threads, ReturnResult(t) PROVE TypeOK'
  <2> DEFINE new == [thread[t] EXCEPT !.ok = TRUE, !.seen = NoPid, !.conf = 0,
                      !.pc = IF thread[t].holds = "none" THEN "save" ELSE "release"]
  <2>1. new \in ThreadStates
    BY <1>7 DEF ReturnResult, ThreadStates, NoPid, Kernels
  <2>2. thread' = [thread EXCEPT ![t] = new]
    BY <1>7 DEF ReturnResult
  <2>3. thread' \in [Threads -> ThreadStates]
    BY <2>1, <2>2
  <2>4. QED
    BY <2>3, <1>7
       DEF ReturnResult, flagVars, filterVars, fileVars, kernelVars, databaseVars,
           boundVars
<1>8. ASSUME NEW t \in Threads, Wait(t) PROVE TypeOK'
  BY <1>8
     DEF Wait, GoTo, At, ThreadStates, flagVars, filterVars, fileVars, kernelVars,
         databaseVars, boundVars
<1>9. ASSUME NEW t \in Threads, ClaimReload(t) PROVE TypeOK'
  BY <1>9
     DEF ClaimReload, At, ThreadStates, flagVars, filterVars, fileVars, kernelVars,
         databaseVars, boundVars
<1>10. ASSUME NEW t \in Threads, StopTheFilter(t) PROVE TypeOK'
  <2>1. thread' \in [Threads -> ThreadStates]
    BY <1>10 DEF StopTheFilter, GoTo, ThreadStates
  <2>2. failures' \in 0..HealthFailureLimit
    BY <1>10 DEF StopTheFilter, HealthFailureLimit
  <2>3. handle' \in BOOLEAN /\ filter' \in BOOLEAN
    BY <1>10 DEF StopTheFilter, StopFilter, filterVars
  <2>4. QED
    BY <2>1, <2>2, <2>3, <1>10
       DEF StopTheFilter, flagVars, fileVars, kernelVars, databaseVars, boundVars
<1>11. ASSUME NEW t \in Threads, StopTheKernel(t) PROVE TypeOK'
  <2>1. thread' \in [Threads -> ThreadStates]
    BY <1>11, FailTyped DEF StopTheKernel, GoTo, ThreadStates, ThreadsTyped
  <2>2. kernel' \in Kernels /\ dnsTaken' \in BOOLEAN
    BY <1>11, HelperTyped DEF StopTheKernel
  <2>3. QED
    BY <2>1, <2>2, <1>11
       DEF StopTheKernel, flagVars, filterVars, fileVars, kernelVars, databaseVars,
           boundVars
<1>12. ASSUME NEW t \in Threads, RemoveFiles(t) PROVE TypeOK'
  BY <1>12
     DEF RemoveFiles, GoTo, At, ThreadStates, NoPid, flagVars, filterVars,
         fileVars, kernelVars, databaseVars, boundVars
<1>13. ASSUME NEW t \in Threads, PlanReload(t) PROVE TypeOK'
  <2>1. thread' \in [Threads -> ThreadStates]
    BY <1>13, FailTyped DEF PlanReload, ThreadStates, ThreadsTyped
  <2>2. QED
    BY <2>1, <1>13
       DEF PlanReload, flagVars, filterVars, fileVars, kernelVars, databaseVars,
           boundVars
<1>14. ASSUME NEW t \in Threads, Validate(t) PROVE TypeOK'
  <2>1. thread' \in [Threads -> ThreadStates]
    BY <1>14, FailTyped DEF Validate, ThreadStates, NoPid, ThreadsTyped
  <2>2. QED
    BY <2>1, <1>14
       DEF Validate, ThreadStates, flagVars, filterVars, fileVars, kernelVars,
           databaseVars, boundVars
<1>15. ASSUME NEW t \in Threads, BuildConfig(t) PROVE TypeOK'
  <2>1. thread' \in [Threads -> ThreadStates]
    BY <1>15, FailTyped DEF BuildConfig, ThreadStates, ThreadsTyped
  <2>2. QED
    BY <2>1, <1>15
       DEF BuildConfig, flagVars, filterVars, fileVars, kernelVars, databaseVars,
           boundVars
<1>16. ASSUME NEW t \in Threads, WriteConfig(t) PROVE TypeOK'
  BY <1>16
     DEF WriteConfig, GoTo, At, ThreadStates, flagVars, filterVars, fileVars,
         kernelVars, databaseVars, boundVars
<1>17. ASSUME NEW t \in Threads, LaunchKernel(t) PROVE TypeOK'
  <2>1. thread' \in [Threads -> ThreadStates]
    <3>1. CASE Fail(t)
      BY <3>1, FailTyped DEF ThreadsTyped
    <3>2. CASE StartKernel /\ thread' = [thread EXCEPT ![t].pc = "filterStop", ![t].pid = launched']
      BY <3>2, HelperTyped DEF ThreadStates
    <3> QED
      BY <1>17, <3>1, <3>2 DEF LaunchKernel
  <2>2. /\ kernel' \in Kernels /\ launched' \in Nat
        /\ ready' \in BOOLEAN /\ dnsTaken' \in BOOLEAN
    BY <1>17, HelperTyped DEF LaunchKernel
  <2>3. QED
    BY <2>1, <2>2, <1>17
       DEF LaunchKernel, flagVars, filterVars, fileVars, databaseVars, boundVars
<1>18. ASSUME NEW t \in Threads, FilterStop(t) PROVE TypeOK'
  BY <1>18
     DEF FilterStop, GoTo, StopFilter, At, ThreadStates, flagVars, filterVars,
         fileVars, kernelVars, databaseVars, boundVars
<1>19. ASSUME NEW t \in Threads, FilterBind(t) PROVE TypeOK'
  <2>1. thread' \in [Threads -> ThreadStates]
    BY <1>19 DEF FilterBind, GoTo, ThreadStates
  <2>2. QED
    BY <2>1, <1>19
       DEF FilterBind, flagVars, filterVars, fileVars, kernelVars, databaseVars,
           boundVars
<1>20. ASSUME NEW t \in Threads, FilterStore(t) PROVE TypeOK'
  BY <1>20
     DEF FilterStore, GoTo, At, ThreadStates, flagVars, filterVars, fileVars,
         kernelVars, databaseVars, boundVars
<1>21. ASSUME NEW t \in Threads, WritePidFile(t) PROVE TypeOK'
  BY <1>21
     DEF WritePidFile, GoTo, At, ThreadStates, flagVars, filterVars, fileVars,
         kernelVars, databaseVars, boundVars
<1>22. ASSUME NEW t \in Threads, AwaitTun(t) PROVE TypeOK'
  BY <1>22
     DEF AwaitTun, GoTo, At, ThreadStates, flagVars, filterVars, fileVars,
         kernelVars, databaseVars, boundVars
<1>23. ASSUME NEW t \in Threads, WriteMarker(t) PROVE TypeOK'
  <2> DEFINE new == [thread[t] EXCEPT !.pc = "look", !.pid = NoPid, !.conf = 0]
  <2>1. new \in ThreadStates
    BY <1>23 DEF WriteMarker, ThreadStates, NoPid, Kernels
  <2>2. thread' = [thread EXCEPT ![t] = new]
    BY <1>23 DEF WriteMarker
  <2>3. thread' \in [Threads -> ThreadStates]
    BY <2>1, <2>2
  <2>4. marker' \in Kernels
    BY <1>23 DEF WriteMarker, ThreadStates, Kernels
  <2>5. QED
    BY <2>3, <2>4, <1>23
       DEF WriteMarker, flagVars, filterVars, fileVars, kernelVars, databaseVars,
           boundVars
<1>24. ASSUME NEW t \in Threads, AbortKill(t) PROVE TypeOK'
  <2> DEFINE new == [thread[t] EXCEPT !.ok = FALSE, !.pid = NoPid, !.conf = 0,
                      !.pc = IF At(t, "abortKill") THEN "abortFilter" ELSE "release"]
  <2>1. new \in ThreadStates
    BY <1>24 DEF AbortKill, ThreadStates, NoPid, Kernels
  <2>2. thread' = [thread EXCEPT ![t] = new]
    BY <1>24 DEF AbortKill
  <2>3. thread' \in [Threads -> ThreadStates]
    BY <2>1, <2>2
  <2>4. kernel' \in Kernels
    BY <1>24 DEF AbortKill
  <2>5. QED
    BY <2>3, <2>4, <1>24
       DEF AbortKill, flagVars, filterVars, fileVars, kernelVars, databaseVars,
           boundVars
<1>25. ASSUME NEW t \in Threads, AbortFilter(t) PROVE TypeOK'
  BY <1>25
     DEF AbortFilter, GoTo, StopFilter, At, ThreadStates, flagVars, filterVars,
         fileVars, kernelVars, databaseVars, boundVars
<1>26. ASSUME NEW t \in Threads, AbortFiles(t) PROVE TypeOK'
  BY <1>26
     DEF AbortFiles, GoTo, At, ThreadStates, NoPid, flagVars, filterVars, fileVars,
         kernelVars, databaseVars, boundVars
<1>27. ASSUME NEW t \in Threads, Release(t) PROVE TypeOK'
  BY <1>27
     DEF Release, At, ThreadStates, flagVars, filterVars, fileVars, kernelVars,
         databaseVars, boundVars
<1>28. ASSUME NEW t \in Threads, Save(t) PROVE TypeOK'
  BY <1>28
     DEF Save, At, ThreadStates, flagVars, filterVars, fileVars, kernelVars,
         databaseVars, boundVars
<1>29. ASSUME NEW t \in Threads, BeginStart(t) PROVE TypeOK'
  BY <1>29, AcceptTyped, StartTyped
     DEF BeginStart, At, ThreadStates, ThreadsTyped, flagVars, filterVars,
         fileVars, kernelVars, databaseVars, boundVars
<1>30. ASSUME NEW t \in Threads, BeginStop(t) PROVE TypeOK'
  BY <1>30, AcceptTyped
     DEF BeginStop, At, ThreadStates, flagVars, filterVars, fileVars, kernelVars,
         databaseVars, boundVars
<1>31. ASSUME NEW t \in Threads, BeginAuto(t) PROVE TypeOK'
  BY <1>31, AcceptTyped
     DEF BeginAuto, At, AutoStart, Idle, ThreadStates, flagVars, filterVars,
         fileVars, kernelVars, databaseVars, boundVars
<1>32. ASSUME NEW t \in Threads, BeginReload(t) PROVE TypeOK'
  BY <1>32, AcceptTyped
     DEF BeginReload, At, ThreadStates, flagVars, filterVars, fileVars, kernelVars,
         databaseVars, boundVars
<1>33. ASSUME NEW t \in Threads, BeginRecover(t) PROVE TypeOK'
  BY <1>33, AcceptTyped
     DEF BeginRecover, At, ThreadStates, flagVars, filterVars, fileVars,
         kernelVars, databaseVars, boundVars
<1>34. ASSUME BeginPoll PROVE TypeOK'
  BY <1>34
     DEF BeginPoll, GoTo, At, Threads, ThreadStates, flagVars, filterVars,
         fileVars, kernelVars, databaseVars, boundVars
<1>35. ASSUME KernelReady PROVE TypeOK'
  BY <1>35
     DEF KernelReady, ThreadStates, flagVars, filterVars, fileVars, kernelVars,
         databaseVars, boundVars
<1>36. ASSUME KernelExits PROVE TypeOK'
  BY <1>36
     DEF KernelExits, ThreadStates, flagVars, filterVars, fileVars, kernelVars,
         databaseVars, boundVars
<1>37. ASSUME PolicyChanges PROVE TypeOK'
  BY <1>37
     DEF PolicyChanges, ThreadStates, flagVars, filterVars, fileVars, kernelVars,
         databaseVars, boundVars
<1>38. ASSUME Crash PROVE TypeOK'
  <2>1. AutoStart \in ThreadStates
    BY DEF AutoStart, ThreadStates
  <2>2. thread' \in [Threads -> ThreadStates]
    BY <2>1, <1>38 DEF Crash
  <2>3. failures' \in 0..HealthFailureLimit /\ crashes' \in Nat
    BY <1>38 DEF Crash, HealthFailureLimit
  <2>4. QED
    BY <2>2, <2>3, <1>38 DEF Crash, fileVars, kernelVars, databaseVars
<1>39. CASE UNCHANGED vars
  BY <1>39
     DEF vars, flagVars, filterVars, fileVars, kernelVars, databaseVars, boundVars
<1> QED
  BY <1>1, <1>2, <1>3, <1>4, <1>5, <1>6, <1>7, <1>8, <1>9, <1>10, <1>11, <1>12,
     <1>13, <1>14, <1>15, <1>16, <1>17, <1>18, <1>19, <1>20, <1>21, <1>22, <1>23,
         <1>24, <1>25, <1>26, <1>27, <1>28, <1>29, <1>30, <1>31, <1>32, <1>33,
         <1>34, <1>35, <1>36, <1>37, <1>38, <1>39
     DEF Next, Begin, Step, Status, Command, Threads

\* Every variable keeps its type in every behaviour.
THEOREM TypeCorrect == Spec => []TypeOK
<1>1. Init => TypeOK
  <2> SUFFICES ASSUME Init PROVE TypeOK
    OBVIOUS
  <2>1. thread \in [Threads -> ThreadStates]
    BY Literals DEF Init
  <2>2. failures \in 0..HealthFailureLimit
    BY DEF Init, HealthFailureLimit
  <2> QED
    BY <2>1, <2>2, Literals DEF Init, TypeOK, NoPid
<1>2. TypeOK /\ [Next]_vars => TypeOK'
  BY Typing
<1> QED
  BY <1>1, <1>2, PTL DEF Spec

-----------------------------------------------------------------------------
(* The inductive invariant: where a thread that holds a flag can be, and   *)
(* what a thread about to store the handle of the filter may count on.     *)

\* A thread at rest, waiting, or past its release holds no flag; and only the
\* work that follows a claim, or the release itself, is done under one.
Placed(t) ==
  thread[t].holds # "none" =>
    /\ thread[t].pc \notin {"idle", "wait", "claim", "save"}
    /\ thread[t].after \/ thread[t].pc = "release"

Flags ==
  /\ \A t \in Threads : Placed(t)
  /\ FlagsAreExclusive

\* Between bind and store the filter runs, nobody has a handle to stop it, and
\* nobody else is there.
Filter ==
  /\ \A t \in Threads : At(t, "filterStore") => filter /\ ~handle
  /\ \A t, u \in Threads : At(t, "filterStore") /\ At(u, "filterStore") => t = u
  /\ FilterHasOwner

IInv == TypeOK /\ Flags /\ Filter

\* Only t moves.
Alone(t) == \A u \in Threads \ {t} : thread'[u] = thread[u]

\* A step of t that keeps the flag it holds, and goes where it may with it.
KeepsFlag(t) ==
  /\ Alone(t)
  /\ thread'[t].holds = thread[t].holds
  /\ Placed(t)'
  /\ UNCHANGED flagVars

\* A step of t that neither binds the port nor stores the handle.
KeepsFilter(t) ==
  /\ Alone(t)
  /\ thread[t].pc # "filterStore" /\ thread'[t].pc # "filterStore"
  /\ StopFilter \/ UNCHANGED filterVars

\* Such a step preserves what is said of the flags ...
LEMMA FlagsKept ==
  ASSUME Flags, NEW t \in Threads, KeepsFlag(t) PROVE Flags'
<1>1. \A u \in Threads : thread'[u].holds = thread[u].holds
  BY DEF KeepsFlag, Alone
<1>2. (\A u \in Threads : Placed(u))'
  BY DEF KeepsFlag, Alone, Flags, Placed
<1>3. FlagsAreExclusive'
  BY <1>1 DEF Flags, FlagsAreExclusive, KeepsFlag, flagVars
<1> QED
  BY <1>2, <1>3 DEF Flags

\* ... and such a step what is said of the filter.
LEMMA FilterKept ==
  ASSUME Filter, NEW t \in Threads, KeepsFilter(t) PROVE Filter'
<1>1. \A u \in Threads : At(u, "filterStore")' <=> At(u, "filterStore")
  BY DEF KeepsFilter, Alone, At
<1>2. CASE UNCHANGED filterVars
  BY <1>1, <1>2 DEF Filter, FilterHasOwner, filterVars
<1>3. CASE StopFilter
  BY <1>1, <1>3 DEF Filter, FilterHasOwner, StopFilter, filterVars
<1> QED
  BY <1>2, <1>3 DEF KeepsFilter

\* A command that fails under a flag goes to its release with it.
LEMMA FailKeeps ==
  ASSUME ThreadsTyped, NEW t \in Threads, Fail(t)
  PROVE  /\ Alone(t) /\ thread'[t].holds = thread[t].holds
         /\ Placed(t)' /\ thread'[t].pc # "filterStore"
<1>1. CASE thread[t].holds = "none"
  BY <1>1 DEF Fail, ThreadsTyped, Alone, Placed, Idle
<1>2. CASE thread[t].holds # "none"
  BY <1>2 DEF Fail, ThreadsTyped, Alone, Placed, Idle
<1> QED
  BY <1>1, <1>2

\* start_protection_exclusive, called by a thread that holds nothing, gives the
\* flag to it only if nobody has it.
LEMMA StartKeeps ==
  ASSUME ThreadsTyped, Flags, NEW t \in Threads, thread[t].holds = "none", NEW op,
         StartExclusively(t, op), UNCHANGED reloadFlag
  PROVE  Flags' /\ Alone(t) /\ thread'[t].pc # "filterStore"
<1>1. CASE startFlag
  <2>1. KeepsFlag(t) /\ thread'[t].pc # "filterStore"
    BY <1>1
       DEF StartExclusively, ThreadsTyped, ThreadStates, KeepsFlag, Alone, Placed,
           flagVars
  <2> QED
    BY <2>1, FlagsKept DEF KeepsFlag
<1>2. CASE ~startFlag
  <2>1. /\ Alone(t) /\ startFlag' = TRUE
        /\ thread'[t].holds = "start" /\ thread'[t].pc = "stopFilter" /\ thread'[t].after
    BY <1>2 DEF StartExclusively, ThreadsTyped, ThreadStates, Alone
  <2>2. (\A u \in Threads : Placed(u))'
    BY <2>1 DEF Alone, Flags, Placed
  <2>3. FlagsAreExclusive'
    BY <2>1, <1>2 DEF Alone, Flags, FlagsAreExclusive
  <2> QED
    BY <2>1, <2>2, <2>3 DEF Flags
<1> QED
  BY <1>1, <1>2

\* Every step preserves the invariant: those that move a thread without its
\* flag and away from the filter by the lemmas, the others one by one.
LEMMA Invariance == IInv /\ [Next]_vars => IInv'
<1> SUFFICES ASSUME IInv, [Next]_vars PROVE Flags' /\ Filter'
  BY Typing DEF IInv
<1>0. TypeOK /\ ThreadsTyped /\ Flags /\ Filter
  BY DEF IInv, TypeOK, ThreadsTyped
<1> DEFINE Keeps(t) == KeepsFlag(t) /\ KeepsFilter(t)
<1>k. ASSUME NEW t \in Threads, Keeps(t) PROVE Flags' /\ Filter'
  BY <1>k, <1>0, FlagsKept, FilterKept
<1>1. ASSUME NEW t \in Threads, LookForKernel(t) PROVE Keeps(t)
  BY <1>1, <1>0
     DEF LookForKernel, At, KeepsFlag, KeepsFilter, Alone, Flags, Placed,
         ThreadsTyped, ThreadStates
<1>2. ASSUME NEW t \in Threads, Check(t) PROVE Keeps(t)
  BY <1>2, <1>0
     DEF Check, At, KeepsFlag, KeepsFilter, Alone, Flags, Placed, ThreadsTyped,
         ThreadStates
<1>3. ASSUME NEW t \in Threads, RecoverFilter(t) PROVE Keeps(t)
  BY <1>3, <1>0
     DEF RecoverFilter, GoTo, At, KeepsFlag, KeepsFilter, Alone, Flags, Placed,
         ThreadsTyped, ThreadStates
<1>4. ASSUME NEW t \in Threads, RecoverHelper(t) PROVE Keeps(t)
  BY <1>4, <1>0
     DEF RecoverHelper, GoTo, At, KeepsFlag, KeepsFilter, Alone, Flags, Placed,
         ThreadsTyped, ThreadStates
<1>5. ASSUME NEW t \in Threads, RecoverFiles(t) PROVE Keeps(t)
  BY <1>5, <1>0
     DEF RecoverFiles, GoTo, At, KeepsFlag, KeepsFilter, Alone, Flags, Placed,
         ThreadsTyped, ThreadStates
<1>6. ASSUME NEW t \in Threads, ReturnResult(t) PROVE Keeps(t)
  BY <1>6, <1>0
     DEF ReturnResult, At, KeepsFlag, KeepsFilter, Alone, Flags, Placed,
         ThreadsTyped, ThreadStates
<1>7. ASSUME NEW t \in Threads, Wait(t) PROVE Keeps(t)
  BY <1>7, <1>0
     DEF Wait, GoTo, At, KeepsFlag, KeepsFilter, Alone, Flags, Placed,
         ThreadsTyped, ThreadStates
<1>8. ASSUME NEW t \in Threads, StopTheFilter(t) PROVE Keeps(t)
  BY <1>8, <1>0
     DEF StopTheFilter, GoTo, At, KeepsFlag, KeepsFilter, Alone, Flags, Placed,
         ThreadsTyped, ThreadStates
<1>9. ASSUME NEW t \in Threads, StopTheKernel(t) PROVE Keeps(t)
  BY <1>9, <1>0, FailKeeps
     DEF StopTheKernel, GoTo, At, KeepsFlag, KeepsFilter, Alone, Flags, Placed,
         ThreadsTyped, ThreadStates
<1>10. ASSUME NEW t \in Threads, RemoveFiles(t) PROVE Keeps(t)
  BY <1>10, <1>0
     DEF RemoveFiles, GoTo, At, KeepsFlag, KeepsFilter, Alone, Flags, Placed,
         ThreadsTyped, ThreadStates
<1>11. ASSUME NEW t \in Threads, PlanReload(t) PROVE Keeps(t)
  BY <1>11, <1>0, FailKeeps
     DEF PlanReload, At, KeepsFlag, KeepsFilter, Alone, Flags, Placed,
         ThreadsTyped, ThreadStates
<1>12. ASSUME NEW t \in Threads, Validate(t) PROVE Keeps(t)
  BY <1>12, <1>0, FailKeeps
     DEF Validate, At, KeepsFlag, KeepsFilter, Alone, Flags, Placed, ThreadsTyped,
         ThreadStates
<1>13. ASSUME NEW t \in Threads, BuildConfig(t) PROVE Keeps(t)
  BY <1>13, <1>0, FailKeeps
     DEF BuildConfig, At, KeepsFlag, KeepsFilter, Alone, Flags, Placed,
         ThreadsTyped, ThreadStates
<1>14. ASSUME NEW t \in Threads, WriteConfig(t) PROVE Keeps(t)
  BY <1>14, <1>0
     DEF WriteConfig, GoTo, At, KeepsFlag, KeepsFilter, Alone, Flags, Placed,
         ThreadsTyped, ThreadStates
<1>15. ASSUME NEW t \in Threads, LaunchKernel(t) PROVE Keeps(t)
  BY <1>15, <1>0, FailKeeps
     DEF LaunchKernel, At, KeepsFlag, KeepsFilter, Alone, Flags, Placed,
         ThreadsTyped, ThreadStates
<1>16. ASSUME NEW t \in Threads, FilterStop(t) PROVE Keeps(t)
  BY <1>16, <1>0
     DEF FilterStop, GoTo, At, KeepsFlag, KeepsFilter, Alone, Flags, Placed,
         ThreadsTyped, ThreadStates
<1>17. ASSUME NEW t \in Threads, WritePidFile(t) PROVE Keeps(t)
  BY <1>17, <1>0
     DEF WritePidFile, GoTo, At, KeepsFlag, KeepsFilter, Alone, Flags, Placed,
         ThreadsTyped, ThreadStates
<1>18. ASSUME NEW t \in Threads, AwaitTun(t) PROVE Keeps(t)
  BY <1>18, <1>0
     DEF AwaitTun, GoTo, At, KeepsFlag, KeepsFilter, Alone, Flags, Placed,
         ThreadsTyped, ThreadStates
<1>19. ASSUME NEW t \in Threads, WriteMarker(t) PROVE Keeps(t)
  BY <1>19, <1>0
     DEF WriteMarker, At, KeepsFlag, KeepsFilter, Alone, Flags, Placed,
         ThreadsTyped, ThreadStates
<1>20. ASSUME NEW t \in Threads, AbortKill(t) PROVE Keeps(t)
  BY <1>20, <1>0
     DEF AbortKill, At, KeepsFlag, KeepsFilter, Alone, Flags, Placed, ThreadsTyped,
         ThreadStates
<1>21. ASSUME NEW t \in Threads, AbortFilter(t) PROVE Keeps(t)
  BY <1>21, <1>0
     DEF AbortFilter, GoTo, At, KeepsFlag, KeepsFilter, Alone, Flags, Placed,
         ThreadsTyped, ThreadStates
<1>22. ASSUME NEW t \in Threads, AbortFiles(t) PROVE Keeps(t)
  BY <1>22, <1>0
     DEF AbortFiles, GoTo, At, KeepsFlag, KeepsFilter, Alone, Flags, Placed,
         ThreadsTyped, ThreadStates
<1>23. ASSUME NEW t \in Threads, Save(t) PROVE Keeps(t)
  BY <1>23, <1>0
     DEF Save, At, Idle, KeepsFlag, KeepsFilter, Alone, Flags, Placed,
         ThreadsTyped, ThreadStates
<1>24. ASSUME NEW t \in Threads, BeginStop(t) PROVE Keeps(t)
  BY <1>24, <1>0
     DEF BeginStop, Accept, At, KeepsFlag, KeepsFilter, Alone, Flags, Placed,
         ThreadsTyped, ThreadStates
<1>25. ASSUME NEW t \in Threads, BeginAuto(t) PROVE Keeps(t)
  BY <1>25, <1>0
     DEF BeginAuto, Accept, At, AutoStart, Idle, KeepsFlag, KeepsFilter, Alone,
         Flags, Placed, ThreadsTyped, ThreadStates
<1>26. ASSUME NEW t \in Threads, BeginReload(t) PROVE Keeps(t)
  BY <1>26, <1>0
     DEF BeginReload, Accept, At, KeepsFlag, KeepsFilter, Alone, Flags, Placed,
         ThreadsTyped, ThreadStates
<1>27. ASSUME NEW t \in Threads, BeginRecover(t) PROVE Keeps(t)
  BY <1>27, <1>0
     DEF BeginRecover, Accept, At, KeepsFlag, KeepsFilter, Alone, Flags, Placed,
         ThreadsTyped, ThreadStates
<1>28. ASSUME BeginPoll PROVE Keeps(Main)
  BY <1>28, <1>0
     DEF BeginPoll, Threads, GoTo, At, KeepsFlag, KeepsFilter, Alone, Flags,
         Placed, ThreadsTyped, ThreadStates, boundVars
<1>40. ASSUME NEW t \in Threads, BeginStart(t) PROVE Flags' /\ Filter'
  <2>1. thread[t].holds = "none" /\ thread[t].pc # "filterStore"
    BY <1>40, <1>0 DEF BeginStart, Accept, At, Flags, Placed
  <2>2. Flags' /\ Alone(t) /\ thread'[t].pc # "filterStore"
    BY <1>40, <1>0, <2>1, StartKeeps DEF BeginStart
  <2>3. KeepsFilter(t)
    BY <1>40, <2>1, <2>2 DEF BeginStart, Accept, KeepsFilter
  <2> QED
    BY <2>2, <2>3, <1>0, FilterKept
<1>41. ASSUME NEW t \in Threads, ReturnStatus(t) PROVE Flags' /\ Filter'
  <2>1. thread[t].holds = "none" /\ thread[t].pc # "filterStore"
    BY <1>41, <1>0 DEF ReturnStatus, At, Flags, Placed
  <2>2. CASE \E op \in Operations : StartExclusively(t, op) /\ UNCHANGED reloadFlag
    <3>1. Flags' /\ Alone(t) /\ thread'[t].pc # "filterStore"
      BY <2>1, <2>2, <1>0, StartKeeps
    <3>2. KeepsFilter(t)
      BY <1>41, <2>1, <3>1 DEF ReturnStatus, KeepsFilter
    <3> QED
      BY <3>1, <3>2, <1>0, FilterKept
  <2>3. CASE /\ ~reloadFlag /\ reloadFlag' = TRUE /\ UNCHANGED startFlag
             /\ thread' = [thread EXCEPT ![t].pc = "plan", ![t].holds = "reload",
                                         ![t].after = TRUE]
    <3>1. /\ Alone(t) /\ thread'[t].holds = "reload"
          /\ thread'[t].pc = "plan" /\ thread'[t].after
          /\ ~reloadFlag /\ reloadFlag' = TRUE /\ UNCHANGED startFlag
      BY <2>3, <1>0 DEF Alone, ThreadsTyped, ThreadStates
    <3>2. Flags'
      <4>1. (\A u \in Threads : Placed(u))'
        BY <3>1, <1>0 DEF Alone, Flags, Placed
      <4>2. FlagsAreExclusive'
        BY <2>1, <3>1, <1>0 DEF Alone, Flags, FlagsAreExclusive
      <4> QED
        BY <4>1, <4>2 DEF Flags
    <3>3. KeepsFilter(t)
      BY <1>41, <2>1, <3>1 DEF ReturnStatus, KeepsFilter
    <3> QED
      BY <3>2, <3>3, <1>0, FilterKept
  <2>4. CASE thread' = [thread EXCEPT ![t] = Idle] /\ UNCHANGED flagVars
    <3>1. Keeps(t)
      BY <1>41, <2>1, <2>4, <1>0
         DEF ReturnStatus, KeepsFlag, KeepsFilter, Alone, Placed, ThreadsTyped, Idle
    <3> QED
      BY <3>1, <1>k
  <2> QED
    BY <1>41, <2>2, <2>3, <2>4, Literals DEF ReturnStatus
<1>42. ASSUME NEW t \in Threads, ClaimReload(t) PROVE Flags' /\ Filter'
  <2>1. thread[t].holds = "none" /\ thread[t].pc = "claim"
    BY <1>42, <1>0 DEF ClaimReload, At, Flags, Placed
  <2>2. CASE reloadFlag /\ thread' = [thread EXCEPT ![t] = Idle]
    <3>1. Keeps(t)
      BY <1>42, <2>1, <2>2, <1>0
         DEF ClaimReload, KeepsFlag, KeepsFilter, Alone, Placed, ThreadsTyped,
             Idle, flagVars, TypeOK
    <3> QED
      BY <3>1, <1>k
  <2>3. CASE ~reloadFlag
    <3>1. /\ Alone(t) /\ thread'[t].holds = "reload" /\ reloadFlag' = TRUE
          /\ thread'[t].pc = "stopFilter" /\ thread'[t].after /\ UNCHANGED startFlag
      BY <1>42, <2>3, <1>0 DEF ClaimReload, Alone, ThreadsTyped, ThreadStates
    <3>2. Flags'
      BY <2>1, <2>3, <3>1, <1>0 DEF Alone, Flags, Placed, FlagsAreExclusive
    <3>3. KeepsFilter(t)
      BY <1>42, <2>1, <3>1 DEF ClaimReload, KeepsFilter
    <3> QED
      BY <3>2, <3>3, <1>0, FilterKept
  <2> QED
    BY <1>42, <2>2, <2>3 DEF ClaimReload
<1>43. ASSUME NEW t \in Threads, Release(t) PROVE Flags' /\ Filter'
  <2>1. /\ Alone(t) /\ thread'[t].holds = "none" /\ thread'[t].pc = "save"
        /\ thread[t].pc = "release"
    BY <1>43, <1>0 DEF Release, At, Alone, ThreadsTyped, ThreadStates
  <2>2. (\A u \in Threads : Placed(u))'
    BY <2>1, <1>0 DEF Alone, Flags, Placed
  <2>3. FlagsAreExclusive'
    <3>1. startFlag' = (startFlag /\ thread[t].holds # "start")
      BY <1>43 DEF Release
    <3>2. reloadFlag' = (reloadFlag /\ thread[t].holds # "reload")
      BY <1>43 DEF Release
    <3>3. startFlag' <=> \E u \in Threads : thread'[u].holds = "start"
      BY <3>1, <2>1, <1>0 DEF Alone, Flags, FlagsAreExclusive
    <3>4. reloadFlag' <=> \E u \in Threads : thread'[u].holds = "reload"
      BY <3>2, <2>1, <1>0 DEF Alone, Flags, FlagsAreExclusive
    <3>5. \A u, v \in Threads :
            thread'[u].holds = thread'[v].holds /\ thread'[u].holds # "none" => u = v
      BY <2>1, <1>0 DEF Alone, Flags, FlagsAreExclusive
    <3> QED
      BY <3>3, <3>4, <3>5 DEF FlagsAreExclusive
  <2>4. KeepsFilter(t)
    BY <1>43, <2>1 DEF Release, KeepsFilter
  <2> QED
    BY <2>2, <2>3, <2>4, <1>0, FilterKept DEF Flags
<1>44. ASSUME NEW t \in Threads, FilterBind(t) PROVE Flags' /\ Filter'
  <2>1. KeepsFlag(t)
    BY <1>44, <1>0
       DEF FilterBind, GoTo, At, KeepsFlag, Alone, Flags, Placed, ThreadsTyped,
           ThreadStates
  <2>2. CASE ~filter /\ filter' = TRUE /\ GoTo(t, "filterStore")
    <3>1. /\ At(t, "filterStore")' /\ ~At(t, "filterStore")
          /\ UNCHANGED handle
      BY <1>44, <2>2, <1>0 DEF FilterBind, GoTo, At, ThreadsTyped, ThreadStates
    <3>2. \A u \in Threads \ {t} : ~At(u, "filterStore")'
      BY <2>1, <2>2, <1>0 DEF KeepsFlag, Alone, At, Filter
    <3> QED
      BY <2>1, <2>2, <3>1, <3>2, <1>0, FlagsKept DEF Filter, FilterHasOwner
  <2>3. CASE GoTo(t, "abortLaunch") /\ UNCHANGED filter
    <3>1. Keeps(t)
      BY <1>44, <2>1, <2>3, <1>0
         DEF FilterBind, GoTo, At, KeepsFilter, KeepsFlag, ThreadsTyped,
             ThreadStates, filterVars
    <3> QED
      BY <3>1, <1>k
  <2> QED
    BY <1>44, <2>2, <2>3 DEF FilterBind
<1>45. ASSUME NEW t \in Threads, FilterStore(t) PROVE Flags' /\ Filter'
  <2>1. KeepsFlag(t)
    BY <1>45, <1>0
       DEF FilterStore, GoTo, At, KeepsFlag, Alone, Flags, Placed, ThreadsTyped,
           ThreadStates
  <2>2. /\ At(t, "filterStore") /\ ~At(t, "filterStore")'
        /\ handle' = TRUE /\ UNCHANGED filter
    BY <1>45, <1>0 DEF FilterStore, GoTo, At, ThreadsTyped, ThreadStates
  <2>3. \A u \in Threads : ~At(u, "filterStore")'
    BY <2>1, <2>2, <1>0 DEF KeepsFlag, Alone, At, Filter
  <2> QED
    BY <2>1, <2>2, <2>3, <1>0, FlagsKept DEF Filter, FilterHasOwner
<1>46. ASSUME Crash PROVE Flags' /\ Filter'
  <2>1. \A u \in Threads : thread'[u] \in {Idle, AutoStart}
    BY <1>46 DEF Crash
  <2>2. \A u \in Threads : thread'[u].holds = "none" /\ thread'[u].pc # "filterStore"
    <3>1. Idle.holds = "none" /\ Idle.pc # "filterStore"
      BY DEF Idle
    <3>2. AutoStart.holds = "none" /\ AutoStart.pc # "filterStore"
      BY DEF AutoStart, Idle
    <3> QED
      BY <2>1, <3>1, <3>2
  <2> QED
    BY <2>2, <1>46
       DEF Crash, Flags, Placed, FlagsAreExclusive, Filter, FilterHasOwner, At
<1>47. ASSUME UNCHANGED <<thread, flagVars, filterVars>> PROVE Flags' /\ Filter'
  BY <1>47, <1>0
     DEF flagVars, filterVars, Flags, Placed, FlagsAreExclusive, Filter,
         FilterHasOwner, At
<1>48. ASSUME KernelReady \/ KernelExits \/ PolicyChanges PROVE Flags' /\ Filter'
  BY <1>47, <1>48 DEF KernelReady, KernelExits, PolicyChanges
<1>49. CASE UNCHANGED vars
  BY <1>47, <1>49 DEF vars
<1> QED
  <2>1. ASSUME NEW t \in Threads, Step(t) PROVE Flags' /\ Filter'
    BY <2>1, <1>k, <1>1, <1>2, <1>3, <1>4, <1>5, <1>6, <1>7, <1>8, <1>9, <1>10,
       <1>11, <1>12, <1>13, <1>14, <1>15, <1>16, <1>17, <1>18, <1>19, <1>20, <1>21,
       <1>22, <1>23, <1>41, <1>42, <1>43, <1>44, <1>45
       DEF Step, Status, Command
  <2>2. ASSUME NEW t \in Threads, Begin(t) PROVE Flags' /\ Filter'
    BY <2>2, <1>k, <1>24, <1>25, <1>26, <1>27, <1>40 DEF Begin
  <2>3. ASSUME BeginPoll PROVE Flags' /\ Filter'
    BY <2>3, <1>k, <1>28 DEF Threads
  <2> QED
    BY <2>1, <2>2, <2>3, <1>46, <1>48, <1>49 DEF Next, Threads

\* The invariant holds in every behaviour.
LEMMA Invariant == Spec => []IInv
<1>1. Init => Flags /\ Filter
  BY DEF Init, Idle, Flags, Placed, FlagsAreExclusive, Filter, FilterHasOwner, At
<1>2. Init /\ TypeOK => IInv
  BY <1>1 DEF IInv
<1>3. IInv /\ [Next]_vars => IInv'
  BY Invariance
<1> QED
  BY <1>2, <1>3, TypeCorrect, PTL DEF Spec

\* Each of protection_start_in_progress and reload_in_progress is up exactly
\* while one command works under it, however many commands overlap and however
\* they end.
THEOREM FlagsExclusive == Spec => []FlagsAreExclusive
<1>1. IInv => FlagsAreExclusive
  BY DEF IInv, Flags
<1> QED
  BY <1>1, Invariant, PTL

\* A filter that runs can be stopped: its handle is stored, or the one command
\* that bound the port is about to store it; and no stored handle is stale.
THEOREM FilterOwned == Spec => []FilterHasOwner
<1>1. IInv => FilterHasOwner
  BY DEF IInv, Filter
<1> QED
  BY <1>1, Invariant, PTL

-----------------------------------------------------------------------------
(* The marker and the stop.  The main thread goes on polling the status,   *)
(* and may recover what it finds half gone, between any two steps of the   *)
(* commands.                                                               *)

\* Nobody writes config.yaml between a command that has written it and the helper
\* that reads it for this command.
ConfigUndisturbed == \A t \in Workers : At(t, "helper") => thread[t].conf = configFile

\* While a stop is under way, no other command is: the UI disables its switch, but
\* a reload, an automatic start or a recovery may still overlap it.
StopsAlone == \A t, u \in Workers : t # u /\ thread[t].op = "Stop" => At(u, "idle")

StatusPlaces == {"look", "check", "recoverFilter", "recoverHelper", "recoverFiles", "return"}

\* What the main thread can be at.
MainPolls ==
  /\ thread[Main].op = "Poll" /\ ~thread[Main].after
  /\ thread[Main].pc \in {"idle"} \cup StatusPlaces

\* Between the launch of a kernel and the marker that names it.
Launching == {"filterStop", "filterBind", "filterStore", "pidFile", "tun", "mark"}

\* A PID is given once, and PID and configuration go together.
Issued(k) == k.pid <= launched /\ (k.pid = NoPid => k = None)

\* A command that has launched a kernel knows what it was started with, if it still
\* runs.
Carries(t) ==
  thread[t].pc \in Launching =>
    /\ thread[t].pid \in 1..launched
    /\ kernel.pid = thread[t].pid => kernel.conf = thread[t].conf

MarkerSafe ==
  /\ Issued(kernel) /\ Issued(marker) /\ MarkerIsTrue
  /\ \A t \in Workers : Carries(t)

FilterOff == ~filter /\ ~handle
KernelOff == ~Running /\ ~dnsTaken
FilesGone == pidFile = NoPid /\ marker = None

\* How far a stop has got, whatever the polls do in between.
StopHolds(t) ==
  thread[t].op = "Stop" =>
    /\ thread[t].holds = "none" /\ thread[t].after
    /\ thread[t].pc \in {"stopFilter", "stopHelper", "stopFiles", "save"} \cup StatusPlaces
    /\ thread[t].pc \in {"stopHelper", "stopFiles"} \cup StatusPlaces => FilterOff
    /\ thread[t].pc \in {"stopFiles"} \cup StatusPlaces => KernelOff
    /\ thread[t].pc \in StatusPlaces => FilesGone

StopSafe ==
  /\ \A t \in Workers : StopHolds(t)
  /\ stopped = "done" =>
       /\ FilterOff /\ KernelOff /\ FilesGone
       /\ \A t \in Workers : thread[t].pc \in {"idle", "save"}

\* What every step but the three below does to the thread that takes it.
Moves(t) ==
  /\ Alone(t)
  /\ thread'[t].op \in {thread[t].op, "Poll"}
  /\ thread'[t].pc # "helper"
  /\ thread'[t].pc \in Launching =>
       /\ thread[t].pc \in Launching
       /\ thread'[t].pid = thread[t].pid /\ thread'[t].conf = thread[t].conf
  /\ stopped' = stopped \/ ReturnResult(t)

LEMMA GoToMoves ==
  ASSUME ThreadsTyped, NEW t \in Threads, NEW loc, GoTo(t, loc), UNCHANGED stopped,
         loc # "helper", loc \in Launching => thread[t].pc \in Launching
  PROVE  Moves(t)
BY DEF GoTo, Moves, Alone, ThreadsTyped, ThreadStates

LEMMA IdleMoves ==
  ASSUME ThreadsTyped, NEW t \in Threads, thread' = [thread EXCEPT ![t] = Idle],
         UNCHANGED stopped
  PROVE  Moves(t)
BY DEF Idle, Moves, Alone, ThreadsTyped, Launching

LEMMA FailMoves ==
  ASSUME ThreadsTyped, NEW t \in Threads, Fail(t), UNCHANGED stopped PROVE Moves(t)
<1>1. CASE thread[t].holds = "none"
  BY <1>1, IdleMoves DEF Fail
<1>2. CASE thread[t].holds # "none"
  BY <1>2 DEF Fail, ThreadsTyped, Moves, Alone, Idle, Launching
<1> QED
  BY <1>1, <1>2

LEMMA StepMoves ==
  ASSUME ThreadsTyped, NEW t \in Threads, Step(t)
  PROVE  Moves(t) \/ WriteConfig(t) \/ LaunchKernel(t)
<1> USE DEF Launching
<1>1. CASE LookForKernel(t)
  BY <1>1 DEF LookForKernel, boundVars, Moves, Alone, ThreadsTyped, ThreadStates
<1>2. CASE Check(t)
  BY <1>2 DEF Check, Moves, Alone, ThreadsTyped, ThreadStates
<1>3. CASE RecoverFilter(t) \/ RecoverHelper(t) \/ RecoverFiles(t)
  BY <1>3, GoToMoves DEF RecoverFilter, RecoverHelper, RecoverFiles
<1>4. CASE ReturnStatus(t)
  <2>1. ASSUME thread[t].op = "Auto", StartExclusively(t, "Auto"), UNCHANGED stopped PROVE Moves(t)
    BY <2>1 DEF StartExclusively, Moves, Alone, ThreadsTyped, ThreadStates
  <2>2. ASSUME thread' = [thread EXCEPT ![t].pc = "plan", ![t].holds = "reload", ![t].after = TRUE],
               UNCHANGED stopped
        PROVE  Moves(t)
    BY <2>2 DEF Moves, Alone, ThreadsTyped, ThreadStates
  <2> QED
    BY <1>4, <2>1, <2>2, IdleMoves DEF ReturnStatus
<1>5. CASE ReturnResult(t)
  BY <1>5 DEF ReturnResult, Moves, Alone, ThreadsTyped, ThreadStates
<1>6. CASE ClaimReload(t)
  <2>1. ASSUME thread' = [thread EXCEPT ![t].pc = "stopFilter", ![t].holds = "reload",
                                        ![t].after = TRUE],
               UNCHANGED stopped
        PROVE  Moves(t)
    BY <2>1 DEF Moves, Alone, ThreadsTyped, ThreadStates
  <2> QED
    BY <1>6, <2>1, IdleMoves DEF ClaimReload
<1>7. CASE Wait(t) \/ StopTheFilter(t) \/ RemoveFiles(t)
  BY <1>7, GoToMoves DEF Wait, StopTheFilter, RemoveFiles
<1>8. CASE StopTheKernel(t)
  BY <1>8, GoToMoves, FailMoves DEF StopTheKernel
<1>9. CASE PlanReload(t)
  <2>1. ASSUME NEW at \in {"look", "validate"}, UNCHANGED stopped,
               thread' = [thread EXCEPT ![t].conf = policy, ![t].pc = at]
        PROVE  Moves(t)
    BY <2>1 DEF Moves, Alone, ThreadsTyped, ThreadStates
  <2> QED
    BY <1>9, <2>1, FailMoves DEF PlanReload
<1>10. CASE Validate(t)
  <2>1. ASSUME thread' = [thread EXCEPT ![t].pc = "stopFilter", ![t].seen = NoPid, ![t].conf = 0],
               UNCHANGED stopped
        PROVE  Moves(t)
    BY <2>1 DEF Moves, Alone, ThreadsTyped, ThreadStates
  <2> QED
    BY <1>10, <2>1, FailMoves DEF Validate
<1>11. CASE BuildConfig(t)
  <2>1. ASSUME thread' = [thread EXCEPT ![t].pc = "write", ![t].conf = policy], UNCHANGED stopped
        PROVE  Moves(t)
    BY <2>1 DEF Moves, Alone, ThreadsTyped, ThreadStates
  <2> QED
    BY <1>11, <2>1, FailMoves DEF BuildConfig
<1>12. CASE FilterStop(t) \/ FilterBind(t) \/ FilterStore(t) \/ WritePidFile(t) \/ AwaitTun(t)
  BY <1>12, GoToMoves DEF FilterStop, FilterBind, FilterStore, WritePidFile, AwaitTun, At
<1>13. CASE WriteMarker(t)
  BY <1>13 DEF WriteMarker, Moves, Alone, ThreadsTyped, ThreadStates
<1>14. CASE AbortKill(t)
  BY <1>14 DEF AbortKill, Moves, Alone, ThreadsTyped, ThreadStates
<1>15. CASE AbortFilter(t) \/ AbortFiles(t)
  BY <1>15, GoToMoves DEF AbortFilter, AbortFiles
<1>16. CASE Release(t)
  BY <1>16 DEF Release, Moves, Alone, ThreadsTyped, ThreadStates
<1>17. CASE Save(t)
  BY <1>17, IdleMoves DEF Save
<1> QED
  BY <1>1, <1>2, <1>3, <1>4, <1>5, <1>6, <1>7, <1>8, <1>9, <1>10, <1>11, <1>12, <1>13,
     <1>14, <1>15, <1>16, <1>17 DEF Step, Status, Command

\* A thread after a crash, or at the start of an auto start.
LEMMA Restarted ==
  /\ Idle.pc = "idle" /\ Idle.op = "Poll"
  /\ AutoStart.pc = "look" /\ AutoStart.op \in {"Auto", "Poll"}
BY DEF Idle, AutoStart

LEMMA BeginMoves ==
  ASSUME ThreadsTyped, NEW t \in Threads, Begin(t)
  PROVE  /\ Alone(t) /\ thread'[t].pc \in {"wait", "stopFilter", "look", "claim"}
         /\ thread'[t].op = "Stop" => BeginStop(t)
<1>1. CASE BeginStart(t)
  <2>1. StartExclusively(t, "Start")
    BY <1>1 DEF BeginStart
  <2> QED
    BY <2>1 DEF StartExclusively, Alone, ThreadsTyped, ThreadStates
<1>2. CASE BeginStop(t)
  BY <1>2 DEF BeginStop, Alone, ThreadsTyped, ThreadStates
<1>3. CASE BeginAuto(t)
  BY <1>3, Restarted DEF BeginAuto, Alone, ThreadsTyped
<1>4. CASE BeginReload(t)
  BY <1>4 DEF BeginReload, Alone, ThreadsTyped, ThreadStates
<1>5. CASE BeginRecover(t)
  BY <1>5 DEF BeginRecover, Alone, ThreadsTyped, ThreadStates
<1> QED
  BY <1>1, <1>2, <1>3, <1>4, <1>5 DEF Begin

\* The kernel is the same or gone, and so is the marker.
KeepsKernel == kernel' \in {kernel, None} /\ marker' \in {marker, None} /\ UNCHANGED launched

\* What every step but those of a start does to what protection is made of.
Calm ==
  /\ KeepsKernel
  /\ StopFilter \/ UNCHANGED filterVars
  /\ dnsTaken' \in {dnsTaken, FALSE} /\ pidFile' \in {pidFile, NoPid}

LEMMA StepKeepsKernel ==
  ASSUME NEW t \in Threads, Step(t)
  PROVE  KeepsKernel \/ LaunchKernel(t) \/ WriteMarker(t)
<1>1. ASSUME UNCHANGED <<kernelVars, fileVars>> PROVE KeepsKernel
  BY <1>1 DEF KeepsKernel, kernelVars, fileVars
<1>2. CASE RecoverHelper(t) \/ StopTheKernel(t) \/ AbortKill(t)
  BY <1>2 DEF RecoverHelper, StopTheKernel, HelperFailsToStop, AbortKill, KeepsKernel, fileVars
<1>3. CASE RecoverFiles(t) \/ RemoveFiles(t) \/ AbortFiles(t) \/ Validate(t) \/ WriteConfig(t)
           \/ WritePidFile(t)
  BY <1>3 DEF RecoverFiles, RemoveFiles, AbortFiles, Validate, WriteConfig, WritePidFile,
              KeepsKernel, kernelVars
<1>4. CASE Status(t)
  BY <1>1, <1>2, <1>3, <1>4
     DEF Status, LookForKernel, Check, RecoverFilter, ReturnStatus, ReturnResult
<1>5. CASE Command(t)
  BY <1>1, <1>2, <1>3, <1>5
     DEF Command, Wait, ClaimReload, StopTheFilter, PlanReload, BuildConfig, FilterStop,
         FilterBind, FilterStore, AwaitTun, AbortFilter, Release, Save
<1> QED
  BY <1>4, <1>5 DEF Step

LEMMA StatusIsCalm ==
  ASSUME NEW t \in Threads, Status(t) PROVE Calm /\ UNCHANGED configFile
<1>1. Step(t) /\ ~LaunchKernel(t) /\ ~WriteMarker(t)
  BY DEF Step, Status, LookForKernel, Check, RecoverFilter, RecoverHelper, RecoverFiles,
         ReturnStatus, ReturnResult, LaunchKernel, WriteMarker, At
<1>2. KeepsKernel
  BY <1>1, StepKeepsKernel
<1>3. CASE LookForKernel(t) \/ Check(t) \/ ReturnStatus(t) \/ ReturnResult(t)
  BY <1>2, <1>3 DEF LookForKernel, Check, ReturnStatus, ReturnResult, Calm, filterVars,
                    kernelVars, fileVars
<1>4. CASE RecoverFilter(t) \/ RecoverFiles(t)
  BY <1>2, <1>4 DEF RecoverFilter, RecoverFiles, Calm, filterVars, kernelVars, fileVars
<1>5. CASE RecoverHelper(t)
  <2>1. dnsTaken' \in {dnsTaken, FALSE}
    BY <1>5 DEF RecoverHelper, HelperFailsToStop
  <2> QED
    BY <1>2, <1>5, <2>1 DEF RecoverHelper, Calm, filterVars, fileVars
<1> QED
  BY <1>3, <1>4, <1>5 DEF Status

LEMMA CalmStaysOff ==
  ASSUME Calm
  PROVE  /\ FilterOff => FilterOff'
         /\ KernelOff => KernelOff'
         /\ FilesGone => FilesGone'
<1>1. FilterOff => FilterOff'
  BY DEF Calm, FilterOff, StopFilter, filterVars
<1>2. KernelOff => KernelOff'
  <2>1. ~dnsTaken => ~dnsTaken'
    BY Zenon DEF Calm
  <2> QED
    BY <2>1 DEF Calm, KeepsKernel, KernelOff, Running
<1>3. FilesGone => FilesGone'
  BY DEF Calm, KeepsKernel, FilesGone
<1> QED
  BY <1>1, <1>2, <1>3

\* Each step is taken at its place.
LEMMA StatusPlaced ==
  ASSUME NEW t \in Threads, Step(t), thread[t].pc \in {"idle"} \cup StatusPlaces PROVE Status(t)
<1>1. ~Command(t)
  BY DEF Command, Wait, ClaimReload, StopTheFilter, StopTheKernel, RemoveFiles, PlanReload,
         Validate, BuildConfig, WriteConfig, LaunchKernel, FilterStop, FilterBind, FilterStore,
         WritePidFile, AwaitTun, WriteMarker, AbortKill, AbortFilter, AbortFiles, Release, Save,
         At, StatusPlaces
<1> QED
  BY <1>1 DEF Step

LEMMA StopPlaced ==
  ASSUME NEW t \in Threads, Step(t),
         thread[t].pc \in {"stopFilter", "stopHelper", "stopFiles", "save"}
  PROVE  StopTheFilter(t) \/ StopTheKernel(t) \/ RemoveFiles(t) \/ Save(t)
<1>1. ~Status(t)
  BY DEF Status, LookForKernel, Check, RecoverFilter, RecoverHelper, RecoverFiles,
         ReturnStatus, ReturnResult, At
<1>2. Command(t)
  BY <1>1 DEF Step
<1> QED
  BY <1>2
     DEF Command, Wait, ClaimReload, PlanReload,
         Validate, BuildConfig, WriteConfig, LaunchKernel, FilterStop, FilterBind, FilterStore,
         WritePidFile, AwaitTun, WriteMarker, AbortKill, AbortFilter, AbortFiles, Release, At

LEMMA NobodyAtIdle ==
  ASSUME NEW t \in Threads, Step(t) PROVE thread[t].pc # "idle"
<1> SUFFICES ASSUME thread[t].pc = "idle" PROVE FALSE
  OBVIOUS
<1>1. Status(t)
  BY StatusPlaced
<1> QED
  BY <1>1 DEF Status, LookForKernel, Check, RecoverFilter, RecoverHelper, RecoverFiles,
              ReturnStatus, ReturnResult, At

\* A step is a step of one thread.
LEMMA StepAlone == ASSUME ThreadsTyped, NEW t \in Threads, Step(t) PROVE Alone(t)
<1>1. CASE Moves(t)
  BY <1>1 DEF Moves
<1>2. CASE WriteConfig(t)
  BY <1>2 DEF WriteConfig, GoTo, Alone, ThreadsTyped
<1>3. CASE LaunchKernel(t)
  BY <1>3, FailKeeps DEF LaunchKernel, Alone, ThreadsTyped
<1> QED
  BY <1>1, <1>2, <1>3, StepMoves

-----------------------------------------------------------------------------
(* The main thread.                                                        *)

LEMMA PollStep ==
  ASSUME ThreadsTyped, MainPolls, Step(Main)
  PROVE  MainPolls' /\ Calm /\ Alone(Main) /\ UNCHANGED <<configFile, stopped>>
<1>1. Main \in Threads /\ Status(Main)
  BY StatusPlaced DEF MainPolls, Threads
<1>2. Moves(Main) /\ ~ReturnResult(Main)
  <2>1. ~WriteConfig(Main) /\ ~LaunchKernel(Main) /\ ~ReturnResult(Main)
    BY DEF MainPolls, StatusPlaces, WriteConfig, LaunchKernel, ReturnResult, At
  <2> QED
    BY <1>1, <2>1, StepMoves
<1>3. thread'[Main].op = "Poll"
  BY <1>2 DEF Moves, MainPolls
<1>4. ~thread'[Main].after /\ thread'[Main].pc \in {"idle"} \cup StatusPlaces
  <2> USE <1>1 DEF StatusPlaces, MainPolls, ThreadsTyped, ThreadStates
  <2>1. CASE LookForKernel(Main)
    BY <2>1 DEF LookForKernel
  <2>2. CASE Check(Main)
    BY <2>2 DEF Check
  <2>3. CASE RecoverFilter(Main) \/ RecoverHelper(Main) \/ RecoverFiles(Main)
    BY <2>3 DEF RecoverFilter, RecoverHelper, RecoverFiles, GoTo
  <2>4. CASE ReturnStatus(Main)
    BY <2>4 DEF ReturnStatus, Idle
  <2> QED
    BY <1>2, <2>1, <2>2, <2>3, <2>4 DEF Status
<1> QED
  BY <1>1, <1>2, <1>3, <1>4, StatusIsCalm DEF Moves, MainPolls

LEMMA MainStaysPolling == ASSUME ThreadsTyped, MainPolls, [Next]_vars PROVE MainPolls'
<1>0. Main \in Threads /\ Main \notin Workers
  BY ThreadsAssumption DEF Threads
<1>1. CASE BeginPoll
  BY <1>0, <1>1 DEF BeginPoll, GoTo, MainPolls, StatusPlaces, ThreadsTyped, ThreadStates
<1>2. ASSUME NEW t \in Workers, Alone(t) PROVE MainPolls'
  BY <1>0, <1>2 DEF Alone, MainPolls
<1>3. ASSUME NEW t \in Workers, Begin(t) PROVE Alone(t)
  BY <1>3, BeginMoves DEF Threads
<1>4. ASSUME NEW t \in Workers, Step(t) PROVE Alone(t)
  BY <1>4, StepAlone DEF Threads
<1>5. CASE Crash
  BY <1>0, <1>5 DEF Crash, MainPolls, Idle
<1>6. CASE UNCHANGED thread
  BY <1>6 DEF MainPolls
<1> QED
  BY <1>1, <1>2, <1>3, <1>4, <1>5, <1>6, PollStep
     DEF Next, KernelReady, KernelExits, PolicyChanges, vars, Threads

-----------------------------------------------------------------------------
(* The marker.                                                             *)

\* Whoever does not launch a kernel and does not write the marker.
LEMMA MarkerKept ==
  ASSUME TypeOK, MarkerSafe, KeepsKernel,
         \A w \in Workers :
           thread'[w].pc \in Launching =>
             /\ thread[w].pc \in Launching
             /\ thread'[w].pid = thread[w].pid /\ thread'[w].conf = thread[w].conf
  PROVE  MarkerSafe'
<1>1. NoPid = None.pid /\ None.conf = 0 /\ launched \in Nat /\ kernel \in Kernels /\ marker \in Kernels
  BY DEF NoPid, None, TypeOK
<1>2. Issued(kernel)' /\ Issued(marker)'
  BY <1>1 DEF MarkerSafe, KeepsKernel, Issued, NoPid
<1>3. MarkerIsTrue'
  BY <1>1 DEF MarkerSafe, KeepsKernel, MarkerIsTrue, Issued, Kernels
<1>4. ASSUME NEW w \in Workers, thread'[w].pc \in Launching
      PROVE  /\ thread'[w].pid \in 1..launched'
             /\ kernel'.pid = thread'[w].pid => kernel'.conf = thread'[w].conf
  <2>1. /\ thread[w].pid \in 1..launched
        /\ kernel.pid = thread[w].pid => kernel.conf = thread[w].conf
    BY <1>4 DEF MarkerSafe, Carries
  <2> QED
    BY <1>1, <1>4, <2>1 DEF KeepsKernel, NoPid
<1> QED
  BY <1>2, <1>3, <1>4 DEF MarkerSafe, Carries

\* A new kernel: its PID is new too, so what the others and the marker know of the
\* kernels before it is still true; and its own command knows what it was given.
LEMMA MarkerLaunched ==
  ASSUME TypeOK, ConfigUndisturbed, MarkerSafe, NEW t \in Workers, LaunchKernel(t), StartKernel
  PROVE  MarkerSafe'
<1>0. ThreadsTyped /\ t \in Threads /\ Workers \subseteq Threads
  BY DEF TypeOK, ThreadsTyped, Threads
<1>1. marker' = marker /\ configFile' = configFile /\ At(t, "helper") /\ thread[t].conf = configFile
  BY DEF LaunchKernel, fileVars, ConfigUndisturbed
<1>2. launched \in Nat /\ marker.pid \in Nat /\ marker.pid <= launched /\ launched' = launched + 1
  BY DEF StartKernel, TypeOK, Kernels, MarkerSafe, Issued
<1>3. kernel'.pid = launched + 1 /\ kernel'.conf = configFile
  BY <1>2 DEF StartKernel
<1>4. Issued(kernel)' /\ Issued(marker)' /\ MarkerIsTrue'
  BY <1>1, <1>2, <1>3 DEF Issued, MarkerIsTrue, NoPid, MarkerSafe
<1>5. thread'[t].pc \in Launching =>
        thread'[t].pid = launched + 1 /\ thread'[t].conf = configFile
  <2>1. CASE thread' = [thread EXCEPT ![t].pc = "filterStop", ![t].pid = launched']
    BY <1>0, <1>1, <1>2, <2>1 DEF ThreadsTyped, ThreadStates
  <2>2. CASE Fail(t)
    <3>1. thread'[t].pc \in {"idle", "release"}
      BY <1>0, <2>2 DEF Fail, Idle, ThreadsTyped
    <3> QED
      BY <3>1 DEF Launching
  <2> QED
    BY <2>1, <2>2 DEF LaunchKernel
<1>6. ASSUME NEW w \in Workers, w # t, thread'[w].pc \in Launching
      PROVE  thread'[w].pid \in 1..launched
  <2>1. thread'[w] = thread[w]
    BY <1>0, <1>6, StepAlone DEF Step, Command, Alone
  <2> QED
    BY <1>6, <2>1 DEF MarkerSafe, Carries
<1>7. ASSUME NEW w \in Workers PROVE Carries(w)'
  BY <1>2, <1>3, <1>5, <1>6 DEF Carries
<1> QED
  BY <1>4, <1>7 DEF MarkerSafe

LEMMA MarkerStaysSafe ==
  ASSUME TypeOK, MainPolls, ConfigUndisturbed, MarkerSafe, [Next]_vars PROVE MarkerSafe'
<1>0. ThreadsTyped /\ Main \notin Workers /\ Workers \subseteq Threads
  BY ThreadsAssumption DEF TypeOK, ThreadsTyped, Threads
<1>1. ASSUME KeepsKernel, \A w \in Workers : thread'[w] = thread[w] PROVE MarkerSafe'
  BY <1>1, MarkerKept
<1>2. ASSUME NEW t \in Workers, Moves(t), KeepsKernel PROVE MarkerSafe'
  <2>1. \A w \in Workers \ {t} : thread'[w] = thread[w]
    BY <1>0, <1>2 DEF Moves, Alone
  <2> QED
    BY <1>2, <2>1, MarkerKept DEF Moves
<1>3. ASSUME NEW t \in Workers, WriteConfig(t) PROVE MarkerSafe'
  <2>1. thread'[t].pc = "helper" /\ \A w \in Workers \ {t} : thread'[w] = thread[w]
    BY <1>0, <1>3 DEF WriteConfig, GoTo, ThreadsTyped, ThreadStates
  <2>2. KeepsKernel
    BY <1>3 DEF WriteConfig, KeepsKernel, kernelVars
  <2> QED
    BY <2>1, <2>2, MarkerKept DEF Launching
<1>4. ASSUME NEW t \in Workers, LaunchKernel(t) PROVE MarkerSafe'
  <2>1. CASE StartKernel
    BY <1>4, <2>1, MarkerLaunched
  <2>2. CASE ~StartKernel
    <3>1. Fail(t) /\ HelperFailsToStart
      BY <1>4, <2>2 DEF LaunchKernel
    <3>2. Moves(t)
      BY <1>0, <1>4, <3>1, FailMoves DEF LaunchKernel
    <3>3. KeepsKernel
      BY <1>4, <2>2, <3>1 DEF LaunchKernel, HelperFailsToStart, KeepsKernel, kernelVars, fileVars
    <3> QED
      BY <1>2, <3>2, <3>3
  <2> QED
    BY <2>1, <2>2
<1>5. ASSUME NEW t \in Workers, WriteMarker(t) PROVE MarkerSafe'
  <2>1. /\ kernel' = kernel /\ launched' = launched
        /\ marker' = [pid |-> thread[t].pid, conf |-> thread[t].conf]
        /\ thread[t].pc \in Launching
    BY <1>5 DEF WriteMarker, kernelVars, At, Launching
  <2>2. /\ thread[t].pid \in 1..launched
        /\ kernel.pid = thread[t].pid => kernel.conf = thread[t].conf
    BY <2>1 DEF MarkerSafe, Carries
  <2>3. thread'[t].pc = "look" /\ \A w \in Workers \ {t} : thread'[w] = thread[w]
    BY <1>0, <1>5 DEF WriteMarker, ThreadsTyped, ThreadStates
  <2>4. Issued(kernel)' /\ Issued(marker)' /\ MarkerIsTrue'
    BY <2>1, <2>2 DEF MarkerSafe, Issued, MarkerIsTrue, TypeOK, NoPid
  <2>5. ASSUME NEW w \in Workers PROVE Carries(w)'
    BY <2>1, <2>3 DEF MarkerSafe, Carries, Launching
  <2> QED
    BY <2>4, <2>5 DEF MarkerSafe
<1>6. ASSUME NEW t \in Workers, Begin(t) PROVE MarkerSafe'
  <2>1. KeepsKernel
    BY <1>6 DEF Begin, BeginStart, BeginStop, BeginAuto, BeginReload, BeginRecover, Accept,
                KeepsKernel, kernelVars, fileVars
  <2>2. /\ thread'[t].pc \in {"wait", "stopFilter", "look", "claim"}
        /\ \A w \in Workers \ {t} : thread'[w] = thread[w]
    BY <1>0, <1>6, BeginMoves DEF Alone
  <2> QED
    BY <2>1, <2>2, MarkerKept DEF Launching
<1>7. CASE Step(Main)
  <2>1. Calm /\ Alone(Main)
    BY <1>0, <1>7, PollStep
  <2> QED
    BY <1>0, <1>1, <2>1 DEF Calm, Alone
<1>8. CASE BeginPoll
  BY <1>0, <1>1, <1>8 DEF BeginPoll, GoTo, KeepsKernel, kernelVars, fileVars, ThreadsTyped
<1>9. CASE KernelReady \/ KernelExits \/ PolicyChanges \/ UNCHANGED vars
  <2>1. KeepsKernel /\ UNCHANGED thread
    BY <1>9 DEF KernelReady, KernelExits, PolicyChanges, vars, KeepsKernel, kernelVars, fileVars
  <2> QED
    BY <1>1, <2>1
<1>10. CASE Crash
  <2>1. KeepsKernel /\ \A u \in Threads : thread'[u] \in {Idle, AutoStart}
    BY <1>10 DEF Crash, KeepsKernel, kernelVars, fileVars
  <2>2. \A u \in Threads : thread'[u].pc \in {"idle", "look"}
    BY <2>1, Restarted
  <2> QED
    BY <1>0, <2>1, <2>2, MarkerKept DEF Launching
<1>11. ASSUME NEW t \in Workers, Step(t) PROVE MarkerSafe'
  BY <1>0, <1>2, <1>3, <1>4, <1>5, <1>11, StepMoves, StepKeepsKernel
<1> QED
  BY <1>6, <1>7, <1>8, <1>9, <1>10, <1>11 DEF Next, Threads

-----------------------------------------------------------------------------
(* The stop.                                                               *)

\* What the one thread that may be at a stop needs.
LEMMA StopSafeAt ==
  ASSUME NEW t \in Workers, StopHolds(t)',
         \A w \in Workers \ {t} : thread'[w].op # "Stop" /\ thread'[w].pc = "idle",
         stopped' = "done" =>
           FilterOff' /\ KernelOff' /\ FilesGone' /\ thread'[t].pc \in {"idle", "save"}
  PROVE  StopSafe'
BY DEF StopSafe, StopHolds

\* No stop is under way, and none has been since the last command.
LEMMA OtherCommand ==
  ASSUME \A w \in Workers : thread'[w].op # "Stop", stopped' # "done" PROVE StopSafe'
BY DEF StopSafe, StopHolds

\* Nobody but the main thread and the world moves.
LEMMA StopKept ==
  ASSUME StopSafe, Calm, UNCHANGED stopped, \A w \in Workers : thread'[w] = thread[w]
  PROVE  StopSafe'
<1>1. \A w \in Workers : StopHolds(w)'
  BY CalmStaysOff DEF StopSafe, StopHolds
<1> QED
  BY <1>1, CalmStaysOff DEF StopSafe

\* The last step of a command.
LEMMA StopSaved ==
  ASSUME ThreadsTyped, StopSafe, NEW t \in Workers, Save(t) PROVE StopSafe'
<1>1. /\ thread'[t] = Idle /\ UNCHANGED <<stopped, filterVars, kernelVars, fileVars>>
      /\ \A w \in Workers \ {t} : thread'[w] = thread[w]
  BY DEF Save, ThreadsTyped, Threads
<1>2. thread'[t].pc = "idle" /\ thread'[t].op = "Poll"
  BY <1>1 DEF Idle
<1>3. FilterOff' = FilterOff /\ KernelOff' = KernelOff /\ FilesGone' = FilesGone
  BY <1>1 DEF FilterOff, KernelOff, FilesGone, Running, filterVars, kernelVars, fileVars
<1>4. ASSUME NEW w \in Workers PROVE StopHolds(w)'
  BY <1>1, <1>2, <1>3 DEF StopSafe, StopHolds
<1> QED
  BY <1>1, <1>2, <1>3, <1>4 DEF StopSafe

\* The worker at a stop: nobody else is at work.
LEMMA StopStep ==
  ASSUME IInv, MainPolls, StopsAlone, StopSafe, NEW t \in Workers, Step(t), thread[t].op = "Stop"
  PROVE  StopSafe'
<1>0. /\ ThreadsTyped /\ t \in Threads /\ thread[t] \in ThreadStates /\ StopHolds(t)
      /\ thread[t].holds = "none" /\ thread[t].after
      /\ thread[t].pc \in {"stopFilter", "stopHelper", "stopFiles", "save"} \cup StatusPlaces
  BY DEF IInv, TypeOK, ThreadsTyped, Threads, StopSafe, StopHolds
<1>1. stopped = "done" => thread[t].pc = "save"
  BY <1>0, NobodyAtIdle DEF StopSafe
<1>a. \A w \in Workers \ {t} :
        /\ thread[w].op # "Stop" /\ thread[w].pc = "idle"
        /\ thread'[w].op # "Stop" /\ thread'[w].pc = "idle"
  <2>1. thread[t].pc # "idle" /\ Alone(t)
    BY <1>0, NobodyAtIdle, StepAlone
  <2> QED
    BY <2>1 DEF StopsAlone, At, Alone, Threads
<1>2. ASSUME NEW at \in {"stopHelper", "stopFiles"} \cup StatusPlaces, stopped' # "done",
             FilterOff', at \in {"stopFiles"} \cup StatusPlaces => KernelOff',
             at \in StatusPlaces => FilesGone',
             thread'[t].pc = at, thread'[t].holds = "none", thread'[t].after
      PROVE  StopSafe'
  <2>1. StopHolds(t)'
    BY <1>2 DEF StopHolds, StatusPlaces
  <2> QED
    BY <1>2, <1>a, <2>1, StopSafeAt
<1>3. ASSUME NEW loc, GoTo(t, loc)
      PROVE  thread'[t].pc = loc /\ thread'[t].holds = "none" /\ thread'[t].after
  BY <1>0, <1>3 DEF GoTo, ThreadsTyped, ThreadStates
<1>4. CASE StopTheFilter(t)
  <2>1. FilterOff'
    <3>1. ~(filter /\ ~handle)
      <4> SUFFICES ASSUME filter, ~handle PROVE FALSE
        OBVIOUS
      <4>1. PICK u \in Threads : At(u, "filterStore")
        BY DEF IInv, Filter, FilterHasOwner
      <4>2. u # Main
        BY <4>1 DEF MainPolls, StatusPlaces, At
      <4>3. u = t
        BY <1>a, <4>1, <4>2 DEF Threads, At
      <4> QED
        BY <1>4, <4>1, <4>3 DEF StopTheFilter, At
    <3> QED
      BY <1>4, <3>1 DEF StopTheFilter, StopFilter, filterVars, FilterOff, IInv, TypeOK
  <2>2. stopped' = stopped /\ stopped # "done" /\ GoTo(t, "stopHelper")
    BY <1>1, <1>4 DEF StopTheFilter, At
  <2> QED
    BY <1>2, <1>3, <2>1, <2>2 DEF StatusPlaces
<1>5. CASE StopTheKernel(t)
  <2>1. stopped' = stopped /\ stopped # "done" /\ FilterOff /\ FilterOff'
    BY <1>0, <1>1, <1>5 DEF StopTheKernel, At, StopHolds, FilterOff, filterVars
  <2>2. CASE GoTo(t, "stopFiles") /\ kernel' = None /\ dnsTaken' = FALSE
    <3>1. KernelOff'
      BY <2>2 DEF KernelOff, Running
    <3> QED
      BY <1>2, <1>3, <2>1, <2>2, <3>1 DEF StatusPlaces
  <2>3. CASE Fail(t)
    <3>1. thread'[t].op = "Poll"
      BY <1>0, <2>3 DEF Fail, Idle, ThreadsTyped
    <3> QED
      BY <1>a, <2>1, <3>1, OtherCommand
  <2> QED
    BY <1>5, <2>2, <2>3 DEF StopTheKernel
<1>6. CASE RemoveFiles(t)
  <2>1. /\ stopped' = stopped /\ stopped # "done" /\ FilterOff' /\ KernelOff' /\ GoTo(t, "look")
        /\ FilesGone'
    BY <1>0, <1>1, <1>6 DEF RemoveFiles, At, StopHolds, FilterOff, KernelOff, Running, FilesGone,
                            filterVars, kernelVars
  <2> QED
    BY <1>2, <1>3, <2>1 DEF StatusPlaces
<1>7. CASE Save(t)
  BY <1>0, <1>7, StopSaved
<1>8. CASE thread[t].pc \in StatusPlaces
  <2>1. Status(t) /\ Calm /\ FilterOff' /\ KernelOff' /\ FilesGone'
    BY <1>0, <1>8, StatusPlaced, StatusIsCalm, CalmStaysOff DEF StopHolds
  <2>2. stopped # "done"
    BY <1>1, <1>8 DEF StatusPlaces
  <2>3. ASSUME NEW at \in StatusPlaces, stopped' = stopped,
               thread'[t].pc = at, thread'[t].holds = "none", thread'[t].after
        PROVE  StopSafe'
    BY <1>2, <2>1, <2>2, <2>3
  <2>4. CASE LookForKernel(t)
    BY <1>0, <2>3, <2>4 DEF LookForKernel, StatusPlaces, ThreadsTyped, ThreadStates, boundVars
  <2>5. CASE Check(t)
    BY <1>0, <2>3, <2>5 DEF Check, StatusPlaces, ThreadsTyped, ThreadStates
  <2>6. CASE RecoverFilter(t) \/ RecoverHelper(t) \/ RecoverFiles(t)
    BY <1>0, <1>3, <2>3, <2>6 DEF RecoverFilter, RecoverHelper, RecoverFiles, StatusPlaces
  <2>7. CASE ReturnResult(t)
    <3>1. thread'[t].pc = "save" /\ thread'[t].holds = "none" /\ thread'[t].after
      BY <1>0, <2>7 DEF ReturnResult, ThreadsTyped, ThreadStates
    <3>2. StopHolds(t)'
      BY <2>1, <3>1 DEF StopHolds, StatusPlaces
    <3> QED
      BY <1>a, <2>1, <3>1, <3>2, StopSafeAt
  <2>8. ~ReturnStatus(t)
    BY <1>0 DEF ReturnStatus
  <2> QED
    BY <2>1, <2>4, <2>5, <2>6, <2>7, <2>8 DEF Status
<1> QED
  BY <1>0, <1>4, <1>5, <1>6, <1>7, <1>8, StopPlaced

LEMMA StopStaysSafe ==
  ASSUME IInv, MainPolls, StopsAlone, StopsAlone', StopSafe, [Next]_vars PROVE StopSafe'
<1>0. ThreadsTyped /\ Main \notin Workers /\ Workers \subseteq Threads
  BY ThreadsAssumption DEF IInv, TypeOK, ThreadsTyped, Threads
<1>1. ASSUME NEW t \in Workers, Step(t) PROVE StopSafe'
  <2>1. CASE thread[t].op = "Stop"
    BY <1>1, <2>1, StopStep
  <2>2. CASE thread[t].pc = "save"
    <3>1. Save(t)
      BY <1>0, <1>1, <2>2, StopPlaced DEF StopTheFilter, StopTheKernel, RemoveFiles, At
    <3> QED
      BY <1>0, <3>1, StopSaved
  <2>3. CASE thread[t].op # "Stop" /\ thread[t].pc # "save"
    <3>1. stopped # "done" /\ thread[t].pc # "idle"
      BY <1>0, <1>1, <2>3, NobodyAtIdle DEF StopSafe
    <3>2. thread'[t].op \in {thread[t].op, "Poll"}
      <4>1. CASE Moves(t)
        BY <4>1 DEF Moves
      <4>2. CASE WriteConfig(t)
        BY <1>0, <4>2 DEF WriteConfig, GoTo, ThreadsTyped, ThreadStates
      <4>3. CASE LaunchKernel(t)
        <5>1. CASE Fail(t)
          BY <1>0, <4>3, <5>1, FailMoves DEF LaunchKernel, Moves
        <5>2. CASE thread' = [thread EXCEPT ![t].pc = "filterStop", ![t].pid = launched']
          BY <1>0, <5>2 DEF ThreadsTyped, ThreadStates
        <5> QED
          BY <4>3, <5>1, <5>2 DEF LaunchKernel
      <4> QED
        BY <1>0, <1>1, <4>1, <4>2, <4>3, StepMoves
    <3>3. stopped' = stopped
      BY <1>0, <1>1, <2>3, StepMoves DEF Moves, ReturnResult, WriteConfig, LaunchKernel
    <3>4. \A w \in Workers \ {t} : thread'[w].op # "Stop"
      BY <1>0, <1>1, <3>1, StepAlone DEF StopsAlone, At, Alone
    <3> QED
      BY <2>3, <3>1, <3>2, <3>3, <3>4, OtherCommand
  <2> QED
    BY <2>1, <2>2, <2>3
<1>2. ASSUME NEW t \in Workers, Begin(t) PROVE StopSafe'
  <2>1. stopped' # "done"
    BY <1>2 DEF Begin, BeginStart, BeginStop, BeginAuto, BeginReload, BeginRecover, Accept
  <2>2. /\ Alone(t) /\ thread'[t].pc # "idle"
        /\ thread'[t].op = "Stop" => BeginStop(t)
    BY <1>0, <1>2, BeginMoves
  <2>3. \A w \in Workers \ {t} : thread'[w].op # "Stop"
    BY <1>0, <2>2 DEF StopsAlone, At
  <2>4. CASE BeginStop(t)
    <3>1. thread[t].holds = "none"
      BY <1>0, <2>4 DEF BeginStop, Accept, At, IInv, Flags, Placed
    <3>2. thread'[t].pc = "stopFilter" /\ thread'[t].after /\ thread'[t].holds = "none"
      BY <1>0, <2>4, <3>1 DEF BeginStop, ThreadsTyped, ThreadStates
    <3>3. StopHolds(t)'
      BY <3>2 DEF StopHolds, StatusPlaces
    <3> QED
      BY <2>1, <2>3, <3>3 DEF StopSafe, StopHolds
  <2>5. CASE ~BeginStop(t)
    BY <2>1, <2>2, <2>3, <2>5, OtherCommand
  <2> QED
    BY <2>4, <2>5
<1>3. CASE Step(Main)
  BY <1>0, <1>3, PollStep, StopKept DEF Alone
<1>4. CASE BeginPoll
  <2>1. Calm /\ UNCHANGED stopped /\ \A w \in Workers : thread'[w] = thread[w]
    BY <1>0, <1>4 DEF BeginPoll, GoTo, Calm, KeepsKernel, filterVars, kernelVars, fileVars,
                      ThreadsTyped
  <2> QED
    BY <2>1, StopKept
<1>5. CASE KernelReady \/ KernelExits \/ PolicyChanges \/ UNCHANGED vars
  <2>1. Calm /\ UNCHANGED <<stopped, thread>>
    BY <1>5 DEF KernelReady, KernelExits, PolicyChanges, vars, Calm, KeepsKernel,
                filterVars, kernelVars, fileVars
  <2> QED
    BY <2>1, StopKept
<1>6. CASE Crash
  <2>1. stopped' = "no" /\ \A u \in Threads : thread'[u] \in {Idle, AutoStart}
    BY <1>6 DEF Crash
  <2>2. \A u \in Threads : thread'[u].op # "Stop"
    BY <2>1, Restarted
  <2> QED
    BY <1>0, <2>1, <2>2 DEF StopSafe, StopHolds
<1> QED
  BY <1>1, <1>2, <1>3, <1>4, <1>5, <1>6 DEF Next, Threads

-----------------------------------------------------------------------------
\* At first every thread is idle, and nothing was launched.
LEMMA AtFirst == Init => MainPolls /\ MarkerSafe /\ StopSafe
<1> SUFFICES ASSUME Init PROVE MainPolls /\ MarkerSafe /\ StopSafe
  OBVIOUS
<1>1. \A t \in Threads : thread[t].pc = "idle" /\ thread[t].op = "Poll" /\ ~thread[t].after
  BY DEF Init, Idle
<1>2. MainPolls /\ StopSafe
  BY <1>1 DEF Init, MainPolls, StopSafe, StopHolds, Threads
<1>3. kernel = None /\ marker = None /\ launched = 0
  BY DEF Init
<1>4. MarkerSafe
  BY <1>1, <1>3 DEF MarkerSafe, Issued, MarkerIsTrue, Carries, Launching, Threads, None, NoPid
<1> QED
  BY <1>2, <1>4

\* As long as no command rewrites config.yaml between the write of another and the
\* helper's read, the marker never names a configuration the kernel of that PID was
\* not started with, so a reload never skips the restart it owes: however many
\* commands overlap, whatever the polls recover in between, and wherever commands
\* fail or the application dies.
THEOREM MarkerStaysTrue == Spec /\ []ConfigUndisturbed => []MarkerIsTrue
<1>1. IInv /\ ConfigUndisturbed /\ MainPolls /\ MarkerSafe /\ [Next]_vars
        => MainPolls' /\ MarkerSafe'
  BY MainStaysPolling, MarkerStaysSafe DEF IInv, TypeOK, ThreadsTyped
<1>2. MarkerSafe => MarkerIsTrue
  BY DEF MarkerSafe
<1> QED
  BY <1>1, <1>2, AtFirst, Invariant, PTL DEF Spec

\* As long as no other command is under way while a stop is, a stop that has
\* succeeded has undone everything, and nothing comes back until the next command:
\* whatever the commands before it left behind, and whatever the polls recover.
THEOREM StopStaysFinal == Spec /\ []StopsAlone => []StopIsFinal
<1>1. /\ IInv /\ StopsAlone /\ StopsAlone' /\ MainPolls /\ StopSafe /\ [Next]_vars
      => MainPolls' /\ StopSafe'
  BY MainStaysPolling, StopStaysSafe DEF IInv, TypeOK, ThreadsTyped
<1>2. StopSafe => StopIsFinal
  BY DEF StopSafe, StopIsFinal, FilterOff, KernelOff, FilesGone
<1> QED
  BY <1>1, <1>2, AtFirst, Invariant, PTL DEF Spec
=============================================================================
