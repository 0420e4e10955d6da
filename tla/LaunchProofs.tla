-------------------------- MODULE LaunchProofs --------------------------
(***************************************************************************)
(* A launch opens the database and ends with a clean exit.  First the life *)
(* cycle, for any number of tokens, requests, failures and launches:       *)
(* types, the clean exit, and sessions that do not come back.  Then the    *)
(* opening, for any number of rules, rows of the access log, deaths of the *)
(* process and edits: types, and nothing is lost on the way to the schema. *)
(***************************************************************************)
EXTENDS AppLifecycle, DatabaseOpening, TLAPS

----------------------------------------------------------------------------

(* Types.                                                                  *)

LEMMA InitTyped == Init => TypeOK
<1> SUFFICES ASSUME Init PROVE TypeOK
  OBVIOUS
<1>1. DOMAIN sessions = {} /\ asking = {} /\ issued = {}
  BY DEF Init, NoSession
<1>2. \A n \in Nat : 0 \in 0..n
  OBVIOUS
<1>3. clock \in 0..MaxClock /\ requests \in 0..MaxRequests /\ failures \in 0..MaxFailures
      /\ launches \in 0..MaxLaunches
  BY <1>2, LifecycleAssumption DEF Init
<1>4. /\ confirmedExit \in BOOLEAN /\ quitRequested \in BOOLEAN
      /\ networkCleanupStarted \in BOOLEAN /\ cleaned \in BOOLEAN
      /\ passwordSet \in BOOLEAN /\ listening \in BOOLEAN /\ event \in BOOLEAN
  BY Zenon DEF Init
<1>5. /\ process \in {"setup", "running", "exited"} /\ exits \in Nat
      /\ network \in {"free", "taken"} /\ starter \in {"idle", "starting"}
      /\ dialog \in {"none", "quit"}
  BY DEF Init
<1> QED
  BY <1>1, <1>3, <1>4, <1>5 DEF TypeOK

\* Starting and ending protection.
LEMMA ProtectionTyped == TypeOK /\ Protection => TypeOK'
<1> SUFFICES ASSUME TypeOK, Protection PROVE TypeOK'
  OBVIOUS
<1> USE LifecycleAssumption DEF TypeOK
<1>1. CASE Setup
  BY <1>1 DEF Setup, lifecycle, session, webview, bounds
<1>2. ASSUME NEW t \in Tokens, StartProtection(t) PROVE TypeOK'
  BY <1>2 DEF StartProtection, Live, lifecycle, webview
<1>3. CASE StartEnds
  BY <1>3 DEF StartEnds, lifecycle, session, webview, bounds
<1> QED
  BY <1>1, <1>2, <1>3 DEF Protection

\* Passwords and sessions.
LEMMA ManagementTyped == TypeOK /\ Management => TypeOK'
<1> SUFFICES ASSUME TypeOK, Management PROVE TypeOK'
  OBVIOUS
<1> USE LifecycleAssumption DEF TypeOK
<1>1. CASE InitializePassword
  BY <1>1 DEF InitializePassword, lifecycle, runtime, webview, bounds
<1>2. CASE Tick
  BY <1>2 DEF Tick, lifecycle, runtime, webview, bounds
<1>3. ASSUME NEW t \in Tokens, Unlock(t) PROVE TypeOK'
  BY <1>3 DEF Unlock, lifecycle, runtime, webview, bounds
<1>4. ASSUME NEW t \in Tokens, Lock(t) PROVE TypeOK'
  <2>1. /\ DOMAIN sessions' \subseteq issued
        /\ \A u \in DOMAIN sessions' : sessions'[u] \in 0..(clock + TTL)
    BY <1>4 DEF Lock, Drop
  <2>2. UNCHANGED <<process, lifecycle, exits, runtime, passwordSet, issued, clock, webview,
                    bounds>>
    BY <1>4 DEF Lock
  <2> QED
    BY <2>1, <2>2 DEF lifecycle, runtime, webview, bounds
<1>5. ASSUME NEW t \in Tokens, RequireSession(t) PROVE TypeOK'
  <2> DEFINE kept == Drop(sessions, Expired)
  <2>1. /\ DOMAIN kept \subseteq DOMAIN sessions
        /\ \A u \in DOMAIN kept : kept[u] = sessions[u]
    BY DEF Drop
  <2>2. sessions' = IF t \in DOMAIN kept THEN [kept EXCEPT ![t] = clock + TTL] ELSE kept
    BY <1>5 DEF RequireSession
  <2> HIDE DEF kept
  <2>3. /\ DOMAIN sessions' \subseteq issued
        /\ \A u \in DOMAIN sessions' : sessions'[u] \in 0..(clock + TTL)
    BY <2>1, <2>2
  <2> QED
    BY <1>5, <2>3 DEF RequireSession, lifecycle, runtime, webview, bounds
<1> QED
  BY <1>1, <1>2, <1>3, <1>4, <1>5 DEF Management

\* The ways to quit.
LEMMA QuittingTyped == TypeOK /\ Quitting => TypeOK'
<1> SUFFICES ASSUME TypeOK, Quitting PROVE TypeOK'
  OBVIOUS
<1> USE LifecycleAssumption DEF TypeOK
<1>1. CASE QuitMenu
  BY <1>1 DEF QuitMenu, RequestQuitConfirmation, runtime, session
<1>2. CASE AskToExit
  BY <1>2 DEF AskToExit, lifecycle, runtime, session, webview
<1>3. CASE ConfirmedQuit
  <2>1. networkCleanupStarted' \in BOOLEAN /\ cleaned' \in BOOLEAN
        /\ network' \in {"free", "taken"} /\ failures' = failures
    BY <1>3 DEF ConfirmedQuit, StopSkipped, StopSucceeds
  <2>2. exits' \in Nat /\ dialog' \in {"none", "quit"}
    BY <1>3 DEF ConfirmedQuit
  <2>3. quitRequested' \in BOOLEAN /\ confirmedExit' \in BOOLEAN
    BY <1>3, Zenon DEF ConfirmedQuit
  <2>4. UNCHANGED <<process, starter, session, listening, event, asking, requests, launches>>
    BY <1>3 DEF ConfirmedQuit
  <2> QED
    BY <2>1, <2>2, <2>3, <2>4 DEF session
<1>4. CASE ConfirmedQuitFails
  BY <1>4 DEF ConfirmedQuitFails, StopFails, session, webview
<1>5. CASE ExitPrevented
  BY <1>5 DEF ExitPrevented, RequestQuitConfirmation, runtime, session, bounds
<1>6. CASE ExitProceeds
  <2>1. networkCleanupStarted' \in BOOLEAN /\ cleaned' \in BOOLEAN
        /\ network' \in {"free", "taken"} /\ failures' \in 0..MaxFailures
    <3>1. CASE StopSkipped
      BY <3>1 DEF StopSkipped
    <3>2. CASE StopSucceeds
      BY <3>2 DEF StopSucceeds
    <3>3. CASE StopFails
      BY <3>3 DEF StopFails
    <3> QED
      BY <1>6, <3>1, <3>2, <3>3 DEF ExitProceeds
  <2>2. exits' \in Nat
    BY <1>6 DEF ExitProceeds
  <2> QED
    BY <1>6, <2>1, <2>2 DEF ExitProceeds, session, webview
<1> QED
  BY <1>1, <1>2, <1>3, <1>4, <1>5, <1>6 DEF Quitting

\* The calls and the dialog of the web view.
LEMMA WebViewTyped == TypeOK /\ WebView => TypeOK'
<1> SUFFICES ASSUME TypeOK, WebView PROVE TypeOK'
  OBVIOUS
<1> USE DEF TypeOK
<1>1. CASE Listen
  BY <1>1 DEF Listen, lifecycle, runtime, session, bounds
<1>2. ASSUME NEW caller \in {"poll", "event"}, TakePendingQuitRequest(caller),
             process' = process, event' \in BOOLEAN
      PROVE  TypeOK'
  <2>1. [caller |-> caller, pending |-> quitRequested] \in Calls
    BY DEF Calls
  <2> QED
    BY <1>2, <2>1 DEF TakePendingQuitRequest, runtime, session, bounds
<1>3. CASE EventArrives
  BY <1>2, <1>3 DEF EventArrives, TakePendingQuitRequest
<1>4. CASE Poll
  BY <1>2, <1>4 DEF Poll, TakePendingQuitRequest
<1>5. ASSUME NEW call \in Calls, Answer(call) PROVE TypeOK'
  BY <1>5 DEF Answer, lifecycle, runtime, session, bounds
<1>6. CASE Dismiss
  BY <1>6 DEF Dismiss, lifecycle, runtime, session, bounds
<1> QED
  BY <1>1, <1>3, <1>4, <1>5, <1>6 DEF WebView

LEMMA LaunchTyped == TypeOK /\ Launch => TypeOK'
<1> SUFFICES ASSUME TypeOK, Launch PROVE TypeOK'
  OBVIOUS
<1>1. DOMAIN sessions' = {} /\ asking' = {}
  BY DEF Launch, NoSession
<1>2. launches' \in 0..MaxLaunches
  BY LifecycleAssumption DEF TypeOK, Launch
<1>3. /\ confirmedExit' \in BOOLEAN /\ quitRequested' \in BOOLEAN
      /\ networkCleanupStarted' \in BOOLEAN /\ cleaned' \in BOOLEAN
      /\ listening' \in BOOLEAN /\ event' \in BOOLEAN
  BY Zenon DEF Launch
<1> QED
  BY <1>1, <1>2, <1>3 DEF TypeOK, Launch

LEMMA StutterTyped == TypeOK /\ UNCHANGED vars => TypeOK'
BY DEF TypeOK, vars, lifecycle, runtime, session, webview, bounds

\* Every variable keeps its type, whatever the bounds are.
THEOREM TypeCorrect == Spec => []TypeOK
<1>1. TypeOK /\ [Next]_vars => TypeOK'
  BY ProtectionTyped, ManagementTyped, QuittingTyped, WebViewTyped, LaunchTyped, StutterTyped
     DEF Next
<1> QED
  BY <1>1, InitTyped, PTL DEF Spec

------------------------------------------------------------------------------
(* The exit.                                                               *)

\* Before it may exit, the application has stopped protection: a cleanup that is
\* not to be repeated and a confirmed exit are both behind a stop that succeeded.
CleanInv ==
  /\ networkCleanupStarted => cleaned
  /\ confirmedExit => cleaned
  /\ ExitIsClean

\* What leaves the flags and the process alone, or takes back the flags, keeps it.
LEMMA CleanStep == CleanInv /\ [Next]_vars => CleanInv'
<1> SUFFICES ASSUME CleanInv, [Next]_vars PROVE CleanInv'
  OBVIOUS
<1> USE DEF CleanInv, ExitIsClean
<1>1. CASE Protection
  BY <1>1 DEF Protection, Setup, StartProtection, StartEnds, lifecycle
<1>2. CASE Management
  <2>1. UNCHANGED <<process, lifecycle, cleaned>>
    BY <1>2, Zenon DEF Management, InitializePassword, Tick, Unlock, Lock, RequireSession, runtime
  <2> QED
    BY <2>1 DEF lifecycle
<1>3. CASE QuitMenu \/ AskToExit
  BY <1>3 DEF QuitMenu, AskToExit, lifecycle, runtime
<1>4. CASE ConfirmedQuit
  BY <1>4 DEF ConfirmedQuit, StopSkipped, StopSucceeds
<1>5. CASE ConfirmedQuitFails
  BY <1>5 DEF ConfirmedQuitFails, StopFails
<1>6. CASE ExitPrevented
  BY <1>6 DEF ExitPrevented, runtime
<1>7. CASE ExitProceeds
  <2>1. cleaned'
    <3>1. cleaned
      BY <1>7 DEF ExitProceeds
    <3>2. cleaned' = cleaned \/ cleaned' = TRUE
      BY <1>7 DEF ExitProceeds, StopSkipped, StopSucceeds, StopFails
    <3> QED
      BY <3>1, <3>2, Zenon
  <2> QED
    BY <2>1
<1>8. CASE WebView
  BY <1>8 DEF WebView, Listen, EventArrives, Poll, Answer, Dismiss, TakePendingQuitRequest,
              lifecycle, runtime
<1>9. CASE Launch
  BY <1>9 DEF Launch
<1>10. CASE UNCHANGED vars
  BY <1>10 DEF vars, lifecycle, runtime
<1> QED
  BY <1>1, <1>2, <1>3, <1>4, <1>5, <1>6, <1>7, <1>8, <1>9, <1>10 DEF Next, Quitting

\* The application exits only after protection was stopped in this process,
\* however the two callers of stop_network_runtime_once and its failures fall.
THEOREM CleanExit == Spec => []ExitIsClean
<1>1. Init => CleanInv
  BY DEF Init, CleanInv, ExitIsClean
<1>2. CleanInv => ExitIsClean
  BY DEF CleanInv
<1> QED
  BY <1>1, <1>2, CleanStep, PTL DEF Spec

------------------------------------------------------------------------------
(* Sessions.                                                               *)

\* Sessions are only in memory: there is none before setup has ended.
SetupInv == process = "setup" => DOMAIN sessions = {}

LEMMA SetupStep == SetupInv /\ [Next]_vars => SetupInv'
<1> SUFFICES ASSUME SetupInv, [Next]_vars PROVE SetupInv'
  OBVIOUS
<1> USE DEF SetupInv
<1>1. CASE Protection
  BY <1>1 DEF Protection, Setup, StartProtection, StartEnds, Running, session
<1>2. CASE Management
  BY <1>2 DEF Management, InitializePassword, Tick, Unlock, Lock, RequireSession, Running
<1>3. CASE Quitting
  BY <1>3 DEF Quitting, QuitMenu, AskToExit, ConfirmedQuit, ConfirmedQuitFails, ExitPrevented,
              ExitProceeds, Running, session
<1>4. CASE WebView
  BY <1>4 DEF WebView, Listen, EventArrives, Poll, Answer, Dismiss, TakePendingQuitRequest,
              Running, session
<1>5. CASE Launch
  BY <1>5 DEF Launch, NoSession
<1>6. CASE UNCHANGED vars
  BY <1>6 DEF vars, session
<1> QED
  BY <1>1, <1>2, <1>3, <1>4, <1>5, <1>6 DEF Next

\* A step of Management brings no dead session back: a new token was never drawn,
\* and a use forgets what has expired before it looks the token up.
LEMMA ManagementKeepsDead ==
  ASSUME TypeOK, Management, NEW t \in issued, ~Live(t)
  PROVE  ~Live(t)'
<1> USE LifecycleAssumption DEF TypeOK
<1>1. CASE InitializePassword
  BY <1>1 DEF InitializePassword, Live, Running
<1>2. CASE Tick
  <2>1. clock' > clock
    BY <1>2 DEF Tick
  <2>2. t \in DOMAIN sessions => sessions[t] \in Nat
    BY DEF TypeOK
  <2> QED
    BY <1>2, <2>1, <2>2 DEF Tick, Live, Running
<1>3. ASSUME NEW u \in Tokens, Unlock(u) PROVE ~Live(t)'
  BY <1>3 DEF Unlock, Live, Running
<1>4. ASSUME NEW u \in Tokens, Lock(u) PROVE ~Live(t)'
  <2>1. t \in DOMAIN sessions' => t \in DOMAIN sessions /\ sessions'[t] = sessions[t]
    BY <1>4 DEF Lock, Drop
  <2> QED
    BY <1>4, <2>1 DEF Lock, Live, Running
<1>5. ASSUME NEW u \in Tokens, RequireSession(u) PROVE ~Live(t)'
  <2> DEFINE kept == Drop(sessions, Expired)
  <2>1. t \notin DOMAIN kept
    BY <1>5 DEF RequireSession, Live, Expired, Drop
  <2>2. sessions' = IF u \in DOMAIN kept THEN [kept EXCEPT ![u] = clock + TTL] ELSE kept
    BY <1>5 DEF RequireSession
  <2> HIDE DEF kept
  <2>3. t \notin DOMAIN sessions'
    BY <2>1, <2>2
  <2> QED
    BY <2>3 DEF Live
<1> QED
  BY <1>1, <1>2, <1>3, <1>4, <1>5 DEF Management

LEMMA OthersKeepDead ==
  ASSUME TypeOK, SetupInv, Protection \/ Quitting \/ WebView \/ Launch \/ UNCHANGED vars,
         NEW t \in issued, ~Live(t)
  PROVE  ~Live(t)'
<1>1. CASE Setup
  BY <1>1 DEF Setup, SetupInv, session, Live
<1>2. ASSUME NEW u \in Tokens, StartProtection(u) PROVE ~Live(t)'
  BY <1>2 DEF StartProtection, Live, Running
<1>3. CASE StartEnds
  BY <1>3 DEF StartEnds, session, Live, Running
<1>4. CASE Quitting
  BY <1>4 DEF Quitting, QuitMenu, AskToExit, ConfirmedQuit, ConfirmedQuitFails, ExitPrevented,
              ExitProceeds, session, Live, Running
<1>5. CASE WebView
  BY <1>5 DEF WebView, Listen, EventArrives, Poll, Answer, Dismiss, TakePendingQuitRequest,
              session, Live, Running
<1>6. CASE Launch
  BY <1>6 DEF Launch, Live, Running
<1>7. CASE UNCHANGED vars
  BY <1>7 DEF vars, session, Live, Running
<1> QED
  BY <1>1, <1>2, <1>3, <1>4, <1>5, <1>6, <1>7 DEF Protection

\* A session that was locked, has expired or belonged to an earlier process is
\* never accepted again (require_session, unlock, lock).
THEOREM SessionsStayDead == Spec => DeadSessionsStayDead
<1>1. TypeOK /\ SetupInv /\ [Next]_vars => [\A t \in issued : ~Live(t) => ~Live(t)']_vars
  BY ManagementKeepsDead, OthersKeepDead DEF Next
<1>2. Init => SetupInv
  BY DEF Init, SetupInv, NoSession
<1> QED
  BY <1>1, <1>2, SetupStep, TypeCorrect, PTL DEF Spec, DeadSessionsStayDead

----------------------------------------------------------------------------
(* Opening the database.                                                   *)

(***************************************************************************)
(* How far an opening is when it reaches a statement.                      *)
(***************************************************************************)
SourcesDone == {"checkFallback", "insertSecond", "checkEntertainment", "flagEntertainment",
                "payloads", "open"}
PornographyDone == {"enableFixed", "deleteOldSources"} \cup SourcesDone
AdblockDone == {"seedSources", "checkPornography", "flagPornography"} \cup PornographyDone
LogsDone == {"checkAdblock", "flagAdblock"} \cup AdblockDone
ParentsDone == {"saveStrings", "referToStrings", "checkCompact", "createCopy", "fillCopy"}
                   \cup LogsDone

\* Rules of parents are in one of two tables; a table is renamed only when no
\* renamed one is there, and dropped only when its rules have been copied.
ParentsSafe ==
    /\ parent \in ParentTable /\ parentOld \in ParentTable
    /\ ParentRulesOnDisk
    /\ parent.constraint = "none" => parent = NoTable
    /\ parent.constraint = "old" => parentOld = NoTable
    /\ pc = "checkParents" => parent.constraint # "none"
    /\ pc = "createParents" => parent = NoTable
    /\ pc \in {"copyParents", "dropOldParents"} \cup ParentsDone => parent.constraint = "new"
    /\ pc = "dropOldParents" => parentOld.rules \subseteq parent.rules

\* A column is emptied only when the strings of its texts are saved.
LogsSafe ==
    /\ shape \in {"text", "compact"}
    /\ RowsReadable
    /\ shape = "compact" => \A r \in Rows : text[r] = {}
    /\ text \in [Rows -> SUBSET Columns] /\ ids \in [Rows -> SUBSET Columns]
    /\ pc = "referToStrings" => \A r \in Rows : "process" \in text[r] => <<r, "process">> \in strings
    /\ pc \in {"checkCompact", "createCopy", "fillCopy"} => \A r \in Rows : "process" \notin text[r]
    /\ pc \in {"createCopy", "fillCopy"} =>
         shape = "text" /\ \A r \in Rows : "domain" \in text[r] => <<r, "domain">> \in strings
    /\ pc \in LogsDone => shape = "compact"

Covered == imported["oldPorn"] # {} => imported["oisd"] # {}

\* What each migration has done stays done, and the source that replaces another
\* has its rules before the other is deleted.
SourcesSafe ==
    /\ imported \in [Sources -> SUBSET Rules]
    /\ flags \subseteq Migrations
    /\ "adblock" \in flags \/ pc = "flagAdblock" => "legacy" \notin imported["adblock"]
    /\ pc \in AdblockDone => "adblock" \in flags
    /\ "oisd" \in flags \/ pc = "flagPornography" => Covered
    /\ pc \in PornographyDone => "oisd" \in flags
    /\ pc \in SourcesDone => "oldPorn" \notin listed
    /\ pc \in {"payloads", "open"} => "entertainment" \in flags
    /\ pc = "open" => payload # "plain"

\* A choice is made in an open application only, when nothing is left to migrate.
ChoiceSafe ==
    /\ choice \in {"none", "on", "off"}
    /\ choice # "none" => "entertainment" \in flags
    /\ ChoiceIsKept

IInv == ParentsSafe /\ LogsSafe /\ SourcesSafe /\ ChoiceSafe

----------------------------------------------------------------------------
LEMMA InitSafe == OpeningInit => IInv
<1> SUFFICES ASSUME OpeningInit PROVE IInv
  OBVIOUS
<1> USE DEF OpeningInit, NoTable, Sources, Columns, Rules, Fallback
<1>1. ParentsSafe
  <2>1. CASE Fresh
    BY <2>1 DEF Fresh, ParentsSafe, ParentTable, ParentRulesOnDisk, ParentsDone, LogsDone,
                AdblockDone, PornographyDone, SourcesDone
  <2>2. CASE Earlier
    BY <2>2 DEF Earlier, ParentsSafe, ParentTable, ParentRulesOnDisk, ParentsDone, LogsDone,
                AdblockDone, PornographyDone, SourcesDone
  <2> QED
    BY <2>1, <2>2
<1>2. LogsSafe
  <2>1. CASE Fresh
    BY <2>1 DEF Fresh, LogsSafe, RowsReadable, LogsDone, AdblockDone, PornographyDone, SourcesDone
  <2>2. CASE Earlier
    BY <2>2 DEF Earlier, LogsSafe, RowsReadable, LogsDone, AdblockDone, PornographyDone, SourcesDone
  <2> QED
    BY <2>1, <2>2
<1>3. SourcesSafe
  <2>1. CASE Fresh
    BY <2>1 DEF Fresh, SourcesSafe, Covered, AdblockDone, PornographyDone, SourcesDone
  <2>2. CASE Earlier
    BY <2>2 DEF Earlier, SourcesSafe, Covered, AdblockDone, PornographyDone, SourcesDone, Migrations
  <2> QED
    BY <2>1, <2>2
<1>4. ChoiceSafe
  BY DEF ChoiceSafe, ChoiceIsKept
<1> QED
  BY <1>1, <1>2, <1>3, <1>4 DEF IInv

----------------------------------------------------------------------------
(* The rules of the parents.                                               *)

\* What leaves both tables alone has only to keep to the order of the statements.
LEMMA ParentsKept == ASSUME IInv, OpeningNext PROVE ParentsSafe'
<1> USE DEF IInv, ParentsSafe, ParentTable, ParentRulesOnDisk, NoTable, At, Then
<1>1. CASE CreateTables
  BY <1>1 DEF CreateTables, ghosts, ParentsDone, LogsDone, AdblockDone, PornographyDone, SourcesDone
<1>2. CASE ParentsAreCurrent
  BY <1>2 DEF ParentsAreCurrent, parentVars, ghosts
<1>3. CASE RenameParents
  BY <1>3 DEF RenameParents, ghosts, ParentsDone, LogsDone, AdblockDone, PornographyDone, SourcesDone
<1>4. CASE CreateParents
  BY <1>4 DEF CreateParents, ghosts, ParentsDone, LogsDone, AdblockDone, PornographyDone, SourcesDone
<1>5. CASE CopyParents
  BY <1>5 DEF CopyParents, ghosts, ParentsDone, LogsDone, AdblockDone, PornographyDone, SourcesDone
<1>6. CASE DropOldParents
  BY <1>6 DEF DropOldParents, ghosts
<1>7. CASE OpenLogs
  <2>1. UNCHANGED <<parentVars, wanted>> /\ pc' \notin {"checkParents", "createParents", "dropOldParents"}
        /\ parent.constraint = "new"
    BY <1>7 DEF OpenLogs, SaveStrings, ReferToStrings, LogsAreCompact, SaveDomains, CreateCopy,
                CopyAlreadyExists, FillCopy, FillFails, ghosts, ParentsDone
  <2> QED
    BY <2>1 DEF parentVars
<1>8. CASE OpenSources
  <2>1. UNCHANGED <<parentVars, wanted>> /\ pc' \notin {"checkParents", "createParents", "dropOldParents"}
        /\ parent.constraint = "new"
    BY <1>8 DEF OpenSources, AdblockIsCurrent, DeleteLegacyRules, FlagAdblock, SeedSources,
                PornographyIsCurrent, CopyPornography, FlagPornography, EnableFixed,
                DeleteOldSources, HasRules, InsertFirst, InsertSecond, InsertFallback,
                EntertainmentIsCurrent, EnableEntertainment, FlagEntertainment, ghosts,
                ParentsDone, LogsDone, AdblockDone, PornographyDone, SourcesDone
  <2> QED
    BY <2>1 DEF parentVars
<1>9. CASE Start \/ Close \/ Crash \/ NoKey \/ EncryptPayloads
  <2>1. UNCHANGED <<parentVars, wanted>> /\ pc' \in {"createTables", "closed", "open"}
        /\ (pc' = "open" => parent.constraint = "new")
    BY <1>9 DEF Start, Close, Crash, NoKey, EncryptPayloads, ghosts,
                ParentsDone, LogsDone, AdblockDone, PornographyDone, SourcesDone
  <2> QED
    BY <2>1 DEF parentVars, ParentsDone, LogsDone, AdblockDone, PornographyDone, SourcesDone
<1>10. CASE Use
  <2> USE DEF Edit, ghosts
  <2>1. ASSUME NEW r \in ParentRules, CreateParentRule(r) PROVE ParentsSafe'
    <3>1. parent' = [constraint |-> parent.constraint, rules |-> parent.rules \cup {r}]
      BY <2>1 DEF CreateParentRule
    <3> QED
      BY <2>1, <3>1 DEF CreateParentRule, ParentsDone, LogsDone, AdblockDone, PornographyDone,
                        SourcesDone
  <2>2. ASSUME NEW r \in ParentRules, DeleteParentRule(r) PROVE ParentsSafe'
    <3>1. parent' = [constraint |-> parent.constraint, rules |-> parent.rules \ {r}]
      BY <2>2 DEF DeleteParentRule
    <3> QED
      BY <2>2, <3>1 DEF DeleteParentRule, ParentsDone, LogsDone, AdblockDone, PornographyDone,
                        SourcesDone
  <2>3. CASE SwitchOptional
    BY <2>3 DEF SwitchOptional
  <2>4. ASSUME NEW s \in Sources, Refresh(s) PROVE ParentsSafe'
    BY <2>4 DEF Refresh
  <2> QED
    BY <1>10, <2>1, <2>2, <2>3, <2>4 DEF Use
<1> QED
  BY <1>1, <1>2, <1>3, <1>4, <1>5, <1>6, <1>7, <1>8, <1>9, <1>10 DEF OpeningNext, OpenParents

----------------------------------------------------------------------------
(* The access log.                                                         *)

LEMMA LogsKept == ASSUME IInv, OpeningNext PROVE LogsSafe'
<1> USE DEF IInv, LogsSafe, RowsReadable, Columns, Textual, At, Then, logVars
<1>1. CASE SaveStrings
  <2>1. strings' = strings \cup (Textual("process") \X {"process"})
        /\ UNCHANGED <<shape, text, ids>> /\ pc' = "referToStrings"
    BY <1>1 DEF SaveStrings
  <2>2. \A r \in Rows : "process" \in text[r] => <<r, "process">> \in strings'
    BY <2>1
  <2>3. strings' # {} => strings # {} \/ shape = "text"
    BY <2>1
  <2> QED
    BY <2>1, <2>2, <2>3 DEF LogsDone, AdblockDone, PornographyDone, SourcesDone
<1>2. CASE ReferToStrings
  <2>1. \A r \in Rows : /\ text'[r] = text[r] \ {"process"}
                          /\ ids'[r] = ids[r] \cup (text[r] \cap {"process"})
    BY <1>2 DEF ReferToStrings
  <2>2. text' \in [Rows -> SUBSET Columns] /\ ids' \in [Rows -> SUBSET Columns]
    BY <1>2 DEF ReferToStrings
  <2>3. UNCHANGED <<shape, strings>> /\ pc = "referToStrings" /\ pc' = "checkCompact"
    BY <1>2 DEF ReferToStrings
  <2> QED
    BY <2>1, <2>2, <2>3 DEF LogsDone, AdblockDone, PornographyDone, SourcesDone
<1>3. CASE LogsAreCompact
  BY <1>3 DEF LogsAreCompact, LogsDone
<1>4. CASE SaveDomains
  <2>1. strings' = strings \cup (Textual("domain") \X {"domain"}) /\ shape = "text"
        /\ UNCHANGED <<shape, text, ids>> /\ pc = "checkCompact" /\ pc' = "createCopy"
    BY <1>4 DEF SaveDomains
  <2>2. \A r \in Rows : "domain" \in text[r] => <<r, "domain">> \in strings'
    BY <2>1
  <2> QED
    BY <2>1, <2>2 DEF LogsDone, AdblockDone, PornographyDone, SourcesDone
<1>5. CASE CreateCopy
  BY <1>5 DEF CreateCopy, LogsDone, AdblockDone, PornographyDone, SourcesDone
<1>6. CASE CopyAlreadyExists \/ FillFails
  BY <1>6 DEF CopyAlreadyExists, FillFails, LogsDone, AdblockDone, PornographyDone, SourcesDone
<1>7. CASE FillCopy
  <2>1. \A r \in Rows : /\ text'[r] = {}
                          /\ ids'[r] = ids[r] \cup {c \in {"domain"} : <<r, c>> \in strings}
    BY <1>7 DEF FillCopy
  <2>2. text' \in [Rows -> SUBSET Columns] /\ ids' \in [Rows -> SUBSET Columns]
    BY <1>7 DEF FillCopy
  <2>3. shape' = "compact" /\ UNCHANGED strings /\ pc = "fillCopy" /\ pc' = "checkAdblock"
    BY <1>7 DEF FillCopy
  <2>4. \A r \in Rows, c \in Columns : c \in ids'[r] /\ <<r, c>> \in strings
    <3> SUFFICES ASSUME NEW r \in Rows
                 PROVE  \A c \in Columns : c \in ids'[r] /\ <<r, c>> \in strings
      OBVIOUS
    <3>1. shape = "text" /\ "process" \notin text[r]
      BY <2>3
    <3>2. "process" \in ids[r] /\ <<r, "process">> \in strings
      BY <3>1
    <3>3. <<r, "domain">> \in strings
      BY <2>3, <3>1
    <3> QED
      BY <2>1, <3>2, <3>3
  <2> QED
    BY <2>1, <2>2, <2>3, <2>4
<1>8. CASE Start \/ OpenParents
  <2>1. UNCHANGED logVars /\ pc' \in {"createTables", "checkParents", "createParents",
                                      "copyParents", "dropOldParents", "saveStrings"}
    BY <1>8 DEF Start, OpenParents, CreateTables, ParentsAreCurrent, RenameParents, CreateParents,
                CopyParents, DropOldParents
  <2> QED
    BY <2>1 DEF LogsDone, AdblockDone, PornographyDone, SourcesDone
<1>9. CASE OpenSources \/ EncryptPayloads
  <2>1. UNCHANGED logVars /\ pc \in LogsDone /\ pc' \in LogsDone
    BY <1>9 DEF OpenSources, AdblockIsCurrent, DeleteLegacyRules, FlagAdblock, SeedSources,
                PornographyIsCurrent, CopyPornography, FlagPornography, EnableFixed,
                DeleteOldSources, HasRules, InsertFirst, InsertSecond, InsertFallback,
                EntertainmentIsCurrent, EnableEntertainment, FlagEntertainment, EncryptPayloads,
                LogsDone, AdblockDone, PornographyDone, SourcesDone
  <2> QED
    BY <2>1 DEF LogsDone, AdblockDone, PornographyDone, SourcesDone
<1>10. CASE Use
  <2>1. UNCHANGED <<logVars, pc>>
    BY <1>10 DEF Use, CreateParentRule, DeleteParentRule, SwitchOptional, Refresh, Edit
  <2> QED
    BY <2>1
<1>11. CASE Close \/ Crash \/ NoKey
  BY <1>11 DEF Close, Crash, NoKey, LogsDone, AdblockDone, PornographyDone, SourcesDone
<1> QED
  BY <1>1, <1>2, <1>3, <1>4, <1>5, <1>6, <1>7, <1>8, <1>9, <1>10, <1>11 DEF OpeningNext, OpenLogs

----------------------------------------------------------------------------
(* The sources and their rules.                                            *)

LEMMA SourcesKept == ASSUME IInv, OpeningNext PROVE SourcesSafe'
<1> USE DEF IInv, SourcesSafe, Covered, Sources, Rules, Fallback, Migrations, At, Then
<1>1. CASE AdblockIsCurrent
  BY <1>1 DEF AdblockIsCurrent, sourceVars, AdblockDone, PornographyDone, SourcesDone
<1>2. CASE DeleteLegacyRules
  BY <1>2 DEF DeleteLegacyRules, AdblockDone, PornographyDone, SourcesDone
<1>3. CASE FlagAdblock
  BY <1>3 DEF FlagAdblock, sourceVars, AdblockDone, PornographyDone, SourcesDone
<1>4. CASE SeedSources
  BY <1>4 DEF SeedSources, AdblockDone, PornographyDone, SourcesDone
<1>5. CASE PornographyIsCurrent
  BY <1>5 DEF PornographyIsCurrent, sourceVars, AdblockDone, PornographyDone, SourcesDone
<1>6. CASE CopyPornography
  BY <1>6 DEF CopyPornography, AdblockDone, PornographyDone, SourcesDone
<1>7. CASE FlagPornography
  BY <1>7 DEF FlagPornography, sourceVars, AdblockDone, PornographyDone, SourcesDone
<1>8. CASE EnableFixed
  BY <1>8 DEF EnableFixed, AdblockDone, PornographyDone, SourcesDone
<1>9. CASE DeleteOldSources
  BY <1>9 DEF DeleteOldSources, AdblockDone, PornographyDone, SourcesDone
<1>10. CASE HasRules
  BY <1>10 DEF HasRules, sourceVars, AdblockDone, PornographyDone, SourcesDone
<1>11. CASE InsertFirst
  BY <1>11 DEF InsertFirst, InsertFallback, AdblockDone, PornographyDone, SourcesDone
<1>12. CASE InsertSecond
  BY <1>12 DEF InsertSecond, InsertFallback, AdblockDone, PornographyDone, SourcesDone
<1>13. CASE EntertainmentIsCurrent
  BY <1>13 DEF EntertainmentIsCurrent, sourceVars, AdblockDone, PornographyDone, SourcesDone
<1>14. CASE EnableEntertainment
  BY <1>14 DEF EnableEntertainment, AdblockDone, PornographyDone, SourcesDone
<1>15. CASE FlagEntertainment
  BY <1>15 DEF FlagEntertainment, sourceVars, AdblockDone, PornographyDone, SourcesDone
<1>16. CASE EncryptPayloads
  BY <1>16 DEF EncryptPayloads, sourceVars, AdblockDone, PornographyDone, SourcesDone
<1>17. CASE Start \/ OpenParents \/ OpenLogs \/ Close \/ Crash \/ NoKey
  <2>1. UNCHANGED <<sourceVars, flags, payload>>
        /\ pc' \notin AdblockDone \cup {"flagAdblock", "flagPornography"}
    BY <1>17 DEF Start, Close, Crash, NoKey, OpenParents, CreateTables, ParentsAreCurrent,
                 RenameParents, CreateParents, CopyParents, DropOldParents, OpenLogs, SaveStrings,
                 ReferToStrings, LogsAreCompact, SaveDomains, CreateCopy, CopyAlreadyExists,
                 FillCopy, FillFails, AdblockDone, PornographyDone, SourcesDone
  <2> QED
    BY <2>1 DEF sourceVars, AdblockDone, PornographyDone, SourcesDone
<1>18. CASE Use
  <2>1. ASSUME NEW s \in Sources \ {"oldPorn"}, Refresh(s) PROVE SourcesSafe'
    BY <2>1 DEF Refresh, Edit
  <2>2. ASSUME UNCHANGED <<imported, payload, flags, listed, pc>> PROVE SourcesSafe'
    BY <2>2
  <2> QED
    BY <1>18, <2>1, <2>2 DEF Use, CreateParentRule, DeleteParentRule, SwitchOptional, Edit
<1> QED
  BY <1>1, <1>2, <1>3, <1>4, <1>5, <1>6, <1>7, <1>8, <1>9, <1>10, <1>11, <1>12, <1>13, <1>14,
     <1>15, <1>16, <1>17, <1>18 DEF OpeningNext, OpenSources

----------------------------------------------------------------------------
(* The choices of the parents.                                             *)

LEMMA ChoicesKept == ASSUME IInv, OpeningNext PROVE ChoiceSafe'
<1> USE DEF IInv, ChoiceSafe, ChoiceIsKept, At, Then, sourceVars, ghosts
<1>1. CASE SwitchOptional
  BY <1>1 DEF SwitchOptional, Edit, SourcesSafe
<1>2. CASE EnableEntertainment
  BY <1>2 DEF EnableEntertainment
<1>3. CASE SeedSources
  BY <1>3 DEF SeedSources, Defaults
<1>4. CASE EnableFixed
  BY <1>4 DEF EnableFixed
<1>5. CASE DeleteOldSources
  BY <1>5 DEF DeleteOldSources
<1>6. CASE FlagAdblock \/ FlagPornography \/ FlagEntertainment
  BY <1>6 DEF FlagAdblock, FlagPornography, FlagEntertainment
<1>7. ASSUME UNCHANGED <<choice, enabled, flags>> PROVE ChoiceSafe'
  BY <1>7
<1>8. CASE AdblockIsCurrent \/ DeleteLegacyRules \/ PornographyIsCurrent \/ CopyPornography
           \/ HasRules \/ InsertFirst \/ InsertSecond \/ EntertainmentIsCurrent
  <2> UNCHANGED <<choice, enabled, flags>>
    BY <1>8 DEF AdblockIsCurrent, DeleteLegacyRules, PornographyIsCurrent, CopyPornography,
                HasRules, InsertFirst, InsertSecond, InsertFallback, EntertainmentIsCurrent
  <2> QED
    BY <1>7
<1>9. CASE Start \/ OpenParents \/ OpenLogs \/ Close \/ Crash \/ NoKey \/ EncryptPayloads
  <2> UNCHANGED <<choice, enabled, flags>>
    BY <1>9 DEF Start, Close, Crash, NoKey, EncryptPayloads, OpenParents, CreateTables,
                ParentsAreCurrent, RenameParents, CreateParents, CopyParents, DropOldParents,
                OpenLogs, SaveStrings, ReferToStrings, LogsAreCompact, SaveDomains, CreateCopy,
                CopyAlreadyExists, FillCopy, FillFails
  <2> QED
    BY <1>7
<1>10. CASE Use /\ ~SwitchOptional
  <2> UNCHANGED <<choice, enabled, flags>>
    BY <1>10 DEF Use, CreateParentRule, DeleteParentRule, Refresh, Edit
  <2> QED
    BY <1>7
<1> QED
  BY <1>1, <1>2, <1>3, <1>4, <1>5, <1>6, <1>8, <1>9, <1>10 DEF OpeningNext, OpenSources

----------------------------------------------------------------------------
LEMMA Stutter == ASSUME IInv, UNCHANGED openingVars PROVE IInv'
<1> USE DEF IInv, openingVars, parentVars, logVars, sourceVars, ghosts
<1>1. ParentsSafe'
  BY DEF ParentsSafe, ParentRulesOnDisk
<1>2. LogsSafe'
  BY DEF LogsSafe, RowsReadable
<1>3. SourcesSafe'
  BY DEF SourcesSafe, Covered
<1>4. ChoiceSafe'
  BY DEF ChoiceSafe, ChoiceIsKept
<1> QED
  BY <1>1, <1>2, <1>3, <1>4

\* The invariant holds in every state of every opening, interrupted or not.
THEOREM Invariance == OpeningSpec => []IInv
<1>1. IInv /\ [OpeningNext]_openingVars => IInv'
  BY ParentsKept, LogsKept, SourcesKept, ChoicesKept, Stutter DEF IInv
<1> QED
  BY InitSafe, <1>1, PTL DEF OpeningSpec

\* Wherever the process dies, every rule that parents wrote and did not delete is in
\* the file.
THEOREM ParentRulesSurvive == OpeningSpec => []ParentRulesOnDisk
<1>1. IInv => ParentRulesOnDisk
  BY DEF IInv, ParentsSafe
<1> QED
  BY Invariance, <1>1, PTL

\* Wherever the process dies, the text of every row of the access log can be read.
THEOREM RowsStayReadable == OpeningSpec => []RowsReadable
<1>1. IInv => RowsReadable
  BY DEF IInv, LogsSafe
<1> QED
  BY Invariance, <1>1, PTL

\* What parents chose for an optional source outlives closings, deaths and openings.
THEOREM ChoicesSurvive == OpeningSpec => []ChoiceIsKept
<1>1. IInv => ChoiceIsKept
  BY DEF IInv, ChoiceSafe
<1> QED
  BY Invariance, <1>1, PTL

\* An opening that ends has completed every migration, after any number of openings
\* that did not end.
THEOREM OpeningMigrates == OpeningSpec => []OpenIsMigrated
<1>1. IInv => OpenIsMigrated
  <2> SUFFICES ASSUME IInv, pc = "open" PROVE OpenIsMigrated
    BY DEF OpenIsMigrated, At
  <2>1. parent.constraint = "new"
    BY DEF IInv, ParentsSafe, ParentsDone, LogsDone, AdblockDone, PornographyDone, SourcesDone
  <2>2. shape = "compact" /\ \A r \in Rows : text[r] = {}
    BY DEF IInv, LogsSafe, LogsDone, AdblockDone, PornographyDone, SourcesDone
  <2>3. /\ "legacy" \notin imported["adblock"] /\ "oldPorn" \notin listed
        /\ flags = Migrations /\ payload # "plain"
    BY DEF IInv, SourcesSafe, AdblockDone, PornographyDone, SourcesDone, Migrations
  <2> QED
    BY <2>1, <2>2, <2>3 DEF OpenIsMigrated, At
<1> QED
  BY Invariance, <1>1, PTL

\* No step of an opening, no death and no refresh takes the last rules of the category
\* whose source is replaced.
THEOREM CategoryStaysCovered == OpeningSpec => PornographyStaysCovered
<1>1. IInv /\ [OpeningNext]_openingVars => [HasPornographyRules => HasPornographyRules']_openingVars
  <2> SUFFICES ASSUME IInv, OpeningNext, HasPornographyRules PROVE HasPornographyRules'
    OBVIOUS
  <2> USE DEF IInv, SourcesSafe, Covered, HasPornographyRules, Sources, At, Then, sourceVars
  <2>1. CASE DeleteOldSources
    BY <2>1 DEF DeleteOldSources, PornographyDone
  <2>2. CASE CopyPornography
    BY <2>2 DEF CopyPornography
  <2>3. ASSUME NEW s \in Sources \ {"oldPorn"}, Refresh(s) PROVE HasPornographyRules'
    BY <2>3 DEF Refresh
  <2>4. CASE DeleteLegacyRules \/ InsertFirst \/ InsertSecond
    BY <2>4 DEF DeleteLegacyRules, InsertFirst, InsertSecond, InsertFallback
  <2>5. CASE OpenSources
    BY <2>1, <2>2, <2>4, <2>5 DEF OpenSources, AdblockIsCurrent, FlagAdblock, SeedSources,
       PornographyIsCurrent, FlagPornography, EnableFixed, HasRules, EntertainmentIsCurrent,
       EnableEntertainment, FlagEntertainment
  <2>6. CASE Start \/ OpenParents \/ OpenLogs \/ Close \/ Crash \/ NoKey \/ EncryptPayloads
    <3> UNCHANGED imported
      BY <2>6 DEF Start, Close, Crash, NoKey, EncryptPayloads, OpenParents, CreateTables,
                  ParentsAreCurrent, RenameParents, CreateParents, CopyParents, DropOldParents,
                  OpenLogs, SaveStrings, ReferToStrings, LogsAreCompact, SaveDomains, CreateCopy,
                  CopyAlreadyExists, FillCopy, FillFails
    <3> QED
      OBVIOUS
  <2>7. CASE Use
    BY <2>3, <2>7 DEF Use, CreateParentRule, DeleteParentRule, SwitchOptional
  <2> QED
    BY <2>5, <2>6, <2>7 DEF OpeningNext
<1> QED
  BY Invariance, <1>1, PTL DEF OpeningSpec, PornographyStaysCovered

----------------------------------------------------------------------------
(* Types, and what a downloaded list is not mixed with.                    *)

\* The types by the part of the file they are about.  The defaults are listed before
\* anything is stored for them, and what is replaced has never had a content hash.
ParentTypes ==
    /\ pc \in Statements \cup {"closed", "open"}
    /\ parent \in ParentTable /\ parentOld \in ParentTable
    /\ wanted \subseteq ParentRules
    /\ payload \in {"none", "plain", "cw1", "cw2"} /\ choice \in {"none", "on", "off"}
    /\ crashes \in 0..MaxCrashes /\ edits \in 0..MaxEdits

LogTypes ==
    /\ shape \in {"text", "compact"} /\ copy \in BOOLEAN
    /\ text \in [Rows -> SUBSET Columns] /\ ids \in [Rows -> SUBSET Columns]
    /\ strings \subseteq Rows \X Columns

SourceTypes ==
    /\ listed \subseteq Sources /\ enabled \subseteq listed /\ hashed \subseteq listed
    /\ imported \in [Sources -> SUBSET Rules]
    /\ \A s \in Sources \ listed : imported[s] = {}
    /\ flags \subseteq Migrations
    /\ "oldPorn" \notin hashed
    /\ pc \in AdblockDone \ {"seedSources"} => Defaults \subseteq listed

LEMMA InitOpeningTypes == OpeningInit => ParentTypes /\ LogTypes /\ SourceTypes
<1> SUFFICES ASSUME OpeningInit PROVE ParentTypes /\ LogTypes /\ SourceTypes
  OBVIOUS
<1> USE DEF OpeningInit
<1>1. ParentTypes
  BY OpeningAssumption DEF ParentTypes, ParentTable, NoTable, Fresh, Earlier
<1>2. copy \in BOOLEAN
  OBVIOUS
<1>3. LogTypes
  BY <1>2 DEF LogTypes, Columns, Fresh, Earlier
<1>4. pc \notin AdblockDone
  BY DEF AdblockDone, PornographyDone, SourcesDone
<1>5. ASSUME Fresh PROVE SourceTypes
  BY <1>4, <1>5 DEF Fresh, SourceTypes, Sources, Rules
<1>6. ASSUME Earlier PROVE SourceTypes
  <2>1. listed \subseteq Sources /\ enabled \subseteq listed /\ hashed \subseteq listed
    BY <1>6 DEF Earlier, Sources
  <2>2. imported \in [Sources -> SUBSET Rules]
    BY <1>6 DEF Earlier, Sources, Rules, Fallback
  <2>3. \A s \in Sources \ listed : imported[s] = {}
    BY <1>6 DEF Earlier, Sources
  <2>4. flags \subseteq Migrations /\ "oldPorn" \notin hashed
    BY <1>6 DEF Earlier, Migrations
  <2> QED
    BY <1>4, <2>1, <2>2, <2>3, <2>4 DEF SourceTypes
<1> QED
  BY <1>1, <1>3, <1>5, <1>6

LEMMA ParentTypesKept == ASSUME ParentTypes, OpeningNext PROVE ParentTypes'
<1> USE OpeningAssumption DEF ParentTypes, ParentTable, NoTable, At, Then, Statements,
        parentVars, ghosts, limits
<1>1. ASSUME UNCHANGED <<parentVars, ghosts, payload, limits>>,
             pc' \in Statements \cup {"closed", "open"}
      PROVE ParentTypes'
  BY <1>1
<1>2. CASE OpenParents
  BY <1>1, <1>2 DEF OpenParents, CreateTables, ParentsAreCurrent, RenameParents, CreateParents,
     CopyParents, DropOldParents
<1>3. CASE FillFails
  BY <1>3 DEF FillFails
<1>4. CASE NoKey
  BY <1>4 DEF NoKey
<1>5. CASE Crash
  BY <1>5 DEF Crash
<1>6. CASE EncryptPayloads
  BY <1>6 DEF EncryptPayloads
<1>7. CASE Start \/ Close
  BY <1>1, <1>7 DEF Start, Close
<1>8. CASE OpenLogs
  BY <1>1, <1>3, <1>8 DEF OpenLogs, SaveStrings, ReferToStrings, LogsAreCompact, SaveDomains,
     CreateCopy, CopyAlreadyExists, FillCopy
<1>9. CASE OpenSources
  BY <1>1, <1>9 DEF OpenSources, AdblockIsCurrent, DeleteLegacyRules, FlagAdblock, SeedSources,
     PornographyIsCurrent, CopyPornography, FlagPornography, EnableFixed, DeleteOldSources,
     HasRules, InsertFirst, InsertSecond, InsertFallback, EntertainmentIsCurrent,
     EnableEntertainment, FlagEntertainment
<1>10. CASE Use
  <2>1. ASSUME NEW r \in ParentRules, CreateParentRule(r) \/ DeleteParentRule(r)
        PROVE ParentTypes'
    BY <2>1 DEF CreateParentRule, DeleteParentRule, Edit
  <2>2. CASE SwitchOptional
    BY <2>2 DEF SwitchOptional, Edit
  <2>3. ASSUME NEW s \in Sources, Refresh(s) PROVE ParentTypes'
    BY <2>3 DEF Refresh, Edit
  <2> QED
    BY <1>10, <2>1, <2>2, <2>3 DEF Use
<1> QED
  BY <1>2, <1>4, <1>5, <1>6, <1>7, <1>8, <1>9, <1>10 DEF OpeningNext

LEMMA LogTypesKept == ASSUME LogTypes, OpeningNext PROVE LogTypes'
<1> USE DEF LogTypes, logVars
<1>1. ASSUME UNCHANGED logVars PROVE LogTypes'
  BY <1>1
<1>2. CASE SaveStrings
  BY <1>2 DEF SaveStrings, Textual, Columns
<1>3. CASE ReferToStrings
  BY <1>3 DEF ReferToStrings, Columns
<1>4. CASE SaveDomains
  BY <1>4 DEF SaveDomains, Textual, Columns
<1>5. CASE CreateCopy
  <2>1. copy' \in BOOLEAN
    BY <1>5 DEF CreateCopy
  <2> QED
    BY <1>5, <2>1 DEF CreateCopy
<1>6. CASE FillCopy
  <2>1. copy' \in BOOLEAN
    BY <1>6 DEF FillCopy
  <2>2. ids' \in [Rows -> SUBSET Columns]
    BY <1>6 DEF FillCopy, Columns
  <2> QED
    BY <1>6, <2>1, <2>2 DEF FillCopy
<1>7. CASE OpenLogs
  BY <1>1, <1>2, <1>3, <1>4, <1>5, <1>6, <1>7
     DEF OpenLogs, LogsAreCompact, CopyAlreadyExists, FillFails
<1>8. CASE OpenParents
  BY <1>1, <1>8 DEF OpenParents, CreateTables, ParentsAreCurrent, RenameParents, CreateParents,
     CopyParents, DropOldParents
<1>9. CASE OpenSources
  BY <1>1, <1>9 DEF OpenSources, AdblockIsCurrent, DeleteLegacyRules, FlagAdblock, SeedSources,
     PornographyIsCurrent, CopyPornography, FlagPornography, EnableFixed, DeleteOldSources,
     HasRules, InsertFirst, InsertSecond, InsertFallback, EntertainmentIsCurrent,
     EnableEntertainment, FlagEntertainment
<1>10. CASE Use
  BY <1>1, <1>10 DEF Use, CreateParentRule, DeleteParentRule, SwitchOptional, Refresh, Edit
<1> QED
  BY <1>1, <1>7, <1>8, <1>9, <1>10 DEF OpeningNext, Start, EncryptPayloads, NoKey, Close, Crash

LEMMA SourceTypesKept == ASSUME SourceTypes, OpeningNext PROVE SourceTypes'
<1> USE DEF SourceTypes, AdblockDone, PornographyDone, SourcesDone, At, Then, sourceVars
<1>1. ASSUME UNCHANGED <<sourceVars, flags>>,
             pc' \in AdblockDone \ {"seedSources"} => pc \in AdblockDone \ {"seedSources"}
      PROVE SourceTypes'
  BY <1>1
<1>2. CASE Start \/ OpenParents \/ OpenLogs
  BY <1>1, <1>2 DEF Start, OpenParents, CreateTables, ParentsAreCurrent, RenameParents,
     CreateParents, CopyParents, DropOldParents, OpenLogs, SaveStrings, ReferToStrings,
     LogsAreCompact, SaveDomains, CreateCopy, CopyAlreadyExists, FillCopy, FillFails
<1>3. CASE EncryptPayloads \/ NoKey \/ Close \/ Crash
  BY <1>1, <1>3 DEF EncryptPayloads, NoKey, Close, Crash
<1>4. CASE AdblockIsCurrent \/ PornographyIsCurrent \/ HasRules \/ EntertainmentIsCurrent
  BY <1>1, <1>4 DEF AdblockIsCurrent, PornographyIsCurrent, HasRules, EntertainmentIsCurrent
<1>5. CASE FlagAdblock \/ FlagPornography \/ FlagEntertainment
  BY <1>5 DEF FlagAdblock, FlagPornography, FlagEntertainment, Migrations
<1>6. CASE DeleteLegacyRules
  BY <1>6 DEF DeleteLegacyRules, Sources
<1>7. CASE SeedSources
  BY <1>7 DEF SeedSources, Sources, Defaults
<1>8. CASE CopyPornography
  BY <1>8 DEF CopyPornography, Sources, Defaults
<1>9. CASE EnableFixed
  BY <1>9 DEF EnableFixed
<1>10. CASE DeleteOldSources
  BY <1>10 DEF DeleteOldSources, Sources, Defaults
<1>11. CASE InsertFirst \/ InsertSecond
  <2>1. "builtin" \in listed
    BY <1>11 DEF InsertFirst, InsertSecond, Defaults
  <2>2. imported' \in [Sources -> SUBSET Rules]
    BY <1>11 DEF InsertFirst, InsertSecond, InsertFallback, Rules, Fallback
  <2>3. \A s \in Sources \ listed : imported'[s] = {}
    BY <1>11, <2>1 DEF InsertFirst, InsertSecond, InsertFallback
  <2> QED
    BY <1>11, <2>2, <2>3 DEF InsertFirst, InsertSecond, InsertFallback
<1>12. CASE EnableEntertainment
  BY <1>12 DEF EnableEntertainment, Defaults
<1>13. CASE Use
  <2>1. ASSUME NEW r \in ParentRules, CreateParentRule(r) \/ DeleteParentRule(r)
        PROVE SourceTypes'
    BY <2>1 DEF CreateParentRule, DeleteParentRule, Edit
  <2>2. CASE SwitchOptional
    <3>1. pc = "open" /\ UNCHANGED <<pc, listed, hashed, imported, flags>>
      BY <2>2 DEF SwitchOptional, Edit
    <3>2. enabled' \in {enabled \cup {"optional"}, enabled \ {"optional"}}
      BY <2>2 DEF SwitchOptional
    <3>3. "optional" \in listed
      BY <3>1 DEF Defaults
    <3> QED
      BY <3>1, <3>2, <3>3
  <2>3. ASSUME NEW s \in Sources \ {"oldPorn"}, Refresh(s) PROVE SourceTypes'
    BY <2>3 DEF Refresh, Edit, Rules
  <2> QED
    BY <1>13, <2>1, <2>2, <2>3 DEF Use
<1> QED
  BY <1>2, <1>3, <1>4, <1>5, <1>6, <1>7, <1>8, <1>9, <1>10, <1>11, <1>12, <1>13
     DEF OpeningNext, OpenSources

\* Every variable of the opening keeps its type wherever the process dies; in particular
\* no rules are ever stored for, and none enabled of, a source that is not listed.
THEOREM OpeningTypeCorrect == OpeningSpec => []OpeningTypeOK
<1> DEFINE Types == ParentTypes /\ LogTypes /\ SourceTypes
<1>1. OpeningInit => Types
  BY InitOpeningTypes
<1>2. Types /\ [OpeningNext]_openingVars => Types'
  <2>1. ASSUME Types, UNCHANGED openingVars PROVE Types'
    BY <2>1 DEF ParentTypes, LogTypes, SourceTypes, openingVars, parentVars, logVars,
       sourceVars, ghosts, limits
  <2> QED
    BY <2>1, ParentTypesKept, LogTypesKept, SourceTypesKept
<1>3. Types => OpeningTypeOK
  BY DEF ParentTypes, LogTypes, SourceTypes, OpeningTypeOK
<1> QED
  BY <1>1, <1>2, <1>3, PTL DEF OpeningSpec

\* A list that is downloaded is not mixed with lines of the fallback file, even if the
\* process dies between the first line and the next and the source is refreshed then.
THEOREM FallbackStaysApart == OpeningSpec => []FallbackNotMixed
<1> DEFINE Apart == /\ imported \in [Sources -> SUBSET Rules]
                    /\ FallbackNotMixed
                    /\ pc = "insertSecond" => "fetched" \notin imported["builtin"]
<1>1. OpeningInit => Apart
  BY DEF OpeningInit, Fresh, Earlier, Sources, Rules, Fallback, FallbackNotMixed
<1>2. Apart /\ [OpeningNext]_openingVars => Apart'
  <2> SUFFICES ASSUME Apart, [OpeningNext]_openingVars PROVE Apart'
    OBVIOUS
  <2> USE DEF FallbackNotMixed, Sources, Rules, Fallback, At, Then, sourceVars
  <2>1. CASE InsertFirst
    BY <2>1 DEF InsertFirst, InsertFallback
  <2>2. CASE InsertSecond
    BY <2>2 DEF InsertSecond, InsertFallback
  <2>3. CASE CopyPornography \/ DeleteOldSources \/ DeleteLegacyRules
    BY <2>3 DEF CopyPornography, DeleteOldSources, DeleteLegacyRules
  <2>4. ASSUME NEW s \in Sources, Refresh(s) PROVE Apart'
    BY <2>4 DEF Refresh, Edit
  <2>5. ASSUME UNCHANGED imported, UNCHANGED pc \/ pc' # "insertSecond" PROVE Apart'
    BY <2>5
  <2>6. CASE OpenSources
    BY <2>1, <2>2, <2>3, <2>5, <2>6 DEF OpenSources, AdblockIsCurrent, FlagAdblock, SeedSources,
       PornographyIsCurrent, FlagPornography, EnableFixed, HasRules, EntertainmentIsCurrent,
       EnableEntertainment, FlagEntertainment
  <2>7. CASE Start \/ OpenParents \/ OpenLogs \/ Close \/ Crash \/ NoKey \/ EncryptPayloads
    BY <2>5, <2>7 DEF Start, Close, Crash, NoKey, EncryptPayloads, OpenParents, CreateTables,
       ParentsAreCurrent, RenameParents, CreateParents, CopyParents, DropOldParents,
       OpenLogs, SaveStrings, ReferToStrings, LogsAreCompact, SaveDomains, CreateCopy,
       CopyAlreadyExists, FillCopy, FillFails
  <2>8. CASE Use
    BY <2>4, <2>5, <2>8 DEF Use, CreateParentRule, DeleteParentRule, SwitchOptional, Edit
  <2>9. CASE UNCHANGED openingVars
    BY <2>5, <2>9 DEF openingVars
  <2> QED
    BY <2>6, <2>7, <2>8, <2>9 DEF OpeningNext
<1>3. Apart => FallbackNotMixed
  OBVIOUS
<1> QED
  BY <1>1, <1>2, <1>3, PTL DEF OpeningSpec
=============
