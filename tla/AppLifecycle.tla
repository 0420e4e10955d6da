---------------------------- MODULE AppLifecycle ----------------------------
(***************************************************************************)
(* The life cycle of the desktop application (lib.rs), the management      *)
(* sessions it keeps in memory (storage.rs) and the part of the interface  *)
(* that asks for the password before quitting (App.tsx).                   *)
(*                                                                         *)
(* The main thread runs the synchronous commands and the events of the     *)
(* window system, one at a time: each is one action.  Starting protection  *)
(* runs on another thread, and the web view answers when it likes.  What   *)
(* starting and stopping do is in ProtectionRuntime; here the network is   *)
(* taken or free.                                                          *)
(***************************************************************************)
EXTENDS Naturals, FiniteSets

CONSTANTS Tokens,       \* session tokens, each drawn once (Uuid::new_v4)
          TTL,          \* SESSION_TTL
          MaxClock, MaxRequests, MaxFailures, MaxLaunches

ASSUME LifecycleAssumption ==
    /\ IsFiniteSet(Tokens) /\ TTL \in Nat \ {0}
    /\ MaxClock \in Nat /\ MaxRequests \in Nat /\ MaxFailures \in Nat /\ MaxLaunches \in Nat

VARIABLES process,          \* "setup", "running" or "exited"
          confirmedExit, quitRequested, networkCleanupStarted,   \* AppLifecycle
          exits,            \* exit requests in the queue of the main thread
          network,          \* "free" or "taken" by a kernel and the DNS filter
          starter,          \* the thread that starts protection: "idle" or "starting"
          passwordSet,      \* app_secrets has a password_hash
          sessions,         \* token -> expiry
          issued,           \* ghost: the tokens drawn so far
          clock,
          listening,        \* the web view has subscribed to the quit event
          event,            \* a quit event is on its way to the web view
          asking,           \* takePendingQuitRequest calls in flight, by their caller
          dialog,           \* the dialog the interface shows
          cleaned,          \* ghost: protection was stopped in this process
          requests, failures, launches

lifecycle == <<confirmedExit, quitRequested, networkCleanupStarted>>
runtime   == <<network, starter, cleaned>>
session   == <<passwordSet, sessions, issued, clock>>
webview   == <<listening, event, asking, dialog>>
bounds    == <<requests, failures, launches>>
vars == <<process, lifecycle, exits, runtime, session, webview, bounds>>

Running == process = "running"
Drop(map, tokens) == [t \in DOMAIN map \ tokens |-> map[t]]
NoSession == [t \in {} |-> 0]
Live(t) == Running /\ t \in DOMAIN sessions /\ sessions[t] > clock

Init ==
    /\ process = "setup"
    /\ confirmedExit = FALSE /\ quitRequested = FALSE /\ networkCleanupStarted = FALSE
    /\ exits = 0 /\ starter = "idle" /\ sessions = NoSession
    /\ listening = FALSE /\ event = FALSE /\ asking = {} /\ dialog = "none"
    /\ cleaned = FALSE
    /\ network = "free" /\ passwordSet \in BOOLEAN /\ issued = {} /\ clock = 0
    /\ requests = 0 /\ failures = 0 /\ launches = 0

----------------------------------------------------------------------------
\* setup ends; the thread that starts protection by itself is scheduled, when
\* the setting asks for it and no kernel of an earlier process is healthy.
Setup ==
    /\ process = "setup" /\ process' = "running"
    /\ starter' \in {"idle"} \cup (IF network = "free" THEN {"starting"} ELSE {})
    /\ UNCHANGED <<lifecycle, exits, network, cleaned, session, webview, bounds>>

\* start_protection, from the interface.
StartProtection(t) ==
    /\ Running /\ Live(t) /\ starter = "idle" /\ requests < MaxRequests
    /\ starter' = "starting" /\ requests' = requests + 1
    /\ sessions' = [sessions EXCEPT ![t] = clock + TTL]
    /\ UNCHANGED <<process, lifecycle, exits, network, cleaned, passwordSet, issued, clock,
                   webview, failures, launches>>

\* The start succeeds, or fails and takes back what it did.
StartEnds ==
    /\ Running /\ starter = "starting" /\ starter' = "idle"
    /\ network' \in {network, "taken"}
    /\ UNCHANGED <<process, lifecycle, exits, cleaned, session, webview, bounds>>

----------------------------------------------------------------------------
\* initialize_password refuses a second password.
InitializePassword ==
    /\ Running /\ passwordSet = FALSE /\ passwordSet' = TRUE
    /\ UNCHANGED <<process, lifecycle, exits, runtime, sessions, issued, clock, webview,
                   bounds>>

\* unlock with the right password.
Unlock(t) ==
    /\ Running /\ passwordSet /\ t \notin issued
    /\ issued' = issued \cup {t}
    /\ sessions' = [u \in DOMAIN sessions \cup {t} |->
                       IF u = t THEN clock + TTL ELSE sessions[u]]
    /\ UNCHANGED <<process, lifecycle, exits, runtime, passwordSet, clock, webview, bounds>>

\* lock, for a token of the interface: one that was never drawn is no session.
Lock(t) ==
    /\ Running /\ sessions' = Drop(sessions, {t})
    /\ UNCHANGED <<process, lifecycle, exits, runtime, passwordSet, issued, clock, webview,
                   bounds>>

\* require_session: what has expired is forgotten before the token is looked up.
Expired == {t \in DOMAIN sessions : sessions[t] <= clock}

\* The token is looked up, and extended, first: for comparison.
RequireSessionUnpruned(t) ==
    /\ Running /\ t \in issued
    /\ sessions' = IF t \in DOMAIN sessions THEN [sessions EXCEPT ![t] = clock + TTL] ELSE sessions
    /\ UNCHANGED <<process, lifecycle, exits, runtime, passwordSet, issued, clock, webview,
                   bounds>>

RequireSession(t) ==
    /\ Running /\ t \in issued
    /\ sessions' = LET kept == Drop(sessions, Expired)
                   IN  IF t \in DOMAIN kept THEN [kept EXCEPT ![t] = clock + TTL] ELSE kept
    /\ UNCHANGED <<process, lifecycle, exits, runtime, passwordSet, issued, clock, webview,
                   bounds>>

Tick ==
    /\ clock < MaxClock /\ clock' = clock + 1
    /\ UNCHANGED <<process, lifecycle, exits, runtime, passwordSet, sessions, issued, webview,
                   bounds>>

----------------------------------------------------------------------------
\* request_quit_confirmation: the flag, the window, and an event that is lost
\* when the web view has not subscribed to it.
RequestQuitConfirmation ==
    /\ quitRequested' = TRUE
    /\ event' = listening

\* The menu item.
QuitMenu ==
    /\ Running /\ requests < MaxRequests /\ requests' = requests + 1
    /\ RequestQuitConfirmation
    /\ UNCHANGED <<process, confirmedExit, networkCleanupStarted, exits, runtime, session,
                   listening, asking, dialog, failures, launches>>

\* Cmd+Q or the Dock asks the application to exit.
AskToExit ==
    /\ Running /\ requests < MaxRequests /\ requests' = requests + 1
    /\ exits' = exits + 1
    /\ UNCHANGED <<process, lifecycle, runtime, session, webview, failures, launches>>

(***************************************************************************)
(* stop_network_runtime_once: a second caller returns at once, a failure   *)
(* lets the next one try again.                                            *)
(***************************************************************************)
StopSkipped == networkCleanupStarted /\ UNCHANGED <<networkCleanupStarted, network, cleaned, failures>>

StopSucceeds ==
    /\ ~networkCleanupStarted /\ networkCleanupStarted' = TRUE
    /\ network' = "free" /\ cleaned' = TRUE
    /\ UNCHANGED failures

\* The flag stays up: for comparison.
StopFailsForGood ==
    /\ ~networkCleanupStarted /\ failures < MaxFailures
    /\ failures' = failures + 1 /\ networkCleanupStarted' = TRUE
    /\ UNCHANGED <<network, cleaned>>

StopFails ==
    /\ ~networkCleanupStarted /\ failures < MaxFailures
    /\ failures' = failures + 1
    /\ UNCHANGED <<networkCleanupStarted, network, cleaned>>

\* confirmed_quit with the right password; app.exit queues an exit request.
ConfirmedQuit ==
    /\ Running /\ passwordSet /\ dialog = "quit"
    /\ StopSkipped \/ StopSucceeds
    /\ quitRequested' = FALSE /\ confirmedExit' = TRUE
    /\ exits' = exits + 1 /\ dialog' = "none"
    /\ UNCHANGED <<process, starter, session, listening, event, asking, requests, launches>>

\* Protection could not be stopped: the dialog shows why and stays.
ConfirmedQuitFails ==
    /\ Running /\ passwordSet /\ dialog = "quit"
    /\ StopFails
    /\ UNCHANGED <<process, confirmedExit, quitRequested, exits, starter, session, webview,
                   requests, launches>>

\* RunEvent::ExitRequested, not confirmed: the exit is prevented.
ExitPrevented ==
    /\ Running /\ exits > 0 /\ ~confirmedExit
    /\ exits' = exits - 1
    /\ RequestQuitConfirmation
    /\ UNCHANGED <<process, confirmedExit, networkCleanupStarted, runtime, session, listening,
                   asking, dialog, bounds>>

\* RunEvent::ExitRequested, confirmed: a failure to stop is only printed.
ExitProceeds ==
    /\ Running /\ exits > 0 /\ confirmedExit
    /\ StopSkipped \/ StopSucceeds \/ StopFails
    /\ confirmedExit' = FALSE /\ exits' = exits - 1
    /\ process' = "exited"
    /\ UNCHANGED <<quitRequested, starter, session, webview, requests, launches>>

\* take_pending_quit_request, called by the timer ("poll") or by the handler of
\* the event ("event"), which shows the dialog whatever the answer is.
Listen ==
    /\ Running /\ ~listening /\ listening' = TRUE
    /\ UNCHANGED <<process, lifecycle, exits, runtime, session, event, asking, dialog, bounds>>

Calls == [caller : {"poll", "event"}, pending : BOOLEAN]

TakePendingQuitRequest(caller) ==
    /\ asking' = asking \cup {[caller |-> caller, pending |-> quitRequested]}
    /\ quitRequested' = FALSE
    /\ UNCHANGED <<process, confirmedExit, networkCleanupStarted, exits, runtime, session,
                   listening, dialog, bounds>>

EventArrives ==
    /\ Running /\ event /\ event' = FALSE /\ TakePendingQuitRequest("event")

\* The timer is set once the subscription is made: for comparison.
PollWhenListening ==
    /\ Running /\ listening /\ ~ \E call \in asking : call.caller = "poll"
    /\ TakePendingQuitRequest("poll") /\ UNCHANGED event

\* No call starts before the answer to the last one ("checking").
Poll ==
    /\ Running /\ ~ \E call \in asking : call.caller = "poll"
    /\ TakePendingQuitRequest("poll") /\ UNCHANGED event

Answer(call) ==
    /\ Running /\ call \in asking
    /\ asking' = asking \ {call}
    /\ dialog' = IF call.pending \/ call.caller = "event" THEN "quit" ELSE dialog
    /\ UNCHANGED <<process, lifecycle, exits, runtime, session, listening, event, bounds>>

\* The parent cancels.
Dismiss ==
    /\ Running /\ dialog = "quit" /\ dialog' = "none"
    /\ UNCHANGED <<process, lifecycle, exits, runtime, session, listening, event, asking, bounds>>

----------------------------------------------------------------------------
\* The application is started again: AppLifecycle::default, and no session, since
\* they were only in memory.  A kernel that an exit left behind is the helper's.
Launch ==
    /\ process = "exited" /\ launches < MaxLaunches
    /\ process' = "setup"
    /\ confirmedExit' = FALSE /\ quitRequested' = FALSE /\ networkCleanupStarted' = FALSE
    /\ exits' = 0 /\ starter' = "idle" /\ sessions' = NoSession
    /\ listening' = FALSE /\ event' = FALSE /\ asking' = {} /\ dialog' = "none"
    /\ cleaned' = FALSE
    /\ launches' = launches + 1
    /\ UNCHANGED <<network, passwordSet, issued, clock, requests, failures>>

Protection == Setup \/ (\E t \in Tokens : StartProtection(t)) \/ StartEnds
Management ==
    \/ InitializePassword \/ Tick
    \/ \E t \in Tokens : Unlock(t) \/ Lock(t) \/ RequireSession(t)
Quitting == QuitMenu \/ AskToExit \/ ConfirmedQuit \/ ConfirmedQuitFails \/ ExitPrevented \/ ExitProceeds
WebView == Listen \/ EventArrives \/ Poll \/ (\E call \in Calls : Answer(call)) \/ Dismiss

Next == Protection \/ Management \/ Quitting \/ WebView \/ Launch
Spec == Init /\ [][Next]_vars

(***************************************************************************)
(* The window system delivers exit requests, the timer of the web view     *)
(* calls every 500 ms and its calls are answered.                          *)
(***************************************************************************)
Fairness ==
    /\ WF_vars(Setup) /\ WF_vars(ExitPrevented) /\ WF_vars(ExitProceeds)
    /\ WF_vars(Poll)
    /\ \A call \in Calls : WF_vars(Answer(call))

FairSpec == Spec /\ Fairness

----------------------------------------------------------------------------
\* Every variable keeps its type.
TypeOK ==
    /\ process \in {"setup", "running", "exited"}
    /\ confirmedExit \in BOOLEAN /\ quitRequested \in BOOLEAN
    /\ networkCleanupStarted \in BOOLEAN /\ cleaned \in BOOLEAN
    /\ exits \in Nat
    /\ network \in {"free", "taken"} /\ starter \in {"idle", "starting"}
    /\ passwordSet \in BOOLEAN /\ issued \subseteq Tokens
    /\ DOMAIN sessions \subseteq issued
    /\ \A t \in DOMAIN sessions : sessions[t] \in 0..(clock + TTL)
    /\ clock \in 0..MaxClock /\ listening \in BOOLEAN /\ event \in BOOLEAN
    /\ asking \subseteq Calls
    /\ dialog \in {"none", "quit"}
    /\ requests \in 0..MaxRequests /\ failures \in 0..MaxFailures /\ launches \in 0..MaxLaunches

(***************************************************************************)
(* The application exits only after it has stopped protection in this      *)
(* process, however often stopping failed before and whichever of its two  *)
(* callers came first.                                                     *)
(***************************************************************************)
ExitIsClean == process = "exited" => cleaned

(***************************************************************************)
(* A session that was locked, has expired or belonged to an earlier        *)
(* process is never accepted again, although using a session extends it.   *)
(***************************************************************************)
DeadSessionsStayDead == [][\A t \in issued : ~Live(t) => ~Live(t)']_vars

(***************************************************************************)
(* A request to quit reaches the parent: the dialog is shown, even when    *)
(* the request came before the web view listened for the event; or the     *)
(* application has been quit meanwhile.                                    *)
(***************************************************************************)
QuitIsAnswered == quitRequested ~> (dialog = "quit" \/ ~Running)

(***************************************************************************)
(* Quitting leaves no network state behind (docs/product-spec.md:165).     *)
(***************************************************************************)
QuitReleasesNetwork == process = "exited" => network = "free"
============================================================================
