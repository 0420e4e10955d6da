-------------------------- MODULE SubscriptionRefresh --------------------------
(***************************************************************************)
(* Rule and proxy subscriptions (subscription_download.rs, and the         *)
(* commands of storage.rs that change them): a subscription is fetched     *)
(* from its source if it has changed, parsed, stored, and stamped with     *)
(* what the next request compares: ETag, Last-Modified and a content hash. *)
(*                                                                         *)
(* A refresh lets go of the database between reading the row, fetching,    *)
(* storing the rules and stamping the row; other refreshes, edits and      *)
(* deletions come in between.                                              *)
(***************************************************************************)
EXTENDS Naturals

CONSTANTS
  Subscriptions,
  Builtin,      \* those the user can neither edit nor delete
  Sources,      \* addresses a subscription may have
  Files,        \* sources that are local files
  Tagging,      \* sources whose server sends an ETag
  Unreachable,  \* sources that never answer
  Categories,
  Refreshers,   \* tasks of the async runtime that run refresh commands
  MaxPublish,   \* bound: documents published
  MaxEdits,     \* bound: edits, deletions and switches of subscriptions
  MaxRequests,  \* bound: refreshes asked for by the user
  MaxCrashes    \* bound: crashes of the application

ASSUME SourcesAssumption ==
  /\ Files \subseteq Sources /\ Tagging \subseteq Sources \ Files
  /\ Unreachable \subseteq Sources
ASSUME SubscriptionsAssumption == Builtin \subseteq Subscriptions
ASSUME BoundsAssumption ==
  /\ MaxPublish \in Nat /\ MaxEdits \in Nat
  /\ MaxRequests \in Nat /\ MaxCrashes \in Nat

VARIABLES
  row,      \* subscriptions: the row of a subscription, or Gone
  rules,    \* imported_rules and the like: the document and category, or NoRules
  serves,   \* the version of the document a source serves
  clock,    \* versions published so far: they also are dates
  good,     \* versions that parse to at least one rule
  job,      \* what every refresher is doing
  told,     \* observer: a refresh has reported success, and it saw the address,
            \* the category and the document as they still are
  edits, requests, crashes

vars == <<row, rules, serves, clock, good, job, told, edits, requests, crashes>>

Unknown == 0    \* no ETag, no Last-Modified, no hash
Gone == [url |-> "gone"]
NoRules == [version |-> Unknown, category |-> "none"]

\* A row, without what only the user interface shows.  timed: it has an update
\* interval; due: never updated, or that interval has passed since.
Rows == [url : Sources, category : Categories, enabled : BOOLEAN, timed : BOOLEAN,
         due : BOOLEAN, hash : Nat, etag : Nat, modified : Nat]

\* A refresher: its place, the command, the subscriptions still to do, the one at
\* hand with the row as it was read, and the answer of the source.
Idle == [at |-> "idle"]
Answers == [changed : BOOLEAN, version : Nat, etag : Nat, modified : Nat]
Jobs ==
  {Idle}
  \cup [at : {"next"}, op : {"one", "due", "builtin"}, todo : SUBSET Subscriptions]
  \cup [at : {"fetch"}, op : {"one", "due", "builtin"}, todo : SUBSET Subscriptions,
        sub : Subscriptions, read : Rows]
  \cup [at : {"settle", "stamp"}, op : {"one", "due", "builtin"},
        todo : SUBSET Subscriptions, sub : Subscriptions, read : Rows,
        answer : Answers]

TypeOK ==
  /\ row \in [Subscriptions -> Rows \cup {Gone}]
  /\ rules \in [Subscriptions -> [version : Nat, category : Categories] \cup {NoRules}]
  /\ serves \in [Sources -> Nat]
  /\ clock \in Nat /\ good \subseteq Nat
  /\ job \in [Refreshers -> Jobs]
  /\ told \in [Subscriptions -> BOOLEAN]
  /\ edits \in Nat /\ requests \in Nat /\ crashes \in Nat

\* create_subscription, or the default sources at the first start: rows without
\* rules and validators.
Init ==
  /\ row \in [Subscriptions -> [url : Sources, category : Categories,
                enabled : {TRUE}, timed : BOOLEAN, due : {TRUE},
                hash : {Unknown}, etag : {Unknown}, modified : {Unknown}]]
  /\ rules = [s \in Subscriptions |-> NoRules]
  /\ serves = [u \in Sources |-> 1] /\ clock = 1 /\ good = {1}
  /\ job = [r \in Refreshers |-> Idle]
  /\ told = [s \in Subscriptions |-> FALSE]
  /\ edits = 0 /\ requests = 0 /\ crashes = 0

-----------------------------------------------------------------------------
(* Commands begin.  The user interface lets one command work on a          *)
(* subscription at a time, and one check of the built-in ones.  The timer  *)
(* starts only when no such command is under way, but they start under it, *)
(* and when they end the timer starts anew.                                *)

Busy(op) == \E r \in Refreshers : job[r].at # "idle" /\ job[r].op = op
Exists(s) == row[s] # Gone

WorksOn(r, s) ==
  /\ job[r].at # "idle" /\ job[r].op = "one"
  /\ s \in job[r].todo \/ (job[r].at # "next" /\ job[r].sub = s)

Begin(r, op, todo) ==
  /\ job[r].at = "idle" /\ todo # {}
  /\ job' = [job EXCEPT ![r] = [at |-> "next", op |-> op, todo |-> todo]]
  /\ UNCHANGED <<row, rules, serves, clock, good, told, edits, crashes>>

\* refresh_subscription
RefreshOne(r, s) ==
  /\ \A q \in Refreshers : ~WorksOn(q, s)
  /\ requests < MaxRequests /\ requests' = requests + 1
  /\ Begin(r, "one", {s})

\* refresh_builtin_rule_sources: whether due or not, enabled or not
RefreshBuiltin(r) ==
  /\ ~Busy("builtin")
  /\ requests < MaxRequests /\ requests' = requests + 1
  /\ Begin(r, "builtin", Builtin)

\* refresh_due_subscriptions: a subscription without an interval never is.
Due(s) == Exists(s) /\ row[s].enabled /\ row[s].timed /\ row[s].due

RefreshDue(r) ==
  /\ ~Busy("one") /\ ~Busy("builtin")
  /\ Begin(r, "due", {s \in Subscriptions : Due(s)})
  /\ UNCHANGED requests

-----------------------------------------------------------------------------
(* refresh_subscription_inner, step by step.                               *)

Rest(r) == [at |-> "next", op |-> job[r].op, todo |-> job[r].todo]
GoOn(r) == job' = [job EXCEPT ![r] = Rest(r)]

\* An error ends one subscription, not the list.
ReadRow(r) ==
  /\ job[r].at = "next"
  /\ \/ job[r].todo = {} /\ job' = [job EXCEPT ![r] = Idle]
     \/ \E s \in job[r].todo :
          LET rest == [Rest(r) EXCEPT !.todo = @ \ {s}]
          IN job' = [job EXCEPT ![r] =
               IF Exists(s)
               THEN [at |-> "fetch", op |-> rest.op, todo |-> rest.todo,
                     sub |-> s, read |-> row[s]]
               ELSE rest]
  /\ UNCHANGED <<row, rules, serves, clock, good, told, edits, requests, crashes>>

\* What a server does with If-None-Match and, without it, If-Modified-Since.
NotModified(u, etag, modified) ==
  IF etag # Unknown THEN u \in Tagging /\ etag = serves[u]
                    ELSE modified # Unknown /\ serves[u] <= modified

\* download_subscription_bytes, or the local file: it has no validators.
Fetch(r) ==
  LET read == job[r].read
      u    == read.url
  IN /\ job[r].at = "fetch" /\ u \notin Unreachable
     /\ job' = [job EXCEPT ![r] =
          [at |-> "settle", op |-> job[r].op, todo |-> job[r].todo,
           sub |-> job[r].sub, read |-> read,
           answer |->
             [changed  |-> u \in Files \/ ~NotModified(u, read.etag, read.modified),
              version  |-> serves[u],
              etag     |-> IF u \in Tagging THEN serves[u] ELSE Unknown,
              modified |-> IF u \in Files THEN Unknown ELSE serves[u]]]]
     /\ UNCHANGED <<row, rules, serves, clock, good, told, edits, requests, crashes>>

\* Mutant of FetchFails: the error ends the whole list.
FetchFailsForAll(r) ==
  /\ job[r].at = "fetch"
  /\ job' = [job EXCEPT ![r] = Idle]
  /\ UNCHANGED <<row, rules, serves, clock, good, told, edits, requests, crashes>>

FetchFails(r) ==
  /\ job[r].at = "fetch"
  /\ GoOn(r)
  /\ UNCHANGED <<row, rules, serves, clock, good, told, edits, requests, crashes>>

\* The refresh of s reports success.
Tell(r) ==
  LET s == job[r].sub
      read == job[r].read
  IN told' = [told EXCEPT ![s] =
       /\ Exists(s) /\ row[s].url = read.url /\ row[s].category = read.category
       /\ serves[read.url] = job[r].answer.version]

\* UPDATE ... WHERE id: nothing happens if the row is gone.
Update(s, new) == row' = IF Exists(s) THEN [row EXCEPT ![s] = new] ELSE row

\* mark_subscription_unchanged, after "not modified": the validators that were
\* sent are written back, if there were any.
MarkUnmodified(r) ==
  LET s == job[r].sub
      old == job[r].read
  IN /\ job[r].at = "settle" /\ ~job[r].answer.changed
     /\ Update(s, [row[s] EXCEPT !.due = FALSE,
                     !.etag = IF old.etag # Unknown THEN old.etag ELSE @,
                     !.modified = IF old.modified # Unknown THEN old.modified ELSE @])
     /\ Tell(r) /\ GoOn(r)
     /\ UNCHANGED <<rules, serves, clock, good, edits, requests, crashes>>

\* mark_subscription_unchanged, after a document with the hash of the row.
MarkSameContent(r) ==
  LET s == job[r].sub
      answer == job[r].answer
  IN /\ job[r].at = "settle" /\ answer.changed
     /\ answer.version = job[r].read.hash
     /\ Update(s, [row[s] EXCEPT !.due = FALSE, !.etag = answer.etag,
                                 !.modified = answer.modified])
     /\ Tell(r) /\ GoOn(r)
     /\ UNCHANGED <<rules, serves, clock, good, edits, requests, crashes>>

New(r) ==
  /\ job[r].at = "settle" /\ job[r].answer.changed
  /\ job[r].answer.version # job[r].read.hash

\* Mutant of Reject: the error is swallowed.
RejectQuietly(r) ==
  /\ New(r)
  /\ job[r].answer.version \notin good \/ ~Exists(job[r].sub)
  /\ Tell(r) /\ GoOn(r)
  /\ UNCHANGED <<row, rules, serves, clock, good, edits, requests, crashes>>

\* Too large, not UTF-8, no rule in it, or, by the foreign key, no row any more.
Reject(r) ==
  /\ New(r)
  /\ job[r].answer.version \notin good \/ ~Exists(job[r].sub)
  /\ GoOn(r)
  /\ UNCHANGED <<row, rules, serves, clock, good, told, edits, requests, crashes>>

\* Mutant of Store: no foreign key.
StoreOrphan(r) ==
  /\ New(r) /\ job[r].answer.version \in good
  /\ rules' = [rules EXCEPT ![job[r].sub] =
       [version |-> job[r].answer.version, category |-> job[r].read.category]]
  /\ job' = [job EXCEPT ![r].at = "stamp"]
  /\ UNCHANGED <<row, serves, clock, good, told, edits, requests, crashes>>

\* Mutant of Store: the row is stamped first, the rules are left for later.
StoreLater(r) ==
  LET s == job[r].sub
      answer == job[r].answer
  IN /\ New(r) /\ answer.version \in good /\ Exists(s)
     /\ row' = [row EXCEPT ![s].hash = answer.version, ![s].etag = answer.etag,
                           ![s].modified = answer.modified]
     /\ job' = [job EXCEPT ![r].at = "stamp"]
     /\ UNCHANGED <<rules, serves, clock, good, told, edits, requests, crashes>>

\* refresh_rules, refresh_safe_search_rules or store_proxy_payload: what was
\* stored before is replaced in one transaction.
Store(r) ==
  /\ New(r)
  /\ job[r].answer.version \in good /\ Exists(job[r].sub)
  /\ rules' = [rules EXCEPT ![job[r].sub] =
       [version |-> job[r].answer.version, category |-> job[r].read.category]]
  /\ job' = [job EXCEPT ![r].at = "stamp"]
  /\ UNCHANGED <<row, serves, clock, good, told, edits, requests, crashes>>

\* The row learns of the new document.
Stamp(r) ==
  LET s == job[r].sub
      answer == job[r].answer
  IN /\ job[r].at = "stamp"
     /\ Update(s, [row[s] EXCEPT !.due = FALSE, !.hash = answer.version,
                     !.etag = answer.etag, !.modified = answer.modified])
     /\ Tell(r) /\ GoOn(r)
     /\ UNCHANGED <<rules, serves, clock, good, edits, requests, crashes>>

-----------------------------------------------------------------------------
(* Commands of storage.rs, and the world around.                           *)

\* The user interface allows them while no command of the user works on s.
Change(s) ==
  /\ Exists(s) /\ \A r \in Refreshers : ~WorksOn(r, s)
  /\ edits < MaxEdits /\ edits' = edits + 1
  /\ told' = [told EXCEPT ![s] = FALSE]
  /\ UNCHANGED <<serves, clock, good, job, requests, crashes>>

\* update_subscription: hash and validators stay.  Another interval may pass later
\* than the old one, if the subscription has ever been updated.
Edit(s, u, c, timed) ==
  /\ Change(s) /\ s \notin Builtin
  /\ \E due \in {row[s].due, row[s].hash = Unknown} :
       row' = [row EXCEPT ![s].url = u, ![s].category = c, ![s].timed = timed,
                          ![s].due = due]
  /\ UNCHANGED rules

\* set_subscription_enabled
Switch(s) ==
  /\ Change(s)
  /\ row' = [row EXCEPT ![s].enabled = ~@]
  /\ UNCHANGED rules

\* delete_subscription: the rules go with the row.
Delete(s) ==
  /\ Change(s) /\ s \notin Builtin
  /\ row' = [row EXCEPT ![s] = Gone]
  /\ rules' = [rules EXCEPT ![s] = NoRules]

Publish(u) ==
  /\ clock <= MaxPublish
  /\ clock' = clock + 1
  /\ serves' = [serves EXCEPT ![u] = clock']
  /\ good' \in {good, good \cup {clock'}}
  /\ told' = [s \in Subscriptions |-> told[s] /\ row[s].url # u]
  /\ UNCHANGED <<row, rules, job, edits, requests, crashes>>

\* The update interval of s passes.
Elapse(s) ==
  /\ Exists(s) /\ row[s].timed /\ ~row[s].due
  /\ row' = [row EXCEPT ![s].due = TRUE]
  /\ UNCHANGED <<rules, serves, clock, good, job, told, edits, requests, crashes>>

Crash ==
  /\ crashes < MaxCrashes /\ crashes' = crashes + 1
  /\ job' = [r \in Refreshers |-> Idle]
  /\ UNCHANGED <<row, rules, serves, clock, good, told, edits, requests>>

-----------------------------------------------------------------------------
Step(r) ==
  \/ ReadRow(r) \/ Fetch(r) \/ FetchFails(r)
  \/ MarkUnmodified(r) \/ MarkSameContent(r) \/ Reject(r) \/ Store(r) \/ Stamp(r)

UserChanges(s) ==
  \/ \E u \in Sources, c \in Categories, timed \in BOOLEAN : Edit(s, u, c, timed)
  \/ Switch(s) \/ Delete(s)

Next ==
  \/ \E r \in Refreshers :
       \/ Step(r) \/ RefreshDue(r) \/ RefreshBuiltin(r)
       \/ \E s \in Subscriptions : RefreshOne(r, s)
  \/ \E s \in Subscriptions : UserChanges(s) \/ Elapse(s)
  \/ \E u \in Sources : Publish(u)
  \/ Crash

Spec == Init /\ [][Next]_vars

\* While the console is unlocked the timer keeps asking, tasks keep running and
\* time passes; and a source that answers at all answers again and again.
Fairness ==
  /\ \A r \in Refreshers : WF_vars(Step(r))
  /\ \A s \in Subscriptions :
       /\ WF_vars(Elapse(s))
       /\ SF_vars(\E r \in Refreshers : Fetch(r) /\ job[r].sub = s)
  /\ WF_vars(\E r \in Refreshers : RefreshDue(r))

FairSpec == Spec /\ Fairness

-----------------------------------------------------------------------------
(* Properties.                                                             *)

\* A deleted subscription leaves no rules behind, and no refresh that is still
\* under way brings them back.
DeletedStaysDeleted == \A s \in Subscriptions : ~Exists(s) => rules[s] = NoRules

\* Rules and validators are replaced together (docs/architecture.md: atomic
\* replacement): while nobody is about to stamp it, a row does not name a newer
\* document of its source than the rules are from.  It would keep the source
\* from sending that document again.
RulesNotBehindRow ==
  (\A r \in Refreshers : job[r].at # "stamp") =>
    \A s \in Subscriptions :
      Exists(s) => rules[s].version >= row[s].hash /\ rules[s].version >= row[s].etag

\* "The rules of the subscription are up to date" (App.tsx): when a refresh has
\* succeeded, and neither source nor subscription has changed since it began, the
\* rules are those of the source, in the category the user chose.
SuccessMeansCurrent ==
  \A s \in Subscriptions :
    told[s] => rules[s] = [version  |-> serves[row[s].url],
                           category |-> row[s].category]

\* An enabled subscription with an update interval does not stay behind a source
\* that has good rules for it, whatever other subscriptions meet.
Behind(s) ==
  /\ Exists(s) /\ row[s].enabled /\ row[s].timed /\ row[s].url \notin Unreachable
  /\ serves[row[s].url] \in good
  /\ rules[s].version # serves[row[s].url]

CatchesUp == \A s \in Subscriptions : Behind(s) ~> ~Behind(s)

-----------------------------------------------------------------------------
(* When rules and row stay in step.  Nothing in the code sees to either:   *)
(* without the first the race run, without the second the edit run finds   *)
(* them out of step.                                                       *)

Holds(r, s) == job[r].at \in {"fetch", "settle", "stamp"} /\ job[r].sub = s

\* No two refreshes have the same subscription at hand; those of different
\* subscriptions may overlap.
Apart ==
  \A q, r \in Refreshers, s \in Subscriptions : Holds(q, s) /\ Holds(r, s) => q = r

\* Address and category of a subscription are settled before its first refresh.
\* It may be deleted, switched and given another interval at any time.
SettledFirst ==
  \A s \in Subscriptions :
    Exists(s) /\ Exists(s)' =>
      \/ row'[s].url = row[s].url /\ row'[s].category = row[s].category
      \/ rules[s] = NoRules /\ \A r \in Refreshers : ~Holds(r, s)
=============================================================================
