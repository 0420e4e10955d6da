---------------------- MODULE SubscriptionRefreshProofs ----------------------
(***************************************************************************)
(* Theorems about SubscriptionRefresh, for any number of refreshers, any   *)
(* sources and any bounds: its types, and that a deletion is final,        *)
(* whatever overlaps.  In behaviours in which no two refreshes have the    *)
(* same subscription at hand, and address and category are settled before  *)
(* the first one: rules and row stay in step, and a success tells the      *)
(* truth.                                                                  *)
(***************************************************************************)
EXTENDS SubscriptionRefresh, TLAPS

(* Types.                                                                  *)

\* A row is not Gone, and what a refresher has at hand depends on its place.
LEMMA RowsAreThere == Gone \notin Rows
BY DEF Gone, Rows

LEMMA Placed ==
  ASSUME NEW j \in Jobs, j.at # "idle"
  PROVE  /\ j.op \in {"one", "due", "builtin"}
         /\ j.todo \subseteq Subscriptions
         /\ j.at # "next" => j.sub \in Subscriptions /\ j.read \in Rows
         /\ j.at \in {"settle", "stamp"} => j.answer \in Answers
BY DEF Jobs, Idle

\* Jobs the actions give to a refresher.
LEMMA NewJobs ==
  ASSUME NEW op \in {"one", "due", "builtin"}, NEW todo \in SUBSET Subscriptions
  PROVE  /\ Idle \in Jobs
         /\ [at |-> "next", op |-> op, todo |-> todo] \in Jobs
         /\ \A s \in Subscriptions, read \in Rows :
              /\ [at |-> "fetch", op |-> op, todo |-> todo, sub |-> s,
                  read |-> read] \in Jobs
              /\ \A answer \in Answers :
                   [at |-> "settle", op |-> op, todo |-> todo, sub |-> s,
                    read |-> read, answer |-> answer] \in Jobs
BY DEF Jobs

\* Starting a command, going on to the next subscription, and an update of a row
\* keep jobs and rows typed.
LEMMA BeginTyped ==
  ASSUME TypeOK, NEW r \in Refreshers, NEW op \in {"one", "due", "builtin"},
         NEW todo \in SUBSET Subscriptions, Begin(r, op, todo), requests' \in Nat
  PROVE  TypeOK'
<1>1. [at |-> "next", op |-> op, todo |-> todo] \in Jobs
  BY NewJobs
<1> QED
  BY <1>1 DEF Begin, TypeOK

LEMMA GoOnTyped ==
  ASSUME job \in [Refreshers -> Jobs], NEW r \in Refreshers, job[r].at # "idle", GoOn(r)
  PROVE  job' \in [Refreshers -> Jobs]
<1>1. Rest(r) \in Jobs
  BY Placed, NewJobs DEF Rest
<1> QED
  BY <1>1 DEF GoOn

LEMMA UpdateTyped ==
  ASSUME row \in [Subscriptions -> Rows \cup {Gone}], NEW s \in Subscriptions,
         NEW new, Exists(s) => new \in Rows, Update(s, new)
  PROVE  row' \in [Subscriptions -> Rows \cup {Gone}]
BY DEF Update

LEMMA TellTyped ==
  ASSUME told \in [Subscriptions -> BOOLEAN], NEW r, Tell(r)
  PROVE  told' \in [Subscriptions -> BOOLEAN]
<1> DEFINE s == job[r].sub
           now == /\ Exists(s) /\ row[s].url = job[r].read.url
                  /\ row[s].category = job[r].read.category
                  /\ serves[job[r].read.url] = job[r].answer.version
<1>1. now \in BOOLEAN
  OBVIOUS
<1>2. told' = [told EXCEPT ![s] = now]
  BY DEF Tell
<1> HIDE DEF now
<1> QED
  BY <1>1, <1>2

\* A row that exists is typed.
LEMMA Existing ==
  ASSUME TypeOK, NEW s \in Subscriptions, Exists(s) PROVE row[s] \in Rows
BY DEF TypeOK, Exists

\* An edit changes address, category and interval of one row.
LEMMA EditedRow ==
  ASSUME row \in [Subscriptions -> Rows \cup {Gone}], NEW s \in Subscriptions,
         row[s] \in Rows, NEW u \in Sources, NEW c \in Categories,
         NEW timed \in BOOLEAN, Edit(s, u, c, timed)
  PROVE  \E new \in Rows :
           /\ row' = [row EXCEPT ![s] = new]
           /\ new.url = u /\ new.category = c
           /\ new.hash = row[s].hash /\ new.etag = row[s].etag
           /\ new.modified = row[s].modified
<1>1. PICK due \in {row[s].due, row[s].hash = Unknown} :
        row' = [row EXCEPT ![s].url = u, ![s].category = c, ![s].timed = timed,
                           ![s].due = due]
  BY DEF Edit
<1>2. due \in BOOLEAN
  BY DEF Rows
<1> DEFINE new == [row[s] EXCEPT !.url = u, !.category = c, !.timed = timed,
                                 !.due = due]
<1>3. new \in Rows
  BY <1>2 DEF Rows
<1>4. row' = [row EXCEPT ![s] = new]
  BY <1>1
<1>5. /\ new.url = u /\ new.category = c /\ new.hash = row[s].hash
      /\ new.etag = row[s].etag /\ new.modified = row[s].modified
  BY DEF Rows
<1> QED
  BY <1>3, <1>4, <1>5

\* Every step preserves the types.
LEMMA Typing == TypeOK /\ [Next]_vars => TypeOK'
<1> SUFFICES ASSUME TypeOK, [Next]_vars PROVE TypeOK'
  OBVIOUS
<1>0. /\ job \in [Refreshers -> Jobs]
      /\ row \in [Subscriptions -> Rows \cup {Gone}]
      /\ told \in [Subscriptions -> BOOLEAN]
      /\ serves \in [Sources -> Nat]
  BY DEF TypeOK
<1>1. ASSUME NEW r \in Refreshers, ReadRow(r) PROVE TypeOK'
  <2>1. job[r] \in Jobs /\ job[r].at # "idle"
    BY <1>0, <1>1 DEF ReadRow
  <2>2. CASE job' = [job EXCEPT ![r] = Idle]
    BY <1>0, <1>1, <2>2, NewJobs DEF ReadRow, TypeOK
  <2>3. ASSUME NEW s \in job[r].todo,
               job' = [job EXCEPT ![r] =
                 IF Exists(s)
                 THEN [at |-> "fetch", op |-> job[r].op, todo |-> job[r].todo \ {s},
                       sub |-> s, read |-> row[s]]
                 ELSE [at |-> "next", op |-> job[r].op, todo |-> job[r].todo \ {s}]]
        PROVE  TypeOK'
    <3>1. s \in Subscriptions /\ (Exists(s) => row[s] \in Rows)
      BY <2>1, Placed, Existing
    <3>2. job' \in [Refreshers -> Jobs]
      BY <1>0, <2>1, <2>3, <3>1, Placed, NewJobs
    <3> QED
      BY <1>1, <3>2 DEF ReadRow, TypeOK
  <2> QED
    BY <1>1, <2>2, <2>3 DEF ReadRow, Rest
<1>2. ASSUME NEW r \in Refreshers, Fetch(r) PROVE TypeOK'
  <2> DEFINE u == job[r].read.url
             answer == [changed  |-> u \in Files \/ ~NotModified(u, job[r].read.etag, job[r].read.modified),
                        version  |-> serves[u],
                        etag     |-> IF u \in Tagging THEN serves[u] ELSE Unknown,
                        modified |-> IF u \in Files THEN Unknown ELSE serves[u]]
             new == [at |-> "settle", op |-> job[r].op, todo |-> job[r].todo,
                     sub |-> job[r].sub, read |-> job[r].read, answer |-> answer]
  <2>1. job[r] \in Jobs /\ job[r].at = "fetch"
    BY <1>0, <1>2 DEF Fetch
  <2>2. /\ job[r].op \in {"one", "due", "builtin"} /\ job[r].todo \in SUBSET Subscriptions
        /\ job[r].sub \in Subscriptions /\ job[r].read \in Rows
    BY <2>1, Placed
  <2>3. answer \in Answers
    <3>1. u \in Sources /\ serves[u] \in Nat /\ Unknown \in Nat
      BY <1>0, <2>2 DEF Rows, Unknown
    <3>2. (u \in Files \/ ~NotModified(u, job[r].read.etag, job[r].read.modified)) \in BOOLEAN
      OBVIOUS
    <3> QED
      BY <3>1, <3>2 DEF Answers
  <2>4. job' = [job EXCEPT ![r] = new]
    BY <1>2 DEF Fetch
  <2> HIDE DEF answer
  <2>5. new \in Jobs
    BY <2>2, <2>3, NewJobs
  <2>6. job' \in [Refreshers -> Jobs]
    BY <1>0, <2>4, <2>5
  <2> QED
    BY <1>2, <2>6 DEF Fetch, TypeOK
<1>3. ASSUME NEW r \in Refreshers, FetchFails(r) \/ Reject(r) PROVE TypeOK'
  <2>1. job' \in [Refreshers -> Jobs]
    BY <1>0, <1>3, GoOnTyped DEF FetchFails, Reject, New
  <2> QED
    BY <1>3, <2>1 DEF FetchFails, Reject, TypeOK
<1>4. ASSUME NEW r \in Refreshers, MarkUnmodified(r) PROVE TypeOK'
  <2> DEFINE s == job[r].sub
             old == job[r].read
             new == [row[s] EXCEPT !.due = FALSE,
                       !.etag = IF old.etag # Unknown THEN old.etag ELSE @,
                       !.modified = IF old.modified # Unknown THEN old.modified ELSE @]
  <2>1. job[r].at = "settle" /\ s \in Subscriptions /\ old \in Rows
    BY <1>0, <1>4, Placed DEF MarkUnmodified
  <2>2. Exists(s) => new \in Rows
    BY <2>1, Existing DEF Rows
  <2>3. row' \in [Subscriptions -> Rows \cup {Gone}]
    <3>1. Update(s, new)
      BY <1>4 DEF MarkUnmodified
    <3> HIDE DEF new
    <3> QED
      BY <1>0, <2>1, <2>2, <3>1, UpdateTyped
  <2>4. job' \in [Refreshers -> Jobs] /\ told' \in [Subscriptions -> BOOLEAN]
    BY <1>0, <1>4, <2>1, GoOnTyped, TellTyped DEF MarkUnmodified
  <2> QED
    BY <1>4, <2>3, <2>4 DEF MarkUnmodified, TypeOK
<1>5. ASSUME NEW r \in Refreshers, MarkSameContent(r) PROVE TypeOK'
  <2> DEFINE s == job[r].sub
             answer == job[r].answer
             new == [row[s] EXCEPT !.due = FALSE, !.etag = answer.etag,
                                   !.modified = answer.modified]
  <2>1. job[r].at = "settle" /\ s \in Subscriptions /\ answer \in Answers
    BY <1>0, <1>5, Placed DEF MarkSameContent
  <2>2. Exists(s) => new \in Rows
    BY <2>1, Existing DEF Rows, Answers
  <2>3. row' \in [Subscriptions -> Rows \cup {Gone}]
    <3>1. Update(s, new)
      BY <1>5 DEF MarkSameContent
    <3> HIDE DEF new
    <3> QED
      BY <1>0, <2>1, <2>2, <3>1, UpdateTyped
  <2>4. job' \in [Refreshers -> Jobs] /\ told' \in [Subscriptions -> BOOLEAN]
    BY <1>0, <1>5, <2>1, GoOnTyped, TellTyped DEF MarkSameContent
  <2> QED
    BY <1>5, <2>3, <2>4 DEF MarkSameContent, TypeOK
<1>6. ASSUME NEW r \in Refreshers, Store(r) PROVE TypeOK'
  <2>1. /\ job[r] \in Jobs /\ job[r].at = "settle" /\ job[r].sub \in Subscriptions
        /\ job[r].answer \in Answers /\ job[r].read \in Rows
    BY <1>0, <1>6, Placed DEF Store, New
  <2>2. [job[r] EXCEPT !.at = "stamp"] \in Jobs
    BY <2>1 DEF Jobs, Idle
  <2>3. job' = [job EXCEPT ![r] = [job[r] EXCEPT !.at = "stamp"]]
    BY <1>0, <1>6 DEF Store
  <2>4. job' \in [Refreshers -> Jobs]
    BY <1>0, <2>2, <2>3
  <2>5. [version |-> job[r].answer.version, category |-> job[r].read.category]
          \in [version : Nat, category : Categories]
    BY <2>1 DEF Answers, Rows
  <2> QED
    BY <1>6, <2>4, <2>5 DEF Store, TypeOK
<1>7. ASSUME NEW r \in Refreshers, Stamp(r) PROVE TypeOK'
  <2> DEFINE s == job[r].sub
             answer == job[r].answer
             new == [row[s] EXCEPT !.due = FALSE, !.hash = answer.version,
                       !.etag = answer.etag, !.modified = answer.modified]
  <2>1. job[r].at = "stamp" /\ s \in Subscriptions /\ answer \in Answers
    BY <1>0, <1>7, Placed DEF Stamp
  <2>2. Exists(s) => new \in Rows
    BY <2>1, Existing DEF Rows, Answers
  <2>3. row' \in [Subscriptions -> Rows \cup {Gone}]
    <3>1. Update(s, new)
      BY <1>7 DEF Stamp
    <3> HIDE DEF new
    <3> QED
      BY <1>0, <2>1, <2>2, <3>1, UpdateTyped
  <2>4. job' \in [Refreshers -> Jobs] /\ told' \in [Subscriptions -> BOOLEAN]
    BY <1>0, <1>7, <2>1, GoOnTyped, TellTyped DEF Stamp
  <2> QED
    BY <1>7, <2>3, <2>4 DEF Stamp, TypeOK
<1>8. ASSUME NEW r \in Refreshers, RefreshDue(r) PROVE TypeOK'
  BY <1>8, BeginTyped DEF RefreshDue, TypeOK
<1>9. ASSUME NEW r \in Refreshers, RefreshBuiltin(r) PROVE TypeOK'
  <2>1. requests' \in Nat
    BY <1>9 DEF RefreshBuiltin, TypeOK
  <2> QED
    BY <1>9, <2>1, BeginTyped, SubscriptionsAssumption DEF RefreshBuiltin
<1>10. ASSUME NEW r \in Refreshers, NEW s \in Subscriptions, RefreshOne(r, s)
       PROVE  TypeOK'
  <2>1. requests' \in Nat
    BY <1>10 DEF RefreshOne, TypeOK
  <2> QED
    BY <1>10, <2>1, BeginTyped DEF RefreshOne
<1>11. ASSUME NEW s \in Subscriptions, UserChanges(s) PROVE TypeOK'
  <2>1. /\ Exists(s) /\ row[s] \in Rows
        /\ edits' \in Nat /\ told' \in [Subscriptions -> BOOLEAN]
        /\ UNCHANGED <<serves, clock, good, job, requests, crashes>>
    <3>1. Change(s)
      BY <1>11 DEF UserChanges, Edit, Switch, Delete
    <3> QED
      BY <1>0, <3>1, Existing DEF Change, TypeOK
  <2>2. ASSUME NEW u \in Sources, NEW c \in Categories, NEW timed \in BOOLEAN,
               Edit(s, u, c, timed)
        PROVE  TypeOK'
    <3>1. PICK new \in Rows : row' = [row EXCEPT ![s] = new]
      BY <1>0, <2>1, <2>2, EditedRow
    <3> QED
      BY <1>0, <2>1, <2>2, <3>1 DEF Edit, TypeOK
  <2>3. CASE Switch(s)
    <3>1. row' = [row EXCEPT ![s] = [row[s] EXCEPT !.enabled = ~row[s].enabled]]
      BY <1>0, <2>3 DEF Switch
    <3>2. [row[s] EXCEPT !.enabled = ~row[s].enabled] \in Rows
      BY <2>1 DEF Rows
    <3> QED
      BY <1>0, <2>1, <2>3, <3>1, <3>2 DEF Switch, TypeOK
  <2>4. CASE Delete(s)
    BY <1>0, <2>1, <2>4 DEF Delete, TypeOK
  <2> QED
    BY <1>11, <2>2, <2>3, <2>4 DEF UserChanges
<1>12. ASSUME NEW s \in Subscriptions, Elapse(s) PROVE TypeOK'
  <2>1. row' = [row EXCEPT ![s] = [row[s] EXCEPT !.due = TRUE]]
    BY <1>0, <1>12 DEF Elapse
  <2>2. [row[s] EXCEPT !.due = TRUE] \in Rows
    BY <1>12, Existing DEF Elapse, Rows
  <2> QED
    BY <1>0, <1>12, <2>1, <2>2 DEF Elapse, TypeOK
<1>13. ASSUME NEW u \in Sources, Publish(u) PROVE TypeOK'
  <2>1. told' \in [Subscriptions -> BOOLEAN]
    BY <1>0, <1>13 DEF Publish
  <2> QED
    BY <1>13, <2>1 DEF Publish, TypeOK
<1>14. CASE Crash
  BY <1>14 DEF Crash, TypeOK, Jobs
<1>15. CASE UNCHANGED vars
  BY <1>15 DEF vars, TypeOK
<1> QED
  BY <1>1, <1>2, <1>3, <1>4, <1>5, <1>6, <1>7, <1>8, <1>9, <1>10, <1>11, <1>12,
     <1>13, <1>14, <1>15 DEF Next, Step

\* The rows of the initial state.
Fresh == [url : Sources, category : Categories, enabled : {TRUE}, timed : BOOLEAN,
          due : {TRUE}, hash : {Unknown}, etag : {Unknown}, modified : {Unknown}]

LEMMA FreshRow ==
  ASSUME NEW x \in Fresh
  PROVE  /\ x \in Rows
         /\ x.hash = Unknown /\ x.etag = Unknown /\ x.modified = Unknown
<1>1. /\ {Unknown} \subseteq Nat
      /\ \A b \in {TRUE} : b \in BOOLEAN
  BY DEF Unknown
<1>2. x = [url |-> x.url, category |-> x.category, enabled |-> x.enabled,
           timed |-> x.timed, due |-> x.due, hash |-> x.hash, etag |-> x.etag,
           modified |-> x.modified]
  BY DEF Fresh
<1>3. /\ x.url \in Sources /\ x.category \in Categories
      /\ x.enabled \in BOOLEAN /\ x.timed \in BOOLEAN /\ x.due \in BOOLEAN
      /\ x.hash \in {Unknown} /\ x.etag \in {Unknown} /\ x.modified \in {Unknown}
  BY <1>1, Zenon DEF Fresh
<1>4. x.hash \in Nat /\ x.etag \in Nat /\ x.modified \in Nat
  BY <1>1, <1>3
<1>5. x \in Rows
  BY <1>2, <1>3, <1>4, Zenon DEF Rows
<1> QED
  BY <1>3, <1>5

\* The initial state is typed.
LEMMA InitTyped == Init => TypeOK
<1> SUFFICES ASSUME Init PROVE TypeOK
  OBVIOUS
<1>1. row \in [Subscriptions -> Rows \cup {Gone}]
  <2>2. row \in [Subscriptions -> Fresh]
    BY DEF Init, Fresh
  <2> QED
    BY <2>2, FreshRow
<1>2. job \in [Refreshers -> Jobs]
  BY DEF Init, Jobs
<1> QED
  BY <1>1, <1>2 DEF Init, TypeOK

\* The variables of the refresh, of the subscriptions and of the sources are of
\* their types.
THEOREM TypeCorrect == Spec => []TypeOK
BY InitTyped, Typing, PTL DEF Spec

(* Whatever overlaps.                                                      *)

\* An update brings no row back and removes none.
LEMMA UpdateKeepsRows ==
  ASSUME row \in [Subscriptions -> Rows \cup {Gone}], NEW s \in Subscriptions,
         NEW new, Exists(s) => new \in Rows, Update(s, new)
  PROVE  \A x \in Subscriptions : Exists(x)' <=> Exists(x)
BY RowsAreThere DEF Update, Exists

\* Stamping a row, or marking it unchanged, neither brings it back nor removes it.
LEMMA MarkingKeepsRows ==
  ASSUME TypeOK, NEW r \in Refreshers,
         MarkUnmodified(r) \/ MarkSameContent(r) \/ Stamp(r)
  PROVE  \A x \in Subscriptions : Exists(x)' <=> Exists(x)
<1> DEFINE s == job[r].sub
           old == job[r].read
           answer == job[r].answer
<1>1. /\ row \in [Subscriptions -> Rows \cup {Gone}]
      /\ s \in Subscriptions /\ old \in Rows /\ answer \in Answers
      /\ Exists(s) => row[s] \in Rows
  BY Placed, Existing DEF TypeOK, MarkUnmodified, MarkSameContent, Stamp
<1>2. CASE MarkUnmodified(r)
  <2> DEFINE new == [row[s] EXCEPT !.due = FALSE,
                       !.etag = IF old.etag # Unknown THEN old.etag ELSE @,
                       !.modified = IF old.modified # Unknown THEN old.modified ELSE @]
  <2>1. (Exists(s) => new \in Rows) /\ Update(s, new)
    BY <1>1, <1>2 DEF MarkUnmodified, Rows
  <2> HIDE DEF new
  <2> QED
    BY <1>1, <2>1, UpdateKeepsRows
<1>3. CASE MarkSameContent(r)
  <2> DEFINE new == [row[s] EXCEPT !.due = FALSE, !.etag = answer.etag,
                                   !.modified = answer.modified]
  <2>1. (Exists(s) => new \in Rows) /\ Update(s, new)
    BY <1>1, <1>3 DEF MarkSameContent, Rows, Answers
  <2> HIDE DEF new
  <2> QED
    BY <1>1, <2>1, UpdateKeepsRows
<1>4. CASE Stamp(r)
  <2> DEFINE new == [row[s] EXCEPT !.due = FALSE, !.hash = answer.version,
                       !.etag = answer.etag, !.modified = answer.modified]
  <2>1. (Exists(s) => new \in Rows) /\ Update(s, new)
    BY <1>1, <1>4 DEF Stamp, Rows, Answers
  <2> HIDE DEF new
  <2> QED
    BY <1>1, <2>1, UpdateKeepsRows
<1> QED
  BY <1>2, <1>3, <1>4

\* What the user does to a subscription, and the passing of its interval, leave the
\* other rows alone.  Only a deletion removes the row and changes the rules.
LEMMA ChangesOfRows ==
  ASSUME TypeOK, NEW s \in Subscriptions, UserChanges(s) \/ Elapse(s)
  PROVE  \/ rules' = rules /\ \A x \in Subscriptions : Exists(x)' <=> Exists(x)
         \/ /\ rules' = [rules EXCEPT ![s] = NoRules] /\ row'[s] = Gone
            /\ \A x \in Subscriptions \ {s} : Exists(x)' <=> Exists(x)
<1>1. row \in [Subscriptions -> Rows \cup {Gone}] /\ row[s] \in Rows
  BY Existing DEF TypeOK, UserChanges, Edit, Switch, Delete, Change, Elapse
<1>2. ASSUME NEW new \in Rows, row' = [row EXCEPT ![s] = new]
      PROVE  \A x \in Subscriptions : Exists(x)' <=> Exists(x)
  BY <1>1, <1>2, RowsAreThere DEF Exists
<1>3. ASSUME NEW u \in Sources, NEW c \in Categories, NEW timed \in BOOLEAN,
             Edit(s, u, c, timed)
      PROVE  rules' = rules /\ \A x \in Subscriptions : Exists(x)' <=> Exists(x)
  <2>1. \E new \in Rows : row' = [row EXCEPT ![s] = new]
    BY <1>1, <1>3, EditedRow
  <2> QED
    BY <1>2, <1>3, <2>1 DEF Edit
<1>4. CASE Switch(s)
  <2>1. /\ row' = [row EXCEPT ![s] = [row[s] EXCEPT !.enabled = ~row[s].enabled]]
        /\ rules' = rules
    BY <1>1, <1>4 DEF Switch
  <2>2. [row[s] EXCEPT !.enabled = ~row[s].enabled] \in Rows
    BY <1>1 DEF Rows
  <2> QED
    BY <1>2, <2>1, <2>2
<1>5. CASE Delete(s)
  BY <1>1, <1>5 DEF Delete, Exists
<1>6. CASE Elapse(s)
  <2>1. row' = [row EXCEPT ![s] = [row[s] EXCEPT !.due = TRUE]] /\ rules' = rules
    BY <1>1, <1>6 DEF Elapse
  <2>2. [row[s] EXCEPT !.due = TRUE] \in Rows
    BY <1>1 DEF Rows
  <2> QED
    BY <1>2, <2>1, <2>2
<1> QED
  BY <1>3, <1>4, <1>5, <1>6 DEF UserChanges

\* The other steps, Store apart, touch neither rows nor rules.
LEMMA RulesAlone ==
  ASSUME NEW r \in Refreshers,
         \/ ReadRow(r) \/ Fetch(r) \/ FetchFails(r) \/ Reject(r)
         \/ RefreshDue(r) \/ RefreshBuiltin(r)
         \/ \E s \in Subscriptions : RefreshOne(r, s)
  PROVE  UNCHANGED <<row, rules, serves, clock, good, told>>
BY DEF ReadRow, Fetch, FetchFails, Reject, RefreshDue, RefreshBuiltin, RefreshOne,
       Begin

\* A deletion is final.
LEMMA DeletionStep ==
  TypeOK /\ DeletedStaysDeleted /\ [Next]_vars => DeletedStaysDeleted'
<1> SUFFICES ASSUME TypeOK, DeletedStaysDeleted, [Next]_vars
             PROVE  DeletedStaysDeleted'
  OBVIOUS
<1>1. CASE UNCHANGED <<row, rules>>
  BY <1>1 DEF DeletedStaysDeleted, Exists
<1>2. ASSUME NEW r \in Refreshers,
             MarkUnmodified(r) \/ MarkSameContent(r) \/ Stamp(r)
      PROVE  DeletedStaysDeleted'
  <2>1. rules' = rules
    BY <1>2 DEF MarkUnmodified, MarkSameContent, Stamp
  <2> QED
    BY <1>2, <2>1, MarkingKeepsRows DEF DeletedStaysDeleted
<1>3. ASSUME NEW r \in Refreshers, Store(r) PROVE DeletedStaysDeleted'
  <2>1. Exists(job[r].sub) /\ row' = row
    BY <1>3 DEF Store
  <2>2. \A x \in Subscriptions : x # job[r].sub => rules'[x] = rules[x]
    BY <1>3 DEF Store, TypeOK
  <2> QED
    BY <2>1, <2>2 DEF DeletedStaysDeleted, Exists
<1>4. ASSUME NEW s \in Subscriptions, UserChanges(s) \/ Elapse(s)
      PROVE  DeletedStaysDeleted'
  <2>1. DOMAIN rules = Subscriptions
    BY DEF TypeOK
  <2>2. CASE rules' = rules /\ \A x \in Subscriptions : Exists(x)' <=> Exists(x)
    BY <2>2 DEF DeletedStaysDeleted
  <2>3. CASE /\ rules' = [rules EXCEPT ![s] = NoRules]
             /\ \A x \in Subscriptions \ {s} : Exists(x)' <=> Exists(x)
    BY <2>1, <2>3 DEF DeletedStaysDeleted, TypeOK
  <2> QED
    BY <1>4, <2>2, <2>3, ChangesOfRows
<1>5. ASSUME NEW u \in Sources, Publish(u) PROVE UNCHANGED <<row, rules>>
  BY <1>5 DEF Publish
<1>6. CASE Crash \/ UNCHANGED vars
  BY <1>1, <1>6 DEF Crash, vars
<1> QED
  BY <1>1, <1>2, <1>3, <1>4, <1>5, <1>6, RulesAlone DEF Next, Step

\* No refresh that was under way when a subscription was deleted leaves rules
\* behind, whatever the number of refreshers.
THEOREM DeletionIsFinal == Spec => []DeletedStaysDeleted
<1>1. Init => DeletedStaysDeleted
  BY DEF Init, DeletedStaysDeleted
<1> QED
  BY <1>1, TypeCorrect, DeletionStep, PTL DEF Spec

(* Refreshes that keep apart, of subscriptions settled before the first.   *)

\* The rules of a subscription are of a document its source has served, as new as
\* anything its row names, and in its category.
RowInStep(s) ==
  Exists(s) =>
    /\ rules[s].version <= serves[row[s].url]
    /\ row[s].hash <= rules[s].version
    /\ row[s].etag <= rules[s].version
    /\ row[s].modified <= rules[s].version
    /\ rules[s].version # Unknown => rules[s].category = row[s].category

\* A success that is told is true, and of a subscription that is still there.
Current(s) ==
  told[s] => /\ Exists(s)
             /\ rules[s].version = serves[row[s].url]
             /\ rules[s].category = row[s].category

\* Sources serve what has been published.
Published == \A u \in Sources : serves[u] > Unknown /\ serves[u] <= clock

\* The row has not changed since the refresher read it.
RowAsRead(r) ==
  LET now == row[job[r].sub]
      read == job[r].read
  IN /\ now.url = read.url /\ now.category = read.category
     /\ now.hash = read.hash /\ now.etag = read.etag /\ now.modified = read.modified

\* The answer is not older than the rules, and of their version if nothing has
\* changed.
AnswerFits(r) ==
  LET old == rules[job[r].sub]
      answer == job[r].answer
  IN /\ old.version <= answer.version
     /\ answer.version <= serves[job[r].read.url]
     /\ answer.version > Unknown
     /\ answer.etag <= answer.version /\ answer.modified <= answer.version
     /\ ~answer.changed => old.version = answer.version

\* What a refresher has at hand fits the subscription, unless that is deleted.
Fits(r) ==
  job[r].at \in {"fetch", "settle", "stamp"} /\ Exists(job[r].sub) =>
    /\ RowAsRead(r)
    /\ job[r].at \in {"settle", "stamp"} => AnswerFits(r)
    /\ job[r].at = "stamp" =>
         /\ rules[job[r].sub].version = job[r].answer.version
         /\ rules[job[r].sub].category = job[r].read.category

InStep ==
  /\ Published
  /\ \A s \in Subscriptions : RowInStep(s) /\ Current(s)
  /\ \A r \in Refreshers : Fits(r)

IInv == TypeOK /\ InStep

\* Numbers and membership the arguments below rely on.
LEMMA Known ==
  ASSUME TypeOK, NEW s \in Subscriptions
  PROVE  /\ rules[s].version \in Nat
         /\ Exists(s) =>
              /\ row[s] \in Rows /\ row[s].url \in Sources
              /\ row[s].hash \in Nat /\ row[s].etag \in Nat
              /\ row[s].modified \in Nat /\ serves[row[s].url] \in Nat
<1>1. Exists(s) => row[s] \in Rows
  BY Existing
<1>2. rules[s].version \in Nat
  BY DEF TypeOK, NoRules, Unknown
<1> QED
  BY <1>1, <1>2 DEF TypeOK, Rows

\* A refresher that holds a row or an answer.
LEMMA AtHand ==
  ASSUME TypeOK, NEW r \in Refreshers, job[r].at \in {"fetch", "settle", "stamp"}
  PROVE  /\ job[r] \in Jobs /\ job[r].sub \in Subscriptions
         /\ job[r].read \in Rows /\ job[r].read.url \in Sources
         /\ job[r].read.hash \in Nat /\ job[r].read.etag \in Nat
         /\ job[r].read.modified \in Nat
         /\ job[r].at \in {"settle", "stamp"} =>
              /\ job[r].answer \in Answers
              /\ job[r].answer.version \in Nat /\ job[r].answer.etag \in Nat
              /\ job[r].answer.modified \in Nat
<1>1. job[r] \in Jobs /\ job[r].at # "idle"
  BY DEF TypeOK
<1>2. /\ job[r].sub \in Subscriptions /\ job[r].read \in Rows
      /\ job[r].at \in {"settle", "stamp"} => job[r].answer \in Answers
  BY <1>1, Placed
<1> QED
  BY <1>1, <1>2 DEF Rows, Answers

\* A refresher that is done with a subscription holds nothing.
LEMMA Done ==
  ASSUME NEW r \in Refreshers, job'[r].at \in {"idle", "next"} PROVE Fits(r)'
BY DEF Fits

LEMMA GoneOn ==
  ASSUME job \in [Refreshers -> Jobs], NEW r \in Refreshers, GoOn(r)
  PROVE  Fits(r)' /\ \A q \in Refreshers : q # r => job'[q] = job[q]
<1>1. job'[r] = Rest(r) /\ \A q \in Refreshers : q # r => job'[q] = job[q]
  BY DEF GoOn
<1>2. job'[r].at \in {"idle", "next"}
  BY <1>1 DEF Rest
<1> QED
  BY <1>1, <1>2, Done

\* A step that leaves row and rules of s as they were, all but enabled, interval
\* and due.
Untouched(s) ==
  /\ Exists(s)' <=> Exists(s)
  /\ row'[s].url = row[s].url /\ row'[s].category = row[s].category
  /\ row'[s].hash = row[s].hash /\ row'[s].etag = row[s].etag
  /\ row'[s].modified = row[s].modified
  /\ rules'[s] = rules[s]

LEMMA Elsewhere ==
  ASSUME InStep, UNCHANGED <<serves, clock>>, NEW s \in Subscriptions, Untouched(s),
         told'[s] => told[s]
  PROVE  RowInStep(s)' /\ Current(s)'
BY DEF InStep, Untouched, RowInStep, Current

LEMMA StillFits ==
  ASSUME TypeOK, InStep, UNCHANGED serves, NEW r \in Refreshers, job'[r] = job[r],
         \A s \in Subscriptions : Holds(r, s) => Untouched(s)
  PROVE  Fits(r)'
<1> SUFFICES ASSUME job[r].at \in {"fetch", "settle", "stamp"},
                    NEW s \in Subscriptions, s = job[r].sub, Exists(s)'
             PROVE  Fits(r)'
  BY AtHand DEF Fits
<1>1. Exists(s) /\ Fits(r) /\ Untouched(s)
  BY DEF InStep, Untouched, Holds
<1>2. RowAsRead(r)'
  BY <1>1 DEF Fits, RowAsRead, Untouched
<1>3. job[r].at \in {"settle", "stamp"} => AnswerFits(r)'
  BY <1>1 DEF Fits, AnswerFits, Untouched
<1> QED
  BY <1>1, <1>2, <1>3 DEF Fits, Untouched

\* Without changes to subscriptions, rules and sources only jobs can be disturbed.
LEMMA OnlyJobs ==
  ASSUME TypeOK, InStep, UNCHANGED <<row, rules, serves, clock, told>>,
         \A r \in Refreshers : job'[r] = job[r] \/ Fits(r)'
  PROVE  InStep'
<1>1. \A s : Untouched(s)
  BY DEF Untouched, Exists
<1>2. \A s \in Subscriptions : RowInStep(s)' /\ Current(s)'
  BY <1>1, Elsewhere
<1>3. \A r \in Refreshers : Fits(r)'
  BY <1>1, StillFits
<1>4. Published'
  BY DEF InStep, Published
<1> QED
  BY <1>2, <1>3, <1>4 DEF InStep

\* A refresher that works on the subscription s disturbs no other.
LEMMA OneStep ==
  ASSUME TypeOK, InStep, Apart, NEW r \in Refreshers, NEW s \in Subscriptions,
         Holds(r, s), UNCHANGED <<serves, clock>>,
         \A x \in Subscriptions : x # s => Untouched(x) /\ told'[x] = told[x],
         \A q \in Refreshers : q # r => job'[q] = job[q],
         RowInStep(s)', Current(s)', Fits(r)'
  PROVE  InStep'
<1>1. \A x \in Subscriptions : RowInStep(x)' /\ Current(x)'
  <2>1. ASSUME NEW x \in Subscriptions, x # s PROVE RowInStep(x)' /\ Current(x)'
    BY <2>1, Elsewhere
  <2> QED
    BY <2>1
<1>2. \A q \in Refreshers : Fits(q)'
  <2>1. ASSUME NEW q \in Refreshers, q # r PROVE Fits(q)'
    <3>1. ASSUME NEW x \in Subscriptions, Holds(q, x) PROVE Untouched(x)
      BY <2>1, <3>1 DEF Apart
    <3> QED
      BY <2>1, <3>1, StillFits
  <2> QED
    BY <2>1
<1>3. Published'
  BY DEF InStep, Published
<1> QED
  BY <1>1, <1>2, <1>3 DEF InStep

\* What a refresh that reports success leaves behind.
LEMMA Success ==
  ASSUME TypeOK, NEW r \in Refreshers, job[r].at \in {"settle", "stamp"},
         NEW s \in Subscriptions, s = job[r].sub,
         Exists(s), Exists(s)', Fits(r), Tell(r),
         UNCHANGED <<rules, serves>>, RowInStep(s)',
         rules[s].version = job[r].answer.version,
         row'[s].url = row[s].url, row'[s].category = row[s].category
  PROVE  Current(s)'
<1> SUFFICES ASSUME told'[s] PROVE Current(s)'
  BY DEF Current
<1>1. told \in [Subscriptions -> BOOLEAN]
  BY DEF TypeOK
<1>2. row[s].url = job[r].read.url /\ serves[job[r].read.url] = job[r].answer.version
  BY <1>1 DEF Tell
<1>3. rules[s].version = serves[row[s].url] /\ rules[s].version > Unknown
  BY <1>2 DEF Fits, AnswerFits
<1>4. rules[s].version # Unknown
  BY <1>1, <1>3, Known DEF Unknown
<1>5. rules[s].category = row[s].category
  BY <1>4 DEF RowInStep
<1> QED
  BY <1>3, <1>5 DEF Current

\* What a refresh of a deleted subscription reports.
LEMMA Late ==
  ASSUME TypeOK, NEW r \in Refreshers, NEW s \in Subscriptions, s = job[r].sub,
         ~Exists(s), row' = row, Tell(r)
  PROVE  RowInStep(s)' /\ Current(s)'
<1>1. told \in [Subscriptions -> BOOLEAN]
  BY DEF TypeOK
<1>2. ~told'[s]
  BY <1>1 DEF Tell
<1> QED
  BY <1>2 DEF RowInStep, Current, Exists

\* A report is about one subscription.
LEMMA ToldOne ==
  ASSUME TypeOK, NEW r \in Refreshers, Tell(r)
  PROVE  \A x \in Subscriptions : x # job[r].sub => told'[x] = told[x]
BY DEF Tell, TypeOK

\* The steps of one refresh.
LEMMA ReadRowKeeps ==
  ASSUME IInv, NEW r \in Refreshers, ReadRow(r) PROVE InStep'
<1>1. /\ TypeOK /\ InStep /\ job \in [Refreshers -> Jobs]
      /\ UNCHANGED <<row, rules, serves, clock, told>>
  BY DEF IInv, TypeOK, ReadRow
<1> SUFFICES Fits(r)' /\ \A q \in Refreshers : q # r => job'[q] = job[q]
  BY <1>1, OnlyJobs
<1>3. CASE job' = [job EXCEPT ![r] = Idle]
  <2>1. job'[r].at \in {"idle", "next"} /\ \A q \in Refreshers : q # r => job'[q] = job[q]
    BY <1>1, <1>3 DEF Idle
  <2> QED
    BY <2>1, Done
<1>4. ASSUME NEW s \in job[r].todo, Exists(s),
             job' = [job EXCEPT ![r] =
               [at |-> "fetch", op |-> job[r].op, todo |-> job[r].todo \ {s},
                sub |-> s, read |-> row[s]]]
      PROVE  Fits(r)' /\ \A q \in Refreshers : q # r => job'[q] = job[q]
  <2>1. /\ job'[r] = [at |-> "fetch", op |-> job[r].op, todo |-> job[r].todo \ {s},
                      sub |-> s, read |-> row[s]]
        /\ \A q \in Refreshers : q # r => job'[q] = job[q]
    BY <1>1, <1>4
  <2>2. job'[r].at = "fetch" /\ job'[r].sub = s /\ job'[r].read = row'[s]
    BY <1>1, <2>1
  <2> QED
    BY <2>1, <2>2 DEF Fits, RowAsRead
<1>5. ASSUME NEW s \in job[r].todo,
             job' = [job EXCEPT ![r] = [Rest(r) EXCEPT !.todo = @ \ {s}]]
      PROVE  Fits(r)' /\ \A q \in Refreshers : q # r => job'[q] = job[q]
  <2>1. /\ job'[r] = [Rest(r) EXCEPT !.todo = @ \ {s}]
        /\ \A q \in Refreshers : q # r => job'[q] = job[q]
    BY <1>1, <1>5
  <2>2. job'[r].at \in {"idle", "next"}
    BY <2>1 DEF Rest
  <2> QED
    BY <2>1, <2>2, Done
<1>6. \/ job' = [job EXCEPT ![r] = Idle]
      \/ \E s \in job[r].todo : Exists(s) /\
           job' = [job EXCEPT ![r] =
             [at |-> "fetch", op |-> job[r].op, todo |-> job[r].todo \ {s},
              sub |-> s, read |-> row[s]]]
      \/ \E s \in job[r].todo :
           job' = [job EXCEPT ![r] = [Rest(r) EXCEPT !.todo = @ \ {s}]]
  BY DEF ReadRow, Rest
<1> QED
  BY <1>3, <1>4, <1>5, <1>6

\* "Not modified" is said of the version the row names, which the rules are of.
LEMMA FetchKeeps ==
  ASSUME IInv, NEW r \in Refreshers, Fetch(r) PROVE InStep'
<1> DEFINE s == job[r].sub
           u == job[r].read.url
           changed == u \in Files \/ ~NotModified(u, job[r].read.etag, job[r].read.modified)
           etag == IF u \in Tagging THEN serves[u] ELSE Unknown
           modified == IF u \in Files THEN Unknown ELSE serves[u]
           j == [at |-> "settle", op |-> job[r].op, todo |-> job[r].todo,
                 sub |-> s, read |-> job[r].read,
                 answer |-> [changed |-> changed, version |-> serves[u],
                             etag |-> etag, modified |-> modified]]
<1>1. /\ TypeOK /\ InStep /\ job[r].at = "fetch" /\ Fits(r)
      /\ job' = [job EXCEPT ![r] = j]
      /\ UNCHANGED <<row, rules, serves, clock, told>>
  BY DEF IInv, InStep, Fetch
<1>2. /\ \A q \in Refreshers : q # r => job'[q] = job[q]
      /\ job'[r] = j
  BY <1>1 DEF TypeOK
<1> SUFFICES ASSUME Exists(s) PROVE Fits(r)'
  <2>1. job'[r].sub = s
    BY <1>2
  <2>2. ~Exists(s) => Fits(r)'
    BY <1>1, <2>1 DEF Fits, Exists
  <2> QED
    BY <1>1, <1>2, <2>2, OnlyJobs
<1>3. /\ s \in Subscriptions /\ u \in Sources /\ u = row[s].url
      /\ job[r].read.etag = row[s].etag /\ job[r].read.modified = row[s].modified
  BY <1>1, AtHand DEF Fits, RowAsRead
<1>4. /\ rules[s].version \in Nat /\ serves[u] \in Nat /\ serves[u] > Unknown
      /\ row[s].etag \in Nat /\ row[s].modified \in Nat
      /\ rules[s].version <= serves[u]
      /\ row[s].etag <= rules[s].version /\ row[s].modified <= rules[s].version
  BY <1>1, <1>3, Known DEF InStep, RowInStep, Published
<1>5. ~changed => rules[s].version = serves[u]
  BY <1>3, <1>4 DEF NotModified
<1>6. etag <= serves[u] /\ modified <= serves[u]
  BY <1>4 DEF Unknown
<1> HIDE DEF changed, etag, modified
<1>9. /\ job'[r].at = "settle" /\ job'[r].sub = s /\ job'[r].read = job[r].read
      /\ job'[r].answer.changed = changed /\ job'[r].answer.version = serves[u]
      /\ job'[r].answer.etag = etag /\ job'[r].answer.modified = modified
  BY <1>2
<1>10. RowAsRead(r)'
  BY <1>1, <1>9 DEF Fits, RowAsRead
<1>11. AnswerFits(r)'
  BY <1>1, <1>4, <1>5, <1>6, <1>9 DEF AnswerFits
<1> QED
  BY <1>9, <1>10, <1>11 DEF Fits

\* A row that is stamped or marked, with what its new validators are about.
LEMMA MarkedRow ==
  ASSUME IInv, Apart, NEW r \in Refreshers, job[r].at \in {"settle", "stamp"},
         NEW new, Update(job[r].sub, new), GoOn(r), Tell(r),
         UNCHANGED <<rules, serves, clock>>,
         Exists(job[r].sub) =>
           /\ new \in Rows
           /\ new.url = row[job[r].sub].url
           /\ new.category = row[job[r].sub].category
           /\ rules[job[r].sub].version = job[r].answer.version
           /\ new.hash <= rules[job[r].sub].version
           /\ new.etag <= rules[job[r].sub].version
           /\ new.modified <= rules[job[r].sub].version
  PROVE  InStep'
<1> PICK s \in Subscriptions : s = job[r].sub
  BY AtHand DEF IInv
<1>1. /\ TypeOK /\ InStep /\ RowInStep(s) /\ Fits(r) /\ Holds(r, s)
      /\ row \in [Subscriptions -> Rows \cup {Gone}]
      /\ job \in [Refreshers -> Jobs]
  BY DEF IInv, InStep, TypeOK, Holds
<1>2. \A x \in Subscriptions : x # s => Untouched(x) /\ told'[x] = told[x]
  <2>1. \A x \in Subscriptions : x # s => row'[x] = row[x]
    BY <1>1 DEF Update
  <2> QED
    BY <1>1, <2>1, ToldOne DEF Untouched, Exists
<1>3. Fits(r)' /\ \A q \in Refreshers : q # r => job'[q] = job[q]
  BY <1>1, GoneOn
<1>4. CASE ~Exists(s)
  <2>1. row' = row
    BY <1>4 DEF Update
  <2>2. RowInStep(s)' /\ Current(s)'
    BY <1>1, <1>4, <2>1, Late
  <2> QED
    BY <1>1, <1>2, <1>3, <2>2, OneStep
<1>5. CASE Exists(s)
  <2>1. row'[s] = new /\ new # Gone
    BY <1>1, <1>5, RowsAreThere DEF Update
  <2>2. Exists(s)' /\ RowInStep(s)'
    BY <1>1, <1>5, <2>1 DEF RowInStep, Exists
  <2>3. Current(s)'
    BY <1>1, <1>5, <2>1, <2>2, Success
  <2> QED
    BY <1>1, <1>2, <1>3, <2>2, <2>3, OneStep
<1> QED
  BY <1>4, <1>5

\* The validators written back are those of the row.
LEMMA MarkUnmodifiedKeeps ==
  ASSUME IInv, Apart, NEW r \in Refreshers, MarkUnmodified(r) PROVE InStep'
<1> DEFINE s == job[r].sub
           old == job[r].read
           new == [row[s] EXCEPT !.due = FALSE,
                     !.etag = IF old.etag # Unknown THEN old.etag ELSE @,
                     !.modified = IF old.modified # Unknown THEN old.modified ELSE @]
<1>1. /\ TypeOK /\ InStep /\ job[r].at = "settle" /\ ~job[r].answer.changed
      /\ Fits(r) /\ s \in Subscriptions
      /\ GoOn(r) /\ Tell(r) /\ Update(s, new) /\ UNCHANGED <<rules, serves, clock>>
  BY AtHand DEF IInv, InStep, MarkUnmodified
<1>2. ASSUME Exists(s)
      PROVE  /\ new \in Rows
             /\ new.url = row[s].url /\ new.category = row[s].category
             /\ rules[s].version = job[r].answer.version
             /\ new.hash <= rules[s].version /\ new.etag <= rules[s].version
             /\ new.modified <= rules[s].version
  <2>1. row[s] \in Rows /\ RowInStep(s)
    BY <1>1, <1>2, Known DEF InStep
  <2>2. /\ old.etag = row[s].etag /\ old.modified = row[s].modified
        /\ rules[s].version = job[r].answer.version
    BY <1>1, <1>2 DEF Fits, RowAsRead, AnswerFits
  <2>3. new = [row[s] EXCEPT !.due = FALSE]
    BY <2>1, <2>2 DEF Rows
  <2> HIDE DEF new
  <2> QED
    BY <1>2, <2>1, <2>2, <2>3 DEF RowInStep, Rows
<1> HIDE DEF new
<1> QED
  BY <1>1, <1>2, MarkedRow

\* The document has the hash of the row, so its version is not newer than the
\* rules, and, being the answer, not older.
LEMMA MarkSameContentKeeps ==
  ASSUME IInv, Apart, NEW r \in Refreshers, MarkSameContent(r) PROVE InStep'
<1> DEFINE s == job[r].sub
           answer == job[r].answer
           new == [row[s] EXCEPT !.due = FALSE, !.etag = answer.etag,
                                 !.modified = answer.modified]
<1>1. /\ TypeOK /\ InStep /\ job[r].at = "settle" /\ answer.version = job[r].read.hash
      /\ Fits(r) /\ s \in Subscriptions
      /\ GoOn(r) /\ Tell(r) /\ Update(s, new) /\ UNCHANGED <<rules, serves, clock>>
  BY AtHand DEF IInv, InStep, MarkSameContent
<1>2. ASSUME Exists(s)
      PROVE  /\ new \in Rows
             /\ new.url = row[s].url /\ new.category = row[s].category
             /\ rules[s].version = job[r].answer.version
             /\ new.hash <= rules[s].version /\ new.etag <= rules[s].version
             /\ new.modified <= rules[s].version
  <2>1. /\ row[s] \in Rows /\ RowInStep(s)
        /\ row[s].hash \in Nat /\ rules[s].version \in Nat
        /\ answer.version \in Nat /\ answer.etag \in Nat /\ answer.modified \in Nat
    BY <1>1, <1>2, Known, AtHand DEF InStep
  <2>2. /\ answer.version = row[s].hash /\ rules[s].version <= answer.version
        /\ answer.etag <= answer.version /\ answer.modified <= answer.version
    BY <1>1, <1>2 DEF Fits, RowAsRead, AnswerFits
  <2>3. /\ new \in Rows /\ new.url = row[s].url /\ new.category = row[s].category
        /\ new.hash = row[s].hash /\ new.etag = answer.etag
        /\ new.modified = answer.modified
    BY <2>1 DEF Rows
  <2>4. rules[s].version = answer.version
    BY <1>2, <2>1, <2>2 DEF RowInStep
  <2> QED
    BY <2>1, <2>2, <2>3, <2>4
<1> HIDE DEF new
<1> QED
  BY <1>1, <1>2, MarkedRow

\* The row is stamped with the version of the rules.
LEMMA StampKeeps ==
  ASSUME IInv, Apart, NEW r \in Refreshers, Stamp(r) PROVE InStep'
<1> DEFINE s == job[r].sub
           answer == job[r].answer
           new == [row[s] EXCEPT !.due = FALSE, !.hash = answer.version,
                     !.etag = answer.etag, !.modified = answer.modified]
<1>1. /\ TypeOK /\ InStep /\ job[r].at = "stamp" /\ Fits(r) /\ s \in Subscriptions
      /\ GoOn(r) /\ Tell(r) /\ Update(s, new) /\ UNCHANGED <<rules, serves, clock>>
  BY AtHand DEF IInv, InStep, Stamp
<1>2. ASSUME Exists(s)
      PROVE  /\ new \in Rows
             /\ new.url = row[s].url /\ new.category = row[s].category
             /\ rules[s].version = answer.version
             /\ new.hash <= rules[s].version /\ new.etag <= rules[s].version
             /\ new.modified <= rules[s].version
  <2>1. /\ row[s] \in Rows
        /\ answer.version \in Nat /\ answer.etag \in Nat /\ answer.modified \in Nat
    BY <1>1, <1>2, Known, AtHand
  <2>2. /\ rules[s].version = answer.version
        /\ answer.etag <= answer.version /\ answer.modified <= answer.version
    BY <1>1, <1>2 DEF Fits, AnswerFits
  <2>3. /\ new \in Rows /\ new.url = row[s].url /\ new.category = row[s].category
        /\ new.hash = answer.version /\ new.etag = answer.etag
        /\ new.modified = answer.modified
    BY <2>1 DEF Rows
  <2> QED
    BY <2>1, <2>2, <2>3
<1> HIDE DEF new
<1> QED
  BY <1>1, <1>2, MarkedRow

\* The new rules are not older than the old ones.  A success reported before was
\* about this very document.
LEMMA StoreKeeps ==
  ASSUME IInv, Apart, NEW r \in Refreshers, Store(r) PROVE InStep'
<1> PICK s \in Subscriptions : s = job[r].sub
  BY AtHand DEF IInv, Store, New
<1> DEFINE answer == job[r].answer
           read == job[r].read
<1>1. /\ TypeOK /\ InStep /\ job[r].at = "settle" /\ Exists(s) /\ answer.changed
      /\ RowAsRead(r) /\ AnswerFits(r) /\ Holds(r, s)
      /\ RowInStep(s) /\ Current(s)
      /\ rules' = [rules EXCEPT ![s] = [version |-> answer.version, category |-> read.category]]
      /\ job' = [job EXCEPT ![r].at = "stamp"]
      /\ UNCHANGED <<row, serves, clock, told>>
  BY DEF IInv, Store, New, InStep, Fits, Holds
<1>2. /\ row[s].url = read.url /\ row[s].category = read.category
      /\ answer.version \in Nat /\ rules[s].version \in Nat
      /\ serves[row[s].url] \in Nat
      /\ row[s].hash \in Nat /\ row[s].etag \in Nat /\ row[s].modified \in Nat
  BY <1>1, AtHand, Known DEF RowAsRead
<1>3. /\ rules'[s] = [version |-> answer.version, category |-> read.category]
      /\ \A x \in Subscriptions : x # s => rules'[x] = rules[x]
  BY <1>1 DEF TypeOK
<1>4. rules'[s].version = answer.version /\ rules'[s].category = read.category
  BY <1>3
<1>5. /\ row[s].hash <= answer.version /\ row[s].etag <= answer.version
      /\ row[s].modified <= answer.version /\ answer.version <= serves[row[s].url]
  BY <1>1, <1>2 DEF AnswerFits, RowInStep
<1>6. RowInStep(s)'
  BY <1>1, <1>2, <1>4, <1>5 DEF RowInStep, Exists
<1>7. Current(s)'
  <2>1. ASSUME told[s] PROVE answer.version = serves[row[s].url]
    BY <1>1, <1>2, <1>5, <2>1 DEF Current, AnswerFits
  <2> QED
    BY <1>1, <1>2, <1>4, <2>1 DEF Current, Exists
<1>8. \A q \in Refreshers : q # r => job'[q] = job[q]
  BY <1>1 DEF TypeOK
<1>9. Fits(r)'
  <2>1. job' = [job EXCEPT ![r] = [job[r] EXCEPT !.at = "stamp"]]
    BY <1>1 DEF TypeOK
  <2>2. job[r] \in Jobs
    BY <1>1 DEF TypeOK
  <2>3. [job[r] EXCEPT !.at = "stamp"].at = "stamp"
    BY <1>1, <2>2 DEF Jobs, Idle
  <2>4. /\ job'[r].at = "stamp" /\ job'[r].sub = s
        /\ job'[r].read = read /\ job'[r].answer = answer
    BY <1>1, <2>1, <2>3 DEF TypeOK
  <2>5. RowAsRead(r)'
    BY <1>1, <2>4 DEF RowAsRead
  <2>6. AnswerFits(r)'
    BY <1>1, <1>2, <1>4, <2>4 DEF AnswerFits
  <2> QED
    BY <1>4, <2>4, <2>5, <2>6 DEF Fits
<1>10. \A x \in Subscriptions : x # s => Untouched(x) /\ told'[x] = told[x]
  BY <1>1, <1>3 DEF Untouched, Exists
<1> QED
  BY <1>1, <1>6, <1>7, <1>8, <1>9, <1>10, OneStep

\* A source gets newer, and earlier successes are no longer about what it serves.
LEMMA PublishKeeps ==
  ASSUME IInv, NEW u \in Sources, Publish(u) PROVE InStep'
<1>1. /\ TypeOK /\ InStep /\ UNCHANGED <<row, rules, job>>
      /\ clock' = clock + 1 /\ serves' = [serves EXCEPT ![u] = clock']
      /\ told' = [s \in Subscriptions |-> told[s] /\ row[s].url # u]
  BY DEF IInv, Publish
<1>2. \A x \in Sources : /\ serves[x] \in Nat /\ serves'[x] \in Nat
                         /\ serves[x] <= serves'[x]
                         /\ serves'[x] > Unknown /\ serves'[x] <= clock'
                         /\ x # u => serves'[x] = serves[x]
  BY <1>1 DEF TypeOK, InStep, Published, Unknown
<1>3. Published'
  BY <1>2 DEF Published
<1>4. ASSUME NEW s \in Subscriptions PROVE RowInStep(s)' /\ Current(s)'
  <2>1. /\ RowInStep(s) /\ Current(s) /\ (Exists(s)' <=> Exists(s))
        /\ rules[s].version \in Nat
        /\ Exists(s) => row[s].url \in Sources
    BY <1>1, Known DEF InStep, Exists
  <2>2. RowInStep(s)'
    <3>1. ASSUME Exists(s) PROVE rules[s].version <= serves'[row[s].url]
      BY <1>2, <2>1, <3>1 DEF RowInStep
    <3> QED
      BY <1>1, <2>1, <3>1 DEF RowInStep
  <2>3. Current(s)'
    <3>1. told'[s] => told[s] /\ row[s].url # u
      BY <1>1
    <3> QED
      BY <1>1, <1>2, <2>1, <3>1 DEF Current
  <2> QED
    BY <2>2, <2>3
<1>5. ASSUME NEW r \in Refreshers PROVE Fits(r)'
  <2> SUFFICES ASSUME job[r].at \in {"fetch", "settle", "stamp"}, Exists(job[r].sub)
               PROVE  Fits(r)'
    BY <1>1 DEF Fits, Exists
  <2>1. Fits(r) /\ RowAsRead(r)
    BY <1>1 DEF InStep, Fits
  <2>2. ASSUME job[r].at \in {"settle", "stamp"} PROVE AnswerFits(r)'
    <3>1. /\ AnswerFits(r) /\ job[r].read.url \in Sources
          /\ job[r].answer.version \in Nat
      BY <1>1, <2>1, <2>2, AtHand DEF Fits
    <3> QED
      BY <1>1, <1>2, <3>1 DEF AnswerFits
  <2>3. RowAsRead(r)'
    BY <1>1, <2>1 DEF RowAsRead
  <2> QED
    BY <1>1, <2>1, <2>2, <2>3 DEF Fits
<1> QED
  BY <1>3, <1>4, <1>5 DEF InStep

\* A row that is edited, deleted, switched or due: the other rows and those who
\* work on them see nothing of it.
LEMMA ChangedRow ==
  ASSUME IInv, NEW s \in Subscriptions, UNCHANGED <<serves, clock, job>>,
         \A x \in Subscriptions : x # s => Untouched(x) /\ (told'[x] => told[x]),
         RowInStep(s)', Current(s)',
         \A r \in Refreshers : Holds(r, s) => Fits(r)'
  PROVE  InStep'
<1>1. TypeOK /\ InStep
  BY DEF IInv
<1>2. \A x \in Subscriptions : RowInStep(x)' /\ Current(x)'
  <2>1. ASSUME NEW x \in Subscriptions, x # s PROVE RowInStep(x)' /\ Current(x)'
    BY <1>1, <2>1, Elsewhere
  <2> QED
    BY <2>1
<1>3. ASSUME NEW r \in Refreshers PROVE Fits(r)'
  <2>1. ASSUME ~Holds(r, s) PROVE Fits(r)'
    <3>1. \A x \in Subscriptions : Holds(r, x) => Untouched(x)
      BY <2>1 DEF Holds
    <3> QED
      BY <1>1, <3>1, StillFits
  <2> QED
    BY <2>1
<1>4. Published'
  BY <1>1 DEF InStep, Published
<1> QED
  BY <1>2, <1>3, <1>4 DEF InStep

\* A subscription that is switched or falls due keeps what matters.
LEMMA QuietChange ==
  ASSUME IInv, NEW s \in Subscriptions, Exists(s), NEW new \in Rows,
         row' = [row EXCEPT ![s] = new],
         new.url = row[s].url, new.category = row[s].category,
         new.hash = row[s].hash, new.etag = row[s].etag,
         new.modified = row[s].modified,
         UNCHANGED <<rules, serves, clock, job>>,
         \A x \in Subscriptions : told'[x] => told[x]
  PROVE  InStep'
<1>1. TypeOK /\ InStep
  BY DEF IInv
<1>2. \A x \in Subscriptions : Untouched(x)
  BY <1>1, RowsAreThere DEF TypeOK, Untouched, Exists
<1>3. RowInStep(s)' /\ Current(s)'
  BY <1>1, <1>2, Elsewhere
<1>4. ASSUME NEW r \in Refreshers, Holds(r, s) PROVE Fits(r)'
  BY <1>1, <1>2, <1>4, StillFits DEF Holds
<1> QED
  BY <1>2, <1>3, <1>4, ChangedRow

LEMMA ElapseKeeps ==
  ASSUME IInv, NEW s \in Subscriptions, Elapse(s) PROVE InStep'
<1> DEFINE new == [row[s] EXCEPT !.due = TRUE]
<1>1. /\ TypeOK /\ Exists(s) /\ row[s] \in Rows /\ row' = [row EXCEPT ![s] = new]
      /\ UNCHANGED <<rules, serves, clock, job, told>>
  BY Known DEF IInv, Elapse, TypeOK
<1>2. /\ new \in Rows /\ new.url = row[s].url /\ new.category = row[s].category
      /\ new.hash = row[s].hash /\ new.etag = row[s].etag
      /\ new.modified = row[s].modified
  BY <1>1 DEF Rows
<1> HIDE DEF new
<1> QED
  BY <1>1, <1>2, QuietChange

\* The changes the user makes.  A subscription that is edited has no rules and no
\* validators yet, and is in nobody's hands.
LEMMA UserKeeps ==
  ASSUME IInv, SettledFirst, NEW s \in Subscriptions, UserChanges(s) PROVE InStep'
<1>1. /\ TypeOK /\ InStep /\ Exists(s) /\ row[s] \in Rows
      /\ row \in [Subscriptions -> Rows \cup {Gone}]
      /\ rules \in [Subscriptions -> [version : Nat, category : Categories] \cup {NoRules}]
      /\ told' = [told EXCEPT ![s] = FALSE] /\ told \in [Subscriptions -> BOOLEAN]
      /\ UNCHANGED <<serves, clock, job>>
  <2>1. Change(s)
    BY DEF UserChanges, Edit, Switch, Delete
  <2> QED
    BY <2>1, Known DEF IInv, Change, TypeOK
<1>2. ~told'[s] /\ \A x \in Subscriptions : told'[x] => told[x]
  BY <1>1
<1>3. ASSUME NEW u \in Sources, NEW c \in Categories, NEW timed \in BOOLEAN,
             Edit(s, u, c, timed)
      PROVE  InStep'
  <2>1. PICK new \in Rows : /\ row' = [row EXCEPT ![s] = new]
                            /\ new.url = u /\ new.category = c
                            /\ new.hash = row[s].hash /\ new.etag = row[s].etag
                            /\ new.modified = row[s].modified
    BY <1>1, <1>3, EditedRow
  <2>2. rules' = rules
    BY <1>3 DEF Edit
  <2>3. CASE u = row[s].url /\ c = row[s].category
    BY <1>1, <1>2, <2>1, <2>2, <2>3, QuietChange
  <2>4. CASE ~(u = row[s].url /\ c = row[s].category)
    <3>1. row'[s] = new /\ new # Gone
      BY <1>1, <2>1, RowsAreThere
    <3>2. rules[s] = NoRules /\ \A r \in Refreshers : ~Holds(r, s)
      BY <1>1, <2>1, <2>4, <3>1 DEF SettledFirst, Exists
    <3>3. RowInStep(s)'
      <4>1. RowInStep(s) /\ serves[u] \in Nat
        BY <1>1 DEF InStep, TypeOK
      <4> QED
        BY <1>1, <2>1, <2>2, <3>1, <3>2, <4>1 DEF RowInStep, NoRules, Unknown
    <3>4. Current(s)'
      BY <1>2 DEF Current
    <3>5. \A x \in Subscriptions : x # s => Untouched(x)
      BY <1>1, <2>1, <2>2 DEF Untouched, Exists
    <3> QED
      BY <1>1, <1>2, <3>2, <3>3, <3>4, <3>5, ChangedRow
  <2> QED
    BY <2>3, <2>4
<1>4. CASE Switch(s)
  <2> DEFINE new == [row[s] EXCEPT !.enabled = ~row[s].enabled]
  <2>1. row' = [row EXCEPT ![s] = new] /\ rules' = rules
    BY <1>1, <1>4 DEF Switch
  <2>2. /\ new \in Rows /\ new.url = row[s].url /\ new.category = row[s].category
        /\ new.hash = row[s].hash /\ new.etag = row[s].etag
        /\ new.modified = row[s].modified
    BY <1>1 DEF Rows
  <2> HIDE DEF new
  <2> QED
    BY <1>1, <1>2, <2>1, <2>2, QuietChange
<1>5. CASE Delete(s)
  <2>1. /\ row' = [row EXCEPT ![s] = Gone] /\ rules' = [rules EXCEPT ![s] = NoRules]
    BY <1>5 DEF Delete
  <2>2. ~Exists(s)'
    BY <1>1, <2>1 DEF Exists
  <2>3. RowInStep(s)' /\ Current(s)'
    BY <1>2, <2>2 DEF RowInStep, Current
  <2>4. \A x \in Subscriptions : x # s => Untouched(x)
    BY <1>1, <2>1 DEF Untouched, Exists
  <2>5. ASSUME NEW r \in Refreshers, Holds(r, s) PROVE Fits(r)'
    BY <1>1, <2>2, <2>5 DEF Holds, Fits
  <2> QED
    BY <1>1, <1>2, <2>3, <2>4, <2>5, ChangedRow
<1> QED
  BY <1>3, <1>4, <1>5 DEF UserChanges

LEMMA Induction ==
  IInv /\ [Next]_vars /\ Apart /\ [SettledFirst]_vars => IInv'
<1> SUFFICES ASSUME IInv, [Next]_vars, Apart, [SettledFirst]_vars PROVE InStep'
  BY Typing DEF IInv
<1>1. TypeOK /\ InStep
  BY DEF IInv
<1>2. ASSUME NEW r \in Refreshers, Step(r) PROVE InStep'
  <2>1. CASE FetchFails(r) \/ Reject(r)
    <3>1. GoOn(r)
      BY <2>1 DEF FetchFails, Reject
    <3>2. Fits(r)' /\ \A q \in Refreshers : q # r => job'[q] = job[q]
      BY <1>1, <3>1, GoneOn DEF TypeOK
    <3> QED
      BY <1>1, <2>1, <3>2, RulesAlone, OnlyJobs
  <2> QED
    BY <1>2, <2>1, ReadRowKeeps, FetchKeeps, MarkUnmodifiedKeeps,
       MarkSameContentKeeps, StoreKeeps, StampKeeps DEF Step
<1>3. ASSUME NEW r \in Refreshers,
             \/ RefreshDue(r) \/ RefreshBuiltin(r)
             \/ \E s \in Subscriptions : RefreshOne(r, s)
      PROVE  InStep'
  <2>1. PICK op, todo : Begin(r, op, todo)
    BY <1>3 DEF RefreshDue, RefreshBuiltin, RefreshOne
  <2>2. /\ job'[r] = [at |-> "next", op |-> op, todo |-> todo]
        /\ \A q \in Refreshers : q # r => job'[q] = job[q]
    BY <1>1, <2>1 DEF Begin, TypeOK
  <2>3. Fits(r)'
    BY <2>2, Done
  <2> QED
    BY <1>1, <1>3, <2>2, <2>3, RulesAlone, OnlyJobs
<1>4. ASSUME NEW s \in Subscriptions, UserChanges(s) PROVE InStep'
  <2>1. UNCHANGED vars \/ SettledFirst
    OBVIOUS
  <2>2. CASE UNCHANGED vars
    BY <1>1, <2>2, OnlyJobs DEF vars
  <2> QED
    BY <1>4, <2>1, <2>2, UserKeeps
<1>5. CASE Crash
  <2>1. \A r \in Refreshers : Fits(r)'
    BY <1>5, Done DEF Crash, Idle
  <2> QED
    BY <1>1, <1>5, <2>1, OnlyJobs DEF Crash
<1>6. CASE UNCHANGED vars
  BY <1>1, <1>6, OnlyJobs DEF vars
<1> QED
  BY <1>2, <1>3, <1>4, <1>5, <1>6, PublishKeeps, ElapseKeeps DEF Next

LEMMA Start == Init => IInv
<1> SUFFICES ASSUME Init PROVE IInv
  OBVIOUS
<1>1. TypeOK
  BY InitTyped
<1>2. ASSUME NEW s \in Subscriptions PROVE RowInStep(s) /\ Current(s)
  <2>1. row[s] \in Fresh /\ rules[s] = NoRules /\ ~told[s]
    BY DEF Init, Fresh
  <2>2. /\ row[s].url \in Sources /\ row[s].hash = 0 /\ row[s].etag = 0
        /\ row[s].modified = 0 /\ rules[s].version = 0
    BY <2>1, FreshRow DEF Rows, NoRules, Unknown
  <2>3. serves[row[s].url] = 1
    BY <2>2 DEF Init
  <2> QED
    BY <2>1, <2>2, <2>3 DEF RowInStep, Current, Unknown
<1>3. Published
  BY DEF Init, Published, Unknown
<1>4. \A r \in Refreshers : Fits(r)
  BY DEF Init, Fits, Idle
<1> QED
  BY <1>1, <1>2, <1>3, <1>4 DEF IInv, InStep

\* Refreshes that keep apart, crashes, deletions and bad documents included, leave
\* no row that names a newer document than the rules are from.
THEOREM RulesInStep ==
  Spec /\ []Apart /\ [][SettledFirst]_vars => []RulesNotBehindRow
<1>1. IInv => RulesNotBehindRow
  BY DEF IInv, InStep, RowInStep, RulesNotBehindRow
<1> QED
  BY <1>1, Induction, Start, PTL DEF Spec

\* A success that such a refresh reports is true.
THEOREM SuccessIsTrue ==
  Spec /\ []Apart /\ [][SettledFirst]_vars => []SuccessMeansCurrent
<1>1. ASSUME IInv, NEW s \in Subscriptions, told[s]
      PROVE  rules[s] = [version  |-> serves[row[s].url], category |-> row[s].category]
  <2>1. /\ TypeOK /\ Exists(s)
        /\ rules[s].version = serves[row[s].url] /\ rules[s].category = row[s].category
    BY <1>1 DEF IInv, InStep, Current
  <2>2. rules[s].version # Unknown
    BY <1>1, <2>1, Known DEF IInv, InStep, Published, Unknown
  <2>3. rules[s] \in [version : Nat, category : Categories]
    BY <2>1, <2>2 DEF TypeOK, NoRules
  <2> QED
    BY <2>1, <2>3
<1>2. IInv => SuccessMeansCurrent
  BY <1>1 DEF SuccessMeansCurrent
<1> QED
  BY <1>2, Induction, Start, PTL DEF Spec
=============================================================================
