-------------------------- MODULE AccessLogCollector --------------------------
(***************************************************************************)
(* The access log (access_logs.rs).  The kernel writes what it decides to  *)
(* a log file, and streams it to the controller's client.  A collector     *)
(* follows the stream and reads the file from the offset it remembers; the *)
(* console asks for the same reading, together with the connections that   *)
(* are open, whenever it shows the log.  Both fill one table, which the    *)
(* user can clear and look at.  The DNS filter adds the names it blocks,   *)
(* through a connection to the database of its own.                        *)
(*                                                                         *)
(* Every use of the database is a critical section of its own: between     *)
(* measuring the file, reading the offset, reading lines and storing them, *)
(* the kernel writes, the user changes settings, and the other reader runs.*)
(* None is a transaction: when a statement fails, or the application dies, *)
(* what was written before stays.                                          *)
(***************************************************************************)
EXTENDS Integers, Sequences, FiniteSetsExt, Functions

CONSTANTS
  Collector,      \* the task of the collector
  Commands,       \* tasks that run sync_access_logs for the console
  Keys,           \* what accesses can be alike in: records with a decision
  OwnDns,         \* the key of CleanWeb's own DNS listener
  Blocked,        \* the key of what the DNS filter blocks
  Noise,          \* a line that tells of no access, or of one to that listener
  Connections,    \* open connections the controller may list
  LogLimit,       \* MAX_RAW_MIHOMO_LOG_BYTES, in lines
  MaxRows,        \* MAX_ACCESS_LOG_ROWS
  TicksPerDay,    \* a tick is longer than lines roll up (5 minutes)
  Retentions,     \* log_retention: days, or 0 for ever
  ShownDays,      \* days of the daily statistics
  NoOne,
  MaxLines,       \* bound: lines written
  MaxClock,       \* bound: ticks
  MaxCount,       \* bound: repeat_count stops growing
  MaxEvents       \* bound: ticks, restarts of the kernel, clearings, switchings,
                  \* requests of the console, names blocked, failing statements,
                  \* and deaths of the application

Tasks == {Collector} \cup Commands
Decisions == {"block", "allow", "warning"}

ASSUME TasksAssumption == Collector \notin Commands
ASSUME KeysAssumption == \A k \in Keys \cup {OwnDns, Blocked} : k.decision \in Decisions
ASSUME LinesAssumption == {Noise, OwnDns, Blocked} \cap Keys = {} /\ Blocked # OwnDns
ASSUME ConnectionsAssumption ==
  IsFiniteSet(Connections) /\ \A c \in Connections : c.start \in Nat
ASSUME LimitsAssumption ==
  /\ LogLimit \in Nat \ {0} /\ MaxRows \in Nat \ {0} /\ TicksPerDay \in Nat \ {0}
  /\ Retentions \subseteq Nat /\ ShownDays \in Nat \ {0}
ASSUME BoundsAssumption ==
  {MaxLines, MaxClock, MaxCount, MaxEvents} \subseteq Nat

VARIABLES
  log,       \* mihomo.log: the lines it holds
  stream,    \* lines sent to the collector that it has not taken yet
  rows,      \* table access_logs
  offset,    \* settings: access_log_file_offset, in lines
  logging,   \* settings: access_logging_enabled
  retention, \* settings: log_retention
  lock,      \* who holds the database for good
  job,       \* what each task is doing
  clock,
  written,   \* observer: lines written so far
  emptied,   \* observer: how often the log was emptied, and before the offset was measured
  counted,   \* observer: how often each line of each source was counted, up to 2
  passed,    \* observer: lines of the file that were read, or left to the stream
  overlapped, \* observer: two tasks were at the file at once
  unmarked,  \* observer: lines stored by readings that then did not move the offset
  uncleaned, \* observer: rows added since the table was last cleaned up
  events

data == <<log, stream, rows, offset, logging, retention, lock, clock>>
observers == <<written, emptied, counted, passed, overlapped, unmarked, uncleaned>>
vars == <<data, job, observers, events>>

-----------------------------------------------------------------------------
(* Lines and rows.                                                         *)

\* A line: its number, what it tells of, its time, and whether logging was on.
Lines == [n : 1..MaxLines, key : Keys \cup {Noise}, at : 0..MaxClock,
          on : BOOLEAN]

\* is_dns_resolution_connection, and the decision of a connection
DecisionOf(c) ==
  CASE c.rejected -> "block"
    [] ~c.rejected /\ (c.dns \/ c.named) -> "allow"
    [] OTHER -> "warning"

KeyOf(c) == [name |-> c.name, decision |-> DecisionOf(c)]

\* A row: the hash of the line or connection, and how many lines it stands for.
LineHashes == {"stream", "file"} \X (1..MaxLines)
Hashes == LineHashes \cup ({"connection"} \X (Connections \cup {OwnDns}))
          \cup ({"filter"} \X Nat)
RowKeys == Keys \cup {OwnDns, Blocked} \cup {KeyOf(c) : c \in Connections}
Rows == [id : Nat, hash : Hashes, key : RowKeys, at : 0..MaxClock, count : Nat]

\* What tells of an access that is recorded.
IsEvent(line) == line.key \in Keys

PruneOwnDns(rs) == {r \in rs : r.key # OwnDns}

\* The table without the rows of the listener: before anything is inserted, they go.
Table == PruneOwnDns(rows)

\* SQLite counts ids on from the highest; only their order matters.
LastId == IF Table = {} THEN 0 ELSE Max({r.id : r \in Table})

\* The time of a line.  A streamed one has none of its own.
TimeOf(line, source) == IF source = "file" THEN line.at ELSE clock

\* Lines that are inserted: one whose hash is in the table is ignored.
Fresh(lines, source) ==
  {line \in Range(lines) : IsEvent(line) /\ \A r \in Table : r.hash # <<source, line.n>>}

\* update_recent_rollup_event: the newest row that a line is like, no more than five
\* minutes older.
Recent(line, source) ==
  LET alike == {r \in Table : r.key = line.key /\ r.at = TimeOf(line, source)} IN
  {r \in alike : \A other \in alike : other.id <= r.id}

Raised(count, by) == IF count + by < MaxCount THEN count + by ELSE MaxCount

\* Lines are counted with a row they are like, without their hash; the first of those
\* that are like none becomes a row, with which the others are counted.
InsertLines(lines, source) ==
  LET fresh == Fresh(lines, source)
      unlike == {line \in fresh : Recent(line, source) = {}}
      like(line) == {other \in unlike : /\ other.key = line.key
                                        /\ TimeOf(other, source) = TimeOf(line, source)}
      first == {line \in unlike : \A other \in like(line) : line.n <= other.n}
  IN {[r EXCEPT !.count = Raised(@, Cardinality({l \in fresh : r \in Recent(l, source)}))] :
        r \in Table}
     \cup {[id |-> LastId + line.n, hash |-> <<source, line.n>>, key |-> line.key,
            at |-> TimeOf(line, source), count |-> Raised(0, Cardinality(like(line)))] :
        line \in first}

CountLines(lines, source) ==
  LET hashes == {<<source, line.n>> : line \in Fresh(lines, source)} IN
  [h \in LineHashes |-> IF h \in hashes /\ counted[h] < 2 THEN counted[h] + 1 ELSE counted[h]]

\* A connection is not rolled up: it is a row, or ignored.
InsertConnections(open) ==
  Table \cup
  {[id |-> LastId + i, hash |-> <<"connection", open[i]>>, key |-> KeyOf(open[i]),
    at |-> open[i].start, count |-> 1] :
     i \in {n \in DOMAIN open : \A r \in Table : r.hash # <<"connection", open[n]>>}}

Newer(a, b) == a.at > b.at \/ (a.at = b.at /\ a.id > b.id)

\* Rows of the days that are kept, and of these the newest.
CleanupRetention(rs) ==
  LET kept == {r \in PruneOwnDns(rs) :
                 retention > 0 => r.at >= clock - retention * TicksPerDay}
  IN {r \in kept : Cardinality({other \in kept : Newer(other, r)}) < MaxRows}

-----------------------------------------------------------------------------
(* Tasks: where one is, where it goes on when the file is done, and what   *)
(* it has measured and read.                                               *)

InFile == {"read", "store", "prune", "zero", "mark", "stuck"}
Places == InFile \cup {"idle", "stream", "insert", "connections"}
Jobs == [at : Places, back : {"idle", "stream", "connections"}, len : 0..MaxLines,
         end : 0..MaxLines,
         epoch : Nat, lines : Seq(Lines)]
Idle == [at |-> "idle", back |-> "idle", len |-> 0, end |-> 0, epoch |-> 0, lines |-> <<>>]

GoTo(p, place) == job' = [job EXCEPT ![p].at = place]
\* Measurements that are no longer needed are forgotten.
Goes(place) == [Idle EXCEPT !.at = place]
GoBack(p) == job' = [job EXCEPT ![p] = Goes(@.back)]
\* An error ends a command; the collector does not care.
GiveUp(p) == job' = [job EXCEPT ![p] = Goes(IF p = Collector THEN @.back ELSE "idle")]

Free == lock = NoOne
Busy(p) == job[p].at \in InFile
Long(p) == job[p].len > LogLimit

TypeOK ==
  /\ log \in Seq(Lines) /\ stream \in Seq(Lines) /\ rows \subseteq Rows
  /\ offset \in 0..MaxLines /\ logging \in BOOLEAN /\ retention \in Retentions
  /\ lock \in Tasks \cup {NoOne} /\ job \in [Tasks -> Jobs] /\ clock \in 0..MaxClock
  /\ written \in 0..MaxLines /\ emptied \in [log : Nat, offset : Nat]
  /\ counted \in [LineHashes -> 0..2] /\ passed \subseteq 1..MaxLines
  /\ overlapped \in BOOLEAN /\ unmarked \subseteq 1..MaxLines /\ uncleaned \in Int
  /\ events \in Nat

\* Any time of the first day.  The table still holds a row of the listener, from an
\* earlier version.
Init ==
  /\ log = <<>> /\ stream = <<>> /\ offset = 0 /\ logging \in BOOLEAN
  /\ rows = {[id |-> 1, hash |-> <<"connection", OwnDns>>, key |-> OwnDns, at |-> 0,
               count |-> 1]}
  /\ retention \in Retentions /\ lock = NoOne
  /\ job = [p \in Tasks |-> Idle] /\ clock \in {c \in 0..MaxClock : c < TicksPerDay}
  /\ written = 0 /\ emptied = [log |-> 0, offset |-> 0]
  /\ counted = [h \in LineHashes |-> 0] /\ passed = {} /\ overlapped = FALSE
  /\ unmarked = {} /\ uncleaned = 0 /\ events = 0

-----------------------------------------------------------------------------
(* The kernel and the user.                                                *)

Connected ==
  \/ job[Collector].at \in {"stream", "insert"}
  \/ Busy(Collector) /\ job[Collector].back = "stream"

Happens == events < MaxEvents /\ events' = events + 1

WriteLine(key) ==
  LET line == [n |-> written + 1, key |-> key, at |-> clock, on |-> logging] IN
  /\ written < MaxLines /\ written' = written + 1
  /\ log' = Append(log, line)
  /\ stream' = IF Connected THEN Append(stream, line) ELSE stream
  /\ UNCHANGED <<rows, offset, logging, retention, lock, clock, job, emptied,
                 counted, passed, overlapped, unmarked, uncleaned, events>>

\* The helper starts the kernel with an empty log; the stream of the last one
\* ends (see StreamEnds).
StartKernel ==
  /\ Happens
  /\ log' = <<>> /\ emptied' = [emptied EXCEPT !.log = @ + 1]
  /\ UNCHANGED <<stream, rows, offset, logging, retention, lock, clock, job,
                 written, counted, passed, overlapped, unmarked, uncleaned>>

Tick ==
  /\ Happens /\ clock < MaxClock /\ clock' = clock + 1
  /\ UNCHANGED <<log, stream, rows, offset, logging, retention, lock, job,
                 observers>>

\* save_settings
ToggleLogging ==
  /\ Free /\ Happens
  /\ logging' = ~logging
  /\ UNCHANGED <<log, stream, rows, offset, retention, lock, clock, job, observers>>

\* clear_access_logs
ClearAccessLogs ==
  /\ Free /\ Happens
  /\ rows' = {}
  /\ UNCHANGED <<log, stream, offset, logging, retention, lock, clock, job, observers>>

\* insert_dns_block_log, by a worker of the DNS filter (DnsFilter): it asks neither
\* whether logging is on nor whether somebody holds the lock, which is the
\* application's, and cleans nothing up.
FilterBlocks ==
  /\ Happens
  /\ rows' = rows \cup {[id |-> 1 + (IF rows = {} THEN 0 ELSE Max({r.id : r \in rows})),
                         hash |-> <<"filter", events'>>, key |-> Blocked,
                         at |-> clock, count |-> 1]}
  /\ uncleaned' = uncleaned + 1
  /\ UNCHANGED <<log, stream, offset, logging, retention, lock, clock, job, written,
                 emptied, counted, passed, overlapped, unmarked>>

\* The application dies, and starts again; the kernel writes on.
Crash ==
  /\ Happens
  /\ job' = [p \in Tasks |-> Idle] /\ stream' = <<>> /\ lock' = NoOne
  /\ UNCHANGED <<log, rows, offset, logging, retention, clock, observers>>

\* What looks at the log drops the rows of the listener first.
LookAtLog ==
  /\ Free /\ rows # Table
  /\ rows' = Table
  /\ UNCHANGED <<log, stream, offset, logging, retention, lock, clock, job, observers,
                 events>>

-----------------------------------------------------------------------------
(* sync_mihomo_log_files, by the collector or a command.  There is one     *)
(* file; macOS has a second one that is read in the same way.              *)

\* The file is opened and measured; then the task goes on at back.
OpenLog(p, place, back) ==
  /\ job' = [job EXCEPT ![p] = [Idle EXCEPT !.at = place, !.back = back,
                                            !.len = Len(log), !.epoch = emptied.log]]
  /\ overlapped' = (overlapped \/ \E q \in Tasks \ {p} : Busy(q))
  /\ UNCHANGED <<written, emptied, counted, passed, unmarked, uncleaned>>

\* Lines are read from the offset on, if the file reaches to it; of a long rest only
\* the end is read, without the first line, which may be cut.  The file may be longer
\* or shorter by now than it was measured.
ReadLines(p) ==
  LET j == job[p]
      known == IF offset <= j.len THEN offset ELSE 0
      long == j.len - known > LogLimit
      start == IF long THEN j.len - LogLimit ELSE known
      end == IF Len(log) > start THEN Len(log) ELSE start IN
  /\ j.at = "read" /\ Free
  /\ IF end > start
     THEN job' = [job EXCEPT ![p].at = "store", ![p].end = end,
                    ![p].epoch = IF known = 0 THEN emptied.log ELSE emptied.offset,
                    ![p].lines = SubSeq(log, start + (IF long THEN 2 ELSE 1), end)]
     ELSE IF Long(p) THEN GoTo(p, "prune") ELSE GoBack(p)
  /\ passed' = passed \cup {log[i].n : i \in known + 1 .. Len(log)}
  /\ UNCHANGED <<data, written, emptied, counted, overlapped, unmarked, uncleaned,
                 events>>

\* prune_mihomo_log_file: a long log is emptied, which may fail.
Empties ==
  /\ log' = <<>> /\ emptied' = [emptied EXCEPT !.log = @ + 1]

\* Rows are added, and the table is cleaned up, or not.
AddClean(rs) == rows' = CleanupRetention(rs) /\ uncleaned' = 0
AddOnly(rs) ==
  rows' = rs /\ uncleaned' = uncleaned + (Cardinality(rs) - Cardinality(Table))

\* Mutant of StoreLines: the table is not cleaned up after a reading.
StoreLinesOnly(p) ==
  /\ rows' = InsertLines(job[p].lines, "file") /\ uncleaned' = 0
  /\ counted' = CountLines(job[p].lines, "file")

\* The events are stored, in the critical section that moves the offset past them.
StoreLines(p) ==
  /\ IF Fresh(job[p].lines, "file") = {} THEN rows' = Table /\ UNCHANGED uncleaned
     ELSE AddClean(InsertLines(job[p].lines, "file"))
  /\ counted' = CountLines(job[p].lines, "file")

\* Mutant of Store: the offset stays where it was.
StoreUnmarked(p) ==
  /\ job[p].at = "store" /\ Free /\ ~Long(p)
  /\ StoreLines(p) /\ GoBack(p)
  /\ UNCHANGED <<log, stream, offset, logging, retention, lock, clock, written, emptied,
                 passed, overlapped, unmarked, events>>

\* Mutant of Store: the offset is moved to the length the file has by now.
StoreAtLength(p) ==
  /\ job[p].at = "store" /\ Free /\ ~Long(p)
  /\ StoreLines(p)
  /\ offset' = Len(log) /\ emptied' = [emptied EXCEPT !.offset = emptied.log]
  /\ GoBack(p)
  /\ UNCHANGED <<log, stream, logging, retention, lock, clock, written, passed,
                 overlapped, unmarked, events>>

Store(p) ==
  /\ job[p].at = "store" /\ Free /\ ~Long(p)
  /\ StoreLines(p)
  /\ offset' = job[p].end /\ emptied' = [emptied EXCEPT !.offset = job[p].epoch]
  /\ GoBack(p)
  /\ UNCHANGED <<log, stream, logging, retention, lock, clock, written, passed,
                 overlapped, unmarked, events>>

\* After the events of a long log, the log is emptied; resetting the offset takes
\* the lock of the database that this very task holds.
StoreAndPrune(p) ==
  /\ job[p].at = "store" /\ Free /\ Long(p)
  /\ StoreLines(p)
  /\ Empties /\ lock' = p /\ GoTo(p, "stuck")
  /\ UNCHANGED <<stream, offset, logging, retention, clock, written, passed, overlapped,
                 unmarked, events>>

Unmarked(lines) == unmarked' = unmarked \cup {line.n : line \in Range(lines)}

\* A long log cannot be emptied, or the offset cannot be written: the events stay,
\* but the offset does not move.
StoreAndFail(p) ==
  /\ job[p].at = "store" /\ Free /\ Happens
  /\ StoreLines(p)
  /\ GiveUp(p) /\ Unmarked(job[p].lines)
  /\ UNCHANGED <<log, stream, offset, logging, retention, lock, clock, written, emptied,
                 passed, overlapped>>

\* An insert fails, or the cleanup, or the application dies between them (see Crash):
\* what was inserted before stays, and the offset does not move.
StoreBreaksOff(p) ==
  \E n \in 0..Len(job[p].lines) :
    LET lines == SubSeq(job[p].lines, 1, n) IN
    /\ job[p].at = "store" /\ Free /\ Happens
    /\ AddOnly(InsertLines(lines, "file"))
    /\ counted' = CountLines(lines, "file") /\ Unmarked(lines)
    /\ GiveUp(p)
    /\ UNCHANGED <<log, stream, offset, logging, retention, lock, clock, written, emptied,
                   passed, overlapped>>

\* There was nothing to read, or logging is off: a long log is emptied.
EmptyLongLog(p) ==
  /\ job[p].at = "prune"
  /\ \/ Empties /\ GoTo(p, "zero") /\ UNCHANGED events
     \/ Happens /\ GiveUp(p) /\ UNCHANGED <<log, emptied>>
  /\ UNCHANGED <<stream, rows, offset, logging, retention, lock, clock, written, counted,
                 passed, overlapped, unmarked, uncleaned>>

ResetOffset(p) ==
  /\ job[p].at = "zero" /\ Free
  /\ offset' = 0 /\ emptied' = [emptied EXCEPT !.offset = emptied.log]
  /\ GoBack(p)
  /\ UNCHANGED <<log, stream, rows, logging, retention, lock, clock, written, counted,
                 passed, overlapped, unmarked, uncleaned, events>>

AtFile(p) ==
  \/ ReadLines(p)
  \/ Store(p) \/ StoreAndPrune(p) \/ StoreAndFail(p) \/ StoreBreaksOff(p)
  \/ EmptyLongLog(p) \/ ResetOffset(p)

-----------------------------------------------------------------------------
(* The collector.                                                          *)

\* With logging on the file is read, with logging off it is only kept short.
VisitFile(back) ==
  IF logging \/ Len(log) > LogLimit
  THEN OpenLog(Collector, IF logging THEN "read" ELSE "prune", back)
  ELSE /\ job' = [job EXCEPT ![Collector] = Goes(back)]
       /\ UNCHANGED observers

\* The controller does not answer.
ControllerFails ==
  /\ job[Collector].at = "idle" /\ Free /\ logging
  /\ OpenLog(Collector, "read", "idle")
  /\ UNCHANGED <<data, events>>

\* It does: what the file holds by then counts as read.
Connect ==
  /\ job[Collector].at = "idle" /\ Free
  /\ IF logging THEN OpenLog(Collector, "mark", "stream")
     ELSE /\ job' = [job EXCEPT ![Collector] = Goes("stream")]
          /\ UNCHANGED observers
  /\ UNCHANGED <<data, events>>

MarkToEnd ==
  /\ job[Collector].at = "mark" /\ ~Long(Collector) /\ Free
  /\ offset' = job[Collector].len
  /\ emptied' = [emptied EXCEPT !.offset = job[Collector].epoch]
  /\ passed' = passed \cup {log[i].n : i \in DOMAIN log \cap 1..job[Collector].len}
  /\ GoBack(Collector)
  /\ UNCHANGED <<log, stream, rows, logging, retention, lock, clock, written, counted,
                 overlapped, unmarked, uncleaned, events>>

MarkLongLog ==
  /\ job[Collector].at = "mark" /\ Long(Collector)
  /\ GoTo(Collector, "prune")
  /\ UNCHANGED <<data, observers, events>>

\* A streamed line is taken, and stored if logging is on when it is.
TakeLine ==
  /\ job[Collector].at = "stream" /\ stream # <<>> /\ Free
  /\ stream' = Tail(stream)
  /\ job' = IF logging
            THEN [job EXCEPT ![Collector] = [Idle EXCEPT !.at = "insert",
                                                          !.lines = <<Head(stream)>>]]
            ELSE job
  /\ UNCHANGED <<log, rows, offset, logging, retention, lock, clock, observers, events>>

\* The insert, or the cleanup after it, may fail: the line is not tried again.
InsertLine ==
  LET lines == job[Collector].lines IN
  /\ job[Collector].at = "insert" /\ Free
  /\ IF \E line \in Range(lines) : IsEvent(line)
     THEN \/ /\ AddClean(InsertLines(lines, "stream")) /\ UNCHANGED events
             /\ counted' = CountLines(lines, "stream")
          \/ /\ AddOnly(InsertLines(lines, "stream")) /\ Happens
             /\ counted' = CountLines(lines, "stream")
          \/ rows' = Table /\ Happens /\ UNCHANGED <<counted, uncleaned>>
     ELSE UNCHANGED <<rows, counted, uncleaned, events>>
  /\ job' = [job EXCEPT ![Collector] = Goes("stream")]
  /\ UNCHANGED <<log, stream, offset, logging, retention, lock, clock, written, emptied,
                 passed, overlapped, unmarked>>

\* Every five seconds of the stream the file is visited too.
VisitFileInStream ==
  /\ job[Collector].at = "stream" /\ Free
  /\ VisitFile("stream") /\ UNCHANGED <<data, events>>

\* The stream ends, or a line of it tells that the data plane is dead, which the
\* runtime recovers from (ProtectionRuntime): lines not taken yet are lost to it.
StreamEnds ==
  /\ job[Collector].at = "stream" /\ Free
  /\ stream' = <<>> /\ VisitFile("idle")
  /\ UNCHANGED <<log, rows, offset, logging, retention, lock, clock, events>>

-----------------------------------------------------------------------------
(* sync_access_logs                                                        *)

AskForLogs(p) ==
  /\ p \in Commands /\ job[p].at = "idle" /\ Free /\ logging /\ Happens
  /\ OpenLog(p, "read", "connections")
  /\ UNCHANGED data

\* What the controller may list, without connections to the listener: each once.
Listings ==
  {open \in UNION {[1..n -> Connections] : n \in 0..Cardinality(Connections)} : IsInjective(open)}

\* The connections that are open by then; if a statement fails, those before it.
StoreConnections(p, open) ==
  /\ job[p].at = "connections" /\ Free
  /\ \A i \in DOMAIN open : open[i].start <= clock
  /\ \/ AddClean(InsertConnections(open)) /\ UNCHANGED events
     \/ AddOnly(InsertConnections(open)) /\ Happens
  /\ job' = [job EXCEPT ![p] = Idle]
  /\ UNCHANGED <<log, stream, offset, logging, retention, lock, clock, written, emptied,
                 counted, passed, overlapped, unmarked>>

ControllerIsSilent(p) ==
  /\ job[p].at = "connections"
  /\ job' = [job EXCEPT ![p] = Idle]
  /\ UNCHANGED <<data, observers, events>>

-----------------------------------------------------------------------------
(* What the console shows.                                                 *)

Shown(decisions) == {r \in Table : r.key.decision \in decisions}

\* list_access_logs and the CSV export: newest first, of one decision or all
ListAccessLogs(decisions, limit) ==
  LET shown == Shown(decisions)
      place(r) == 1 + Cardinality({other \in shown : Newer(other, r)})
      size == Cardinality(shown)
  IN  [n \in 1..(IF limit < size THEN limit ELSE size) |-> CHOOSE r \in shown : place(r) = n]

Day(at) == at \div TicksPerDay

\* The sum of the values of a function, as the size of a disjoint union.
Total(f) == Cardinality(UNION {{x} \X (1..f[x]) : x \in DOMAIN f})

\* SUM(repeat_count)
Counts(rs) == Total([r \in rs |-> r.count])

\* Mutant: today is the last 24 hours.
AccessLogStatsOf24Hours(decisions) ==
  [total |-> Counts(Shown(decisions)),
   today |-> Counts({r \in Shown(decisions) : r.at >= clock - TicksPerDay})]

\* access_log_stats: in all, and since the day began
AccessLogStats(decisions) ==
  [total |-> Counts(Shown(decisions)),
   today |-> Counts({r \in Shown(decisions) : r.at >= Day(clock) * TicksPerDay})]

\* access_log_daily_stats: one number for each of the last days
AccessLogDailyStats(decisions) ==
  [ago \in 0..ShownDays - 1 |-> Counts({r \in Shown(decisions) : Day(r.at) = Day(clock) - ago})]

-----------------------------------------------------------------------------
Next ==
  \/ \E key \in Keys \cup {Noise} : WriteLine(key)
  \/ StartKernel \/ Tick \/ ToggleLogging \/ ClearAccessLogs \/ LookAtLog
  \/ FilterBlocks \/ Crash
  \/ \E p \in Tasks : AtFile(p) \/ AskForLogs(p) \/ ControllerIsSilent(p)
  \/ \E p \in Tasks, open \in Listings : StoreConnections(p, open)
  \/ ControllerFails \/ Connect \/ MarkToEnd \/ MarkLongLog
  \/ TakeLine \/ InsertLine \/ VisitFileInStream \/ StreamEnds

Spec == Init /\ [][Next]_vars

-----------------------------------------------------------------------------
(* Properties.                                                             *)

\* Reading a file that grows, is emptied and is restarted, by an application that
\* may die, counts no line twice, as long as one task is at it at a time; only the
\* lines of a reading that stored them and then failed to move the offset are read,
\* and may be counted, again.
CountedOnce ==
  ~overlapped =>
    \A h \in LineHashes : counted[h] <= 1 \/ (h[1] = "file" /\ h[2] \in unmarked)

\* While nobody has emptied the log since the offset was measured, it has passed
\* no line that was not read or, on connecting, left to the stream: the next
\* reading leaves nothing out, whatever tasks are at the file.
OffsetPassesReadLines ==
  emptied.offset = emptied.log =>
    /\ offset <= Len(log)
    /\ \A i \in 1..offset : log[i].n \in passed

\* The table does not grow past its limit by more than was added since the last
\* cleanup, by the DNS filter or by a reading that failed: everybody else cleans up
\* after himself.
TableIsBounded == Cardinality(rows) <= MaxRows + uncleaned

\* What the console shows at a time fits together: the list, the counters and the
\* days, of one decision or of all, and none of it is of CleanWeb's own listener.
ViewsAgree ==
  \A decisions \in {Decisions} \cup {{d} : d \in Decisions} :
    LET list == ListAccessLogs(decisions, Cardinality(rows))
        stats == AccessLogStats(decisions)
        daily == AccessLogDailyStats(decisions) IN
    /\ stats.total = Total([n \in DOMAIN list |-> list[n].count])
    /\ stats.today = daily[0]
    /\ Total(daily) <= stats.total
    /\ \A i \in DOMAIN list : list[i].key # OwnDns
    /\ \A i, j \in DOMAIN list : i < j => list[i].at >= list[j].at

\* docs/architecture.md: a failure to collect logs must not block the network.  No
\* task waits for the database while it holds it, for then everybody waits.
CollectingDoesNotBlock == \A p \in Tasks : job[p].at = "stuck" => lock # p

\* docs/architecture.md: with logging off nothing new is recorded.  Neither does the
\* DNS filter record what it blocks.
FilterRecordsNothingWhenOff ==
  [][~logging => {r \in rows' : r.key = Blocked} \subseteq rows]_vars

\* docs/architecture.md: with logging off nothing new is recorded.  No task sets out
\* to store an access that was made while logging was off.
OffMeansNoRecord ==
  \A p \in Tasks : job[p].at \in {"store", "insert"} =>
    \A i \in DOMAIN job[p].lines : IsEvent(job[p].lines[i]) => job[p].lines[i].on
=============================================================================
