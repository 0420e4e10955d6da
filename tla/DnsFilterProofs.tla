---------------------------- MODULE DnsFilterProofs ----------------------------
(***************************************************************************)
(* The DNS filter, for any number of queries, workers and upstreams and    *)
(* any length of the queue: types, owners of the names in flight, and that *)
(* the pool of threads implements QueryService.                            *)
(***************************************************************************)
EXTENDS DnsFilter, FiniteSetTheorems, TLAPS

Idle == {"check", "receive", "ended"}

\* A worker has a query from when it takes one until it is done with it, and only
\* queries that are neither blocked nor malformed are forwarded.
WorkersFit ==
  \A w \in Workers :
    /\ worker[w].at \in Idle <=> worker[w].query = Nothing
    /\ worker[w].at \in {"forward", "ask", "resolve"} =>
         kind[worker[w].query] \in {"safe", "split", "plain"}

InSocket(q) == \E i \in DOMAIN socket : socket[i] = q
InQueue(q) == \E i \in DOMAIN queue : queue[i] = q
With(q) == \E w \in Workers : worker[w].query = q

\* A query is in one place at most, and there once; there nobody has been told anything.
InOnePlace ==
  /\ \A i, j \in DOMAIN socket : socket[i] = socket[j] /\ socket[i] \in Queries => i = j
  /\ \A i, j \in DOMAIN queue : queue[i] = queue[j] => i = j
  /\ \A v, w \in Workers : worker[v].query = worker[w].query /\ worker[v].query \in Queries => v = w
  /\ \A q \in Queries :
       /\ InSocket(q) => hand # q /\ ~InQueue(q) /\ ~With(q)
       /\ hand = q => ~InQueue(q) /\ ~With(q)
       /\ InQueue(q) => ~With(q)
       /\ InSocket(q) \/ hand = q \/ InQueue(q) \/ With(q) => told[q] = "pending"

\* A filter that is off has no thread and owes no answer.
OffIsIdle ==
  /\ listener # "receiving" => hand = Nothing
  /\ listener = "off" =>
       /\ \A w \in Workers : worker[w].at = "ended"
       /\ \A q \in Queries : told[q] # "pending"

Resolves(w, name) == worker[w].at = "resolve" /\ NameOf[worker[w].query] = name

\* A name is in flight exactly while somebody resolves it, and then one does.
OneOwner ==
  /\ \A name \in inFlight : \E w \in Workers : Resolves(w, name)
  /\ \A w \in Workers : worker[w].at = "resolve" => NameOf[worker[w].query] \in inFlight
  /\ \A v, w \in Workers : worker[v].at = "resolve" /\ Resolves(w, NameOf[worker[v].query]) => v = w

IInv == TypeOK /\ WorkersFit /\ InOnePlace /\ OffIsIdle /\ OneOwner

-----------------------------------------------------------------------------
(* Sequences, and workers that change.                                     *)

LEMMA Tails ==
  ASSUME NEW S, NEW s \in Seq(S), s # <<>>
  PROVE  /\ Head(s) = s[1] /\ Head(s) \in S /\ 1 \in DOMAIN s
         /\ Tail(s) \in Seq(S) /\ Len(Tail(s)) = Len(s) - 1
         /\ \A i \in DOMAIN Tail(s) : i + 1 \in DOMAIN s /\ Tail(s)[i] = s[i + 1] /\ i \in Nat
OBVIOUS

LEMMA Appends ==
  ASSUME NEW S, NEW s \in Seq(S), NEW e \in S
  PROVE  /\ Append(s, e) \in Seq(S) /\ Len(Append(s, e)) = Len(s) + 1
         /\ DOMAIN Append(s, e) = DOMAIN s \cup {Len(s) + 1} /\ Len(s) + 1 \notin DOMAIN s
         /\ \A i \in DOMAIN s : Append(s, e)[i] = s[i]
         /\ Append(s, e)[Len(s) + 1] = e
OBVIOUS

LEMMA AtTyped == \A place \in Places : At(place) \in Jobs
BY DEF At, Jobs

Typed == /\ worker \in [Workers -> Jobs]
         /\ told \in [Queries -> {"unsent", "pending", "lost"} \cup Answered]

Forwarded == {"forward", "ask", "resolve"}

\* A worker goes on with the query that it has, or without one.
Keeps(w) ==
  /\ UNCHANGED told
  /\ \A v \in Workers \ {w} : worker'[v] = worker[v]
  /\ worker'[w].query = worker[w].query
  /\ worker'[w].at \in Idle <=> worker[w].at \in Idle
  /\ worker'[w].at \in Forwarded => kind[worker[w].query] \in {"safe", "split", "plain"}

\* A worker is done with its query.
Replies(w) ==
  /\ worker[w].query \in Queries
  /\ \E what \in Answered \cup {"lost"} :
       /\ told' = [told EXCEPT ![worker[w].query] = what]
       /\ what = "lost" \/ (what = "nxdomain" <=> kind[worker[w].query] = "blocked")
  /\ worker'[w] = At("check")
  /\ \A v \in Workers \ {w} : worker'[v] = worker[v]

-----------------------------------------------------------------------------
LEMMA InitSafe == Init => IInv
<1> SUFFICES ASSUME Init PROVE IInv
  OBVIOUS
<1> USE QueriesAssumption, PoolAssumption DEF Init
<1>1. \A w \in Workers : worker[w] = At("ended")
  OBVIOUS
<1>2. TypeOK
  <2>1. worker \in [Workers -> Jobs]
    BY AtTyped DEF Places
  <2>2. Len(queue) <= QueueSize /\ starts \in 0..MaxStarts
    OBVIOUS
  <2>3. stop \in BOOLEAN /\ told \in [Queries -> {"unsent", "pending", "lost"} \cup Answered]
    BY Zenon
  <2>4. /\ kind \in Mixes /\ listener \in {"off", "receiving", "joining"}
        /\ hand \in Queries \cup {Nothing, Wake} /\ receiver \in Workers \cup {Nobody}
        /\ socket \in Seq(Queries \cup {Wake}) /\ queue \in Seq(Queries)
        /\ inFlight \subseteq {NameOf[q] : q \in Queries}
    OBVIOUS
  <2> QED
    BY <2>1, <2>2, <2>3, <2>4 DEF TypeOK
<1>3. WorkersFit
  BY <1>1 DEF WorkersFit, Idle, At
<1>4. InOnePlace
  <2>1. \A q \in Queries : q # Nothing
    BY DEF Nothing
  <2>2. DOMAIN socket = {} /\ DOMAIN queue = {}
    OBVIOUS
  <2>3. \A w \in Workers : worker[w].query = Nothing
    BY <1>1 DEF At
  <2> QED
    BY <2>1, <2>2, <2>3 DEF InOnePlace, InSocket, InQueue, With
<1>5. OffIsIdle
  BY <1>1 DEF OffIsIdle, At
<1>6. OneOwner
  BY <1>1 DEF OneOwner, Resolves, At
<1> QED
  BY <1>2, <1>3, <1>4, <1>5, <1>6 DEF IInv

-----------------------------------------------------------------------------
(* Types.                                                                  *)

LEMMA OutsideTyped ==
  ASSUME TypeOK, Start \/ Stop \/ (\E q \in Queries : Send(q)) \/ Listener
  PROVE  TypeOK'
<1> USE QueriesAssumption, PoolAssumption DEF TypeOK
<1>1. CASE Start
  <2>1. worker' \in [Workers -> Jobs]
    BY <1>1, AtTyped DEF Start, Places
  <2>2. Len(queue') <= QueueSize /\ queue' \in Seq(Queries) /\ socket' \in Seq(Queries \cup {Wake})
    BY <1>1 DEF Start
  <2>3. stop' \in BOOLEAN
    BY <1>1, Zenon DEF Start
  <2>4. starts' \in 0..MaxStarts
    BY <1>1 DEF Start
  <2>5. hand' \in Queries \cup {Nothing, Wake} /\ receiver' \in Workers \cup {Nobody}
        /\ listener' \in {"off", "receiving", "joining"}
    BY <1>1 DEF Start
  <2>6. UNCHANGED <<kind, inFlight, told>>
    BY <1>1 DEF Start
  <2> QED
    BY <2>1, <2>2, <2>3, <2>4, <2>5, <2>6
<1>2. CASE Stop
  <2>1. socket' \in Seq(Queries \cup {Wake})
    BY <1>2, Appends, Wake \in Queries \cup {Wake} DEF Stop
  <2> QED
    BY <1>2, <2>1 DEF Stop
<1>3. ASSUME NEW q \in Queries, Send(q) PROVE TypeOK'
  BY <1>3, Appends DEF Send, Told
<1>4. CASE Receive
  BY <1>4, Tails DEF Receive
<1>5. CASE AnswerHealth
  BY <1>5 DEF AnswerHealth, Received, Told, Answered
<1>6. CASE Enqueue
  <2>1. queue' \in Seq(Queries) /\ Len(queue') <= QueueSize
    BY <1>6, Appends DEF Enqueue
  <2> QED
    BY <1>6, <2>1 DEF Enqueue
<1>7. CASE DropJob
  BY <1>7 DEF DropJob, Received, Told
<1>8. CASE Close
  BY <1>8 DEF Close
<1>9. CASE Join
  <2>1. Len(queue') <= QueueSize
    BY <1>9 DEF Join
  <2> QED
    BY <1>9, <2>1 DEF Join
<1> QED
  BY <1>1, <1>2, <1>3, <1>4, <1>5, <1>6, <1>7, <1>8, <1>9 DEF Listener

LEMMA WorkersTyped == ASSUME TypeOK, WorkersFit, NEW w \in Workers, Worker(w) PROVE TypeOK'
<1> USE PoolAssumption, UpstreamsAssumption DEF TypeOK, pool
<1>1. worker[w] \in Jobs /\ At("check") \in Jobs /\ At("receive") \in Jobs
      /\ At("ended") \in Jobs /\ At("decide") \in Jobs
  BY AtTyped DEF Places
<1>2. ASSUME Typed', inFlight' \subseteq inFlight \cup {NameOf[worker[w].query]},
             inFlight' # inFlight => worker[w].query \in Queries \/ inFlight' \subseteq inFlight,
             UNCHANGED <<pool, starts>>
      PROVE  TypeOK'
  BY <1>2 DEF Typed
<1>3. ASSUME NEW what \in {"lost"} \cup Answered, Reply(w, what) PROVE Typed'
  BY <1>1, <1>3 DEF Reply, Told, Goes, Typed
<1>4. ASSUME NEW upstreams \in Seq(STRING), NEW split \in BOOLEAN, Forwards(w, upstreams, split),
             UNCHANGED told
      PROVE  Typed'
  BY <1>1, <1>4 DEF Forwards, Typed, Jobs, Places
<1>5. ASSUME NEW place \in Places, worker' = [worker EXCEPT ![w].at = place], UNCHANGED told
      PROVE  Typed'
  BY <1>1, <1>5 DEF Typed, Jobs
<1>6. CASE Check(w)
  BY <1>1, <1>2, <1>6 DEF Check, Goes, Typed
<1>7. CASE LockReceiver(w)
  BY <1>7 DEF LockReceiver
<1>8. CASE TakeJob(w)
  <2>1. Head(queue) \in Queries /\ Tail(queue) \in Seq(Queries) /\ Len(Tail(queue)) <= QueueSize
    BY <1>8, Tails DEF TakeJob
  <2>2. worker' \in [Workers -> Jobs]
    BY <1>1, <1>8, <2>1 DEF TakeJob, Jobs, At, Places
  <2> QED
    BY <1>8, <2>1, <2>2 DEF TakeJob
<1>9. CASE ReceiveTimesOut(w)
  BY <1>1, <1>9 DEF ReceiveTimesOut, Goes
<1>10. CASE Decide(w)
  <2>1. Typed'
    BY <1>3, <1>4, <1>10 DEF Decide, Answered
  <2> QED
    BY <1>2, <1>10, <2>1 DEF Decide
<1>11. CASE UpstreamResolves(w)
  BY <1>2, <1>3, <1>11 DEF UpstreamResolves, Answered
<1>12. CASE UpstreamRefuses(w) \/ UpstreamTimesOut(w) \/ UpstreamUnreachable(w)
  <2>1. worker[w].todo # <<>> => Tail(worker[w].todo) \in Seq(STRING)
    BY <1>1, Tails DEF Jobs
  <2>2. ASSUME NEW todo \in Seq(STRING), NEW negative \in BOOLEAN
        PROVE  [worker[w] EXCEPT !.todo = todo, !.negative = negative] \in Jobs
               /\ [worker[w] EXCEPT !.todo = todo] \in Jobs
    BY <1>1 DEF Jobs
  <2>3. CASE UpstreamRefuses(w)
    <3>1. worker' = [worker EXCEPT ![w] =
                       [worker[w] EXCEPT !.todo = Tail(worker[w].todo), !.negative = TRUE]]
      BY <2>3 DEF UpstreamRefuses
    <3>2. worker'[w] \in Jobs
      BY <2>1, <2>2, <2>3, <3>1 DEF UpstreamRefuses
    <3> QED
      BY <1>2, <2>3, <3>1, <3>2 DEF UpstreamRefuses, Typed
  <2>4. CASE UpstreamTimesOut(w)
    <3>1. worker' = [worker EXCEPT ![w] = [worker[w] EXCEPT !.todo = Tail(worker[w].todo)]]
      BY <2>4 DEF UpstreamTimesOut
    <3>2. worker'[w] \in Jobs
      BY <2>1, <2>2, <2>4, <3>1 DEF UpstreamTimesOut
    <3> QED
      BY <1>2, <2>4, <3>1, <3>2 DEF UpstreamTimesOut, Typed
  <2>5. CASE UpstreamUnreachable(w)
    <3>1. worker' = [worker EXCEPT ![w] =
                       [worker[w] EXCEPT !.todo = <<>>, !.negative = FALSE]]
      BY <2>5 DEF UpstreamUnreachable
    <3>2. [worker[w] EXCEPT !.todo = <<>>, !.negative = FALSE] \in Jobs
      <4>1. <<>> \in Seq(STRING)
        OBVIOUS
      <4> QED
        BY <2>2, <4>1, Zenon
    <3> QED
      BY <1>2, <2>5, <3>1, <3>2 DEF UpstreamUnreachable, Typed
  <2> QED
    BY <1>12, <2>3, <2>4, <2>5
<1>13. CASE UpstreamsExhausted(w)
  <2>1. CASE worker[w].split
    BY <1>2, <1>4, <1>13, <2>1 DEF UpstreamsExhausted
  <2>2. CASE ~worker[w].split /\ Fallback
    BY <1>2, <1>5, <1>13, <2>2 DEF UpstreamsExhausted, Places
  <2>3. CASE ~worker[w].split /\ ~Fallback
    BY <1>2, <1>3, <1>13, <2>3 DEF UpstreamsExhausted, Answered
  <2> QED
    BY <2>1, <2>2, <2>3
<1>14. CASE AskSystem(w)
  <2>1. worker[w].query \in Queries
    BY <1>1, <1>14 DEF AskSystem, WorkersFit, Idle, Jobs
  <2>2. CASE NameOf[worker[w].query] \in inFlight
    BY <1>2, <1>3, <1>14, <2>2 DEF AskSystem, Unresolved, Answered
  <2>3. CASE NameOf[worker[w].query] \notin inFlight
    BY <1>2, <1>5, <1>14, <2>1, <2>3 DEF AskSystem, Places
  <2> QED
    BY <2>2, <2>3
<1>15. CASE NotAnAddress(w)
  BY <1>2, <1>3, <1>15 DEF NotAnAddress, Unresolved, Answered
<1>16. CASE SystemResolves(w)
  BY <1>2, <1>3, <1>16 DEF SystemResolves, Answered
<1>17. CASE SystemDoesNot(w)
  BY <1>2, <1>3, <1>17 DEF SystemDoesNot, Unresolved, Answered
<1> QED
  BY <1>6, <1>7, <1>8, <1>9, <1>10, <1>11, <1>12, <1>13, <1>14, <1>15, <1>16, <1>17 DEF Worker

-----------------------------------------------------------------------------
(* What becomes of a worker and its query.                                 *)

LEMMA HasQuery ==
  ASSUME TypeOK, WorkersFit, NEW w \in Workers, worker[w].at \notin Idle
  PROVE  worker[w].query \in Queries
BY DEF TypeOK, WorkersFit, Jobs

LEMMA IdleHasNone ==
  ASSUME TypeOK, WorkersFit, NEW w \in Workers, worker[w].at \in Idle
  PROVE  worker[w].query = Nothing /\ worker[w].query \notin Queries
BY QueriesAssumption DEF TypeOK, WorkersFit, Nothing

\* Every step of a worker takes a query, is done with one, or does neither.
LEMMA WorkerSteps ==
  ASSUME TypeOK, WorkersFit, NEW w \in Workers, Worker(w)
  PROVE  /\ TakeJob(w) \/ (Keeps(w) /\ UNCHANGED queue) \/ (Replies(w) /\ UNCHANGED queue)
         /\ UNCHANGED <<kind, stop, listener, hand, socket, starts>>
         /\ worker[w].at # "ended"
<1> USE DEF pool
<1>1. worker \in [Workers -> Jobs]
  BY DEF TypeOK
<1>2. worker[w].at \in Forwarded => kind[worker[w].query] \in {"safe", "split", "plain"}
  BY DEF WorkersFit, Forwarded
<1>3. ASSUME NEW what \in Answered \cup {"lost"}, Reply(w, what), worker[w].at \notin Idle,
             what = "lost" \/ (what = "nxdomain" <=> kind[worker[w].query] = "blocked")
      PROVE  Replies(w)
  <2>1. worker'[w] = At("check") /\ \A v \in Workers \ {w} : worker'[v] = worker[v]
    BY <1>1, <1>3 DEF Reply, Goes
  <2>2. told' = [told EXCEPT ![worker[w].query] = what]
    BY <1>3 DEF Reply, Told
  <2> QED
    BY <1>3, <2>1, <2>2, HasQuery DEF Replies
<1>4. ASSUME NEW what \in {"address", "negative", "lost"}, Reply(w, what),
             worker[w].at \in Forwarded
      PROVE  Replies(w)
  BY <1>2, <1>3, <1>4 DEF Answered, Forwarded, Idle
<1>5. ASSUME NEW place \in Idle, worker[w].at \in Idle, Goes(w, place), UNCHANGED told
      PROVE  Keeps(w)
  <2>1. worker'[w] = At(place) /\ \A v \in Workers \ {w} : worker'[v] = worker[v]
    BY <1>1, <1>5 DEF Goes
  <2>2. worker'[w].query = Nothing /\ worker'[w].at = place /\ worker[w].query = Nothing
    BY <1>5, <2>1, IdleHasNone DEF At
  <2> QED
    BY <1>5, <2>1, <2>2 DEF Keeps, Idle, Forwarded
<1>6. ASSUME NEW job, worker' = [worker EXCEPT ![w] = job], job.query = worker[w].query,
             worker[w].at \notin Idle, job.at \in Forwarded, UNCHANGED told,
             kind[worker[w].query] \in {"safe", "split", "plain"}
      PROVE  Keeps(w)
  <2>1. worker'[w] = job /\ \A v \in Workers \ {w} : worker'[v] = worker[v]
    BY <1>1, <1>6
  <2> QED
    BY <1>6, <2>1 DEF Keeps, Idle, Forwarded
<1>7. ASSUME NEW upstreams, NEW split, Forwards(w, upstreams, split), UNCHANGED told,
             worker[w].at \notin Idle, kind[worker[w].query] \in {"safe", "split", "plain"}
      PROVE  Keeps(w)
  <2> DEFINE job == [worker[w] EXCEPT !.at = "forward", !.todo = upstreams,
                                      !.split = split, !.negative = FALSE]
  <2>1. worker' = [worker EXCEPT ![w] = job]
    BY <1>7 DEF Forwards
  <2>2. job.query = worker[w].query /\ job.at = "forward"
    BY <1>1 DEF Jobs
  <2> QED
    BY <1>6, <1>7, <2>1, <2>2 DEF Forwarded
<1>8. ASSUME NEW place \in Forwarded, worker' = [worker EXCEPT ![w].at = place], UNCHANGED told,
             worker[w].at \in Forwarded
      PROVE  Keeps(w)
  <2> DEFINE job == [worker[w] EXCEPT !.at = place]
  <2>1. worker' = [worker EXCEPT ![w] = job]
    BY <1>8
  <2>2. job.query = worker[w].query /\ job.at = place
    BY <1>1 DEF Jobs
  <2> QED
    BY <1>2, <1>6, <1>8, <2>1, <2>2 DEF Forwarded, Idle
<1>9. ASSUME NEW todo, NEW negative, UNCHANGED told, worker[w].at = "forward",
             \/ worker' = [worker EXCEPT ![w] = [worker[w] EXCEPT !.todo = todo]]
             \/ worker' = [worker EXCEPT ![w] = [worker[w] EXCEPT !.todo = todo,
                                                                  !.negative = negative]]
      PROVE  Keeps(w)
  <2>1. /\ [worker[w] EXCEPT !.todo = todo].query = worker[w].query
        /\ [worker[w] EXCEPT !.todo = todo].at = "forward"
    BY <1>1, <1>9 DEF Jobs
  <2>2. /\ [worker[w] EXCEPT !.todo = todo, !.negative = negative].query = worker[w].query
        /\ [worker[w] EXCEPT !.todo = todo, !.negative = negative].at = "forward"
    BY <1>1, <1>9 DEF Jobs
  <2> QED
    BY <1>2, <1>6, <1>9, <2>1, <2>2 DEF Forwarded, Idle
<1>10. CASE Check(w)
  BY <1>5, <1>10 DEF Check, Idle
<1>11. CASE LockReceiver(w)
  <2>1. worker[w].at = "receive" /\ UNCHANGED <<worker, told, queue>>
    BY <1>11 DEF LockReceiver
  <2>2. Keeps(w)
    BY <2>1 DEF Keeps, Forwarded
  <2> QED
    BY <1>11, <2>1, <2>2 DEF LockReceiver
<1>12. CASE TakeJob(w)
  BY <1>12 DEF TakeJob
<1>13. CASE ReceiveTimesOut(w)
  BY <1>5, <1>13 DEF ReceiveTimesOut, Idle
<1>14. CASE Decide(w)
  BY <1>3, <1>7, <1>14 DEF Decide, Answered, Idle
<1>15. CASE UpstreamResolves(w)
  BY <1>4, <1>15 DEF UpstreamResolves, Forwarded
<1>16. CASE UpstreamRefuses(w)
  <2>1. worker' = [worker EXCEPT ![w] =
                     [worker[w] EXCEPT !.todo = Tail(worker[w].todo), !.negative = TRUE]]
    BY <1>16 DEF UpstreamRefuses
  <2>2. UNCHANGED <<pool, told, starts>> /\ worker[w].at = "forward"
    BY <1>16 DEF UpstreamRefuses
  <2> QED
    BY <1>9, <2>1, <2>2
<1>17. CASE UpstreamTimesOut(w)
  <2>1. worker' = [worker EXCEPT ![w] = [worker[w] EXCEPT !.todo = Tail(worker[w].todo)]]
    BY <1>17 DEF UpstreamTimesOut
  <2>2. UNCHANGED <<pool, told, starts>> /\ worker[w].at = "forward"
    BY <1>17 DEF UpstreamTimesOut
  <2> QED
    BY <1>9, <2>1, <2>2
<1>18. CASE UpstreamUnreachable(w)
  <2>1. worker' = [worker EXCEPT ![w] = [worker[w] EXCEPT !.todo = <<>>, !.negative = FALSE]]
    BY <1>18 DEF UpstreamUnreachable
  <2>2. UNCHANGED <<pool, told, starts>> /\ worker[w].at = "forward"
    BY <1>18 DEF UpstreamUnreachable
  <2> QED
    BY <1>9, <2>1, <2>2
<1>19. CASE UpstreamsExhausted(w)
  <2>1. worker[w].at = "forward" /\ UNCHANGED <<pool, starts>>
    BY <1>19 DEF UpstreamsExhausted
  <2>2. CASE worker[w].split
    BY <1>2, <1>7, <1>19, <2>1, <2>2 DEF UpstreamsExhausted, Forwarded, Idle
  <2>3. CASE ~worker[w].split /\ Fallback
    BY <1>8, <1>19, <2>1, <2>3 DEF UpstreamsExhausted, Forwarded
  <2>4. CASE ~worker[w].split /\ ~Fallback
    BY <1>4, <1>19, <2>1, <2>4 DEF UpstreamsExhausted, Forwarded
  <2> QED
    BY <2>2, <2>3, <2>4
<1>20. CASE AskSystem(w)
  <2>1. worker[w].at = "ask" /\ UNCHANGED <<pool, starts>>
    BY <1>20 DEF AskSystem
  <2>2. CASE NameOf[worker[w].query] \in inFlight
    BY <1>4, <1>20, <2>1, <2>2 DEF AskSystem, Unresolved, Forwarded
  <2>3. CASE NameOf[worker[w].query] \notin inFlight
    BY <1>8, <1>20, <2>1, <2>3 DEF AskSystem, Forwarded
  <2> QED
    BY <2>2, <2>3
<1>21. CASE NotAnAddress(w)
  BY <1>4, <1>21 DEF NotAnAddress, Unresolved, Forwarded
<1>22. CASE SystemResolves(w)
  BY <1>4, <1>22 DEF SystemResolves, Forwarded
<1>23. CASE SystemDoesNot(w)
  BY <1>4, <1>23 DEF SystemDoesNot, Unresolved, Forwarded
<1> QED
  BY <1>10, <1>11, <1>12, <1>13, <1>14, <1>15, <1>16, <1>17, <1>18, <1>19, <1>20, <1>21,
     <1>22, <1>23 DEF Worker

\* What a step of a worker does to the names in flight.
Rests(w) == UNCHANGED inFlight /\ worker[w].at # "resolve" /\ worker'[w].at # "resolve"

TakesOff(w) ==
  /\ worker[w].at = "ask" /\ worker'[w].at = "resolve"
  /\ worker'[w].query = worker[w].query
  /\ NameOf[worker[w].query] \notin inFlight
  /\ inFlight' = inFlight \cup {NameOf[worker[w].query]}

Lands(w) ==
  /\ worker[w].at = "resolve" /\ worker'[w].at # "resolve"
  /\ inFlight' = inFlight \ {NameOf[worker[w].query]}

LEMMA WorkerFlights ==
  ASSUME TypeOK, WorkersFit, NEW w \in Workers, Worker(w)
  PROVE  /\ Rests(w) \/ TakesOff(w) \/ Lands(w)
         /\ \A v \in Workers \ {w} : worker'[v] = worker[v]
<1>1. worker \in [Workers -> Jobs]
  BY DEF TypeOK
<1>2. \A v \in Workers \ {w} : worker'[v] = worker[v]
  BY <1>1, WorkerSteps DEF Keeps, Replies, TakeJob
<1>3. ASSUME NEW what, Reply(w, what) PROVE worker'[w].at = "check"
  BY <1>1, <1>3 DEF Reply, Goes, At
<1>4. ASSUME NEW place, worker' = [worker EXCEPT ![w].at = place]
      PROVE  worker'[w].at = place /\ worker'[w].query = worker[w].query
  <2>1. worker'[w] = [worker[w] EXCEPT !.at = place]
    BY <1>1, <1>4
  <2> QED
    BY <1>1, <2>1 DEF Jobs
<1>5. ASSUME NEW upstreams, NEW split, Forwards(w, upstreams, split)
      PROVE  worker'[w].at = "forward"
  <2>1. worker'[w] = [worker[w] EXCEPT !.at = "forward", !.todo = upstreams,
                                       !.split = split, !.negative = FALSE]
    BY <1>1, <1>5 DEF Forwards
  <2> QED
    BY <1>1, <2>1 DEF Jobs
<1>6. CASE Check(w)
  <2>1. worker'[w].at # "resolve"
    BY <1>1, <1>6 DEF Check, Goes, At
  <2> QED
    BY <1>2, <1>6, <2>1 DEF Check, Rests
<1>7. CASE LockReceiver(w)
  BY <1>2, <1>7 DEF LockReceiver, Rests
<1>8. CASE TakeJob(w)
  <2>1. worker'[w].at = "decide"
    <3>1. worker'[w] = [At("decide") EXCEPT !.query = Head(queue)]
      BY <1>1, <1>8 DEF TakeJob
    <3> QED
      BY <3>1 DEF At
  <2> QED
    BY <1>2, <1>8, <2>1 DEF TakeJob, Rests
<1>9. CASE ReceiveTimesOut(w)
  <2>1. worker'[w].at = "check"
    BY <1>1, <1>9 DEF ReceiveTimesOut, Goes, At
  <2> QED
    BY <1>2, <1>9, <2>1 DEF ReceiveTimesOut, Rests
<1>10. CASE Decide(w)
  BY <1>2, <1>3, <1>5, <1>10 DEF Decide, Rests
<1>11. CASE UpstreamResolves(w)
  BY <1>2, <1>3, <1>11 DEF UpstreamResolves, Rests
<1>12. CASE UpstreamRefuses(w) \/ UpstreamTimesOut(w) \/ UpstreamUnreachable(w)
  <2>1. worker[w].at = "forward" /\ UNCHANGED inFlight
    BY <1>12 DEF UpstreamRefuses, UpstreamTimesOut, UpstreamUnreachable
  <2>2. worker'[w].at = "forward"
    <3>1. CASE UpstreamRefuses(w)
      <4>1. worker'[w] = [worker[w] EXCEPT !.todo = Tail(worker[w].todo), !.negative = TRUE]
        BY <1>1, <3>1 DEF UpstreamRefuses
      <4> QED
        BY <1>1, <2>1, <4>1 DEF Jobs
    <3>2. CASE UpstreamTimesOut(w)
      <4>1. worker'[w] = [worker[w] EXCEPT !.todo = Tail(worker[w].todo)]
        BY <1>1, <3>2 DEF UpstreamTimesOut
      <4> QED
        BY <1>1, <2>1, <4>1 DEF Jobs
    <3>3. CASE UpstreamUnreachable(w)
      <4>1. worker'[w] = [worker[w] EXCEPT !.todo = <<>>, !.negative = FALSE]
        BY <1>1, <3>3 DEF UpstreamUnreachable
      <4> QED
        BY <1>1, <2>1, <4>1 DEF Jobs
    <3> QED
      BY <1>12, <3>1, <3>2, <3>3
  <2> QED
    BY <1>2, <2>1, <2>2 DEF Rests
<1>13. CASE UpstreamsExhausted(w)
  BY <1>2, <1>3, <1>4, <1>5, <1>13 DEF UpstreamsExhausted, Rests
<1>14. CASE AskSystem(w)
  <2>1. CASE NameOf[worker[w].query] \in inFlight
    BY <1>2, <1>3, <1>14, <2>1 DEF AskSystem, Unresolved, Rests
  <2>2. CASE NameOf[worker[w].query] \notin inFlight
    BY <1>2, <1>4, <1>14, <2>2 DEF AskSystem, TakesOff
  <2> QED
    BY <2>1, <2>2
<1>15. CASE NotAnAddress(w)
  BY <1>2, <1>3, <1>15 DEF NotAnAddress, Unresolved, Rests
<1>16. CASE SystemResolves(w)
  BY <1>2, <1>3, <1>16 DEF SystemResolves, Lands
<1>17. CASE SystemDoesNot(w)
  BY <1>2, <1>3, <1>17 DEF SystemDoesNot, Unresolved, Lands
<1> QED
  BY <1>6, <1>7, <1>8, <1>9, <1>10, <1>11, <1>12, <1>13, <1>14, <1>15, <1>16, <1>17 DEF Worker

-----------------------------------------------------------------------------
(* The other parts of the invariant.                                       *)

LEMMA WorkersKeepIt ==
  ASSUME IInv, NEW w \in Workers, Worker(w)
  PROVE  WorkersFit' /\ OffIsIdle' /\ OneOwner'
<1> USE DEF IInv
<1>1. \A v \in Workers \ {w} : worker'[v] = worker[v]
  BY WorkerFlights
<1>2. worker \in [Workers -> Jobs] /\ kind' = kind
  BY WorkerSteps DEF TypeOK
<1>3. WorkersFit'
  <2>1. worker'[w].at \in Idle <=> worker'[w].query = Nothing
    <3>1. CASE TakeJob(w)
      <4>1. Head(queue) \in Queries /\ Head(queue) # Nothing
        BY <3>1, Tails, QueriesAssumption DEF TypeOK, TakeJob, Nothing
      <4>2. worker'[w] = [At("decide") EXCEPT !.query = Head(queue)]
        BY <1>2, <3>1 DEF TakeJob
      <4> QED
        BY <4>1, <4>2 DEF At, Idle
    <3>2. CASE Keeps(w)
      BY <3>2 DEF Keeps, WorkersFit
    <3>3. CASE Replies(w)
      BY <3>3 DEF Replies, At, Idle
    <3> QED
      BY <3>1, <3>2, <3>3, WorkerSteps
  <2>2. worker'[w].at \in Forwarded => kind[worker'[w].query] \in {"safe", "split", "plain"}
    <3>1. CASE TakeJob(w)
      <4>1. worker'[w] = [At("decide") EXCEPT !.query = Head(queue)]
        BY <1>2, <3>1 DEF TakeJob
      <4> QED
        BY <4>1 DEF At, Forwarded
    <3>2. CASE Keeps(w)
      BY <3>2 DEF Keeps
    <3>3. CASE Replies(w)
      BY <3>3 DEF Replies, At, Forwarded
    <3> QED
      BY <3>1, <3>2, <3>3, WorkerSteps
  <2> QED
    BY <1>1, <1>2, <2>1, <2>2 DEF WorkersFit, Forwarded
<1>4. OffIsIdle'
  BY WorkerSteps DEF OffIsIdle
<1>5. OneOwner'
  <2>1. CASE Rests(w)
    <3>1. \A v \in Workers : \A name : Resolves(v, name)' <=> Resolves(v, name)
      BY <1>1, <2>1 DEF Rests, Resolves
    <3>2. \A v \in Workers : worker'[v].at = "resolve" =>
            worker[v].at = "resolve" /\ worker'[v] = worker[v]
      BY <1>1, <2>1 DEF Rests
    <3> QED
      BY <2>1, <3>1, <3>2 DEF OneOwner, Rests
  <2>2. CASE TakesOff(w)
    BY <1>1, <2>2 DEF OneOwner, TakesOff, Resolves
  <2>3. CASE Lands(w)
    BY <1>1, <2>3 DEF OneOwner, Lands, Resolves
  <2> QED
    BY <2>1, <2>2, <2>3, WorkerFlights
<1> QED
  BY <1>3, <1>4, <1>5

LEMMA OutsideKeepsIt ==
  ASSUME IInv, Start \/ Stop \/ (\E q \in Queries : Send(q)) \/ Listener
  PROVE  WorkersFit' /\ OffIsIdle' /\ OneOwner'
<1> USE DEF IInv
<1>1. CASE Start
  <2>1. \A w \in Workers : worker[w].at = "ended" /\ worker'[w] = At("check")
    BY <1>1 DEF Start, OffIsIdle
  <2>2. inFlight = {} /\ inFlight' = {} /\ listener' = "receiving"
    BY <1>1, <2>1 DEF Start, OneOwner, Resolves
  <2> QED
    BY <2>1, <2>2 DEF WorkersFit, OffIsIdle, OneOwner, Resolves, At, Idle
<1>2. ASSUME UNCHANGED <<worker, kind, inFlight>> PROVE WorkersFit' /\ OneOwner'
  <2>1. WorkersFit'
    BY <1>2 DEF WorkersFit
  <2>2. OneOwner'
    BY <1>2 DEF OneOwner, Resolves
  <2> QED
    BY <2>1, <2>2
<1>3. ASSUME Stop \/ (\E q \in Queries : Send(q)) \/ Listener
      PROVE  UNCHANGED <<worker, kind, inFlight>>
  BY <1>3 DEF Stop, Send, Listener, Receive, AnswerHealth, Enqueue, DropJob, Close, Join
<1>4. ASSUME Stop \/ (\E q \in Queries : Send(q)) \/ Listener
      PROVE  OffIsIdle'
  <2>1. CASE Stop \/ Receive \/ AnswerHealth \/ Enqueue \/ DropJob
    BY <2>1 DEF OffIsIdle, Stop, Receive, AnswerHealth, Enqueue, DropJob, Received
  <2>2. CASE \E q \in Queries : Send(q)
    BY <2>2 DEF OffIsIdle, Send
  <2>3. CASE Close
    BY <2>3 DEF OffIsIdle, Close
  <2>4. CASE Join
    <3>1. \A q \in Queries : told'[q] # "pending"
      BY <2>4 DEF Join
    <3> QED
      BY <2>4, <3>1 DEF OffIsIdle, Join
  <2> QED
    BY <1>4, <2>1, <2>2, <2>3, <2>4 DEF Listener
<1> QED
  BY <1>1, <1>2, <1>3, <1>4

LEMMA WorkersKeepPlaces ==
  ASSUME IInv, NEW w \in Workers, Worker(w)
  PROVE  InOnePlace'
<1> USE DEF IInv
<1>1. UNCHANGED <<hand, socket>> /\ \A v \in Workers \ {w} : worker'[v] = worker[v]
  BY WorkerSteps, WorkerFlights
<1>2. \A q \in Queries : InSocket(q)' <=> InSocket(q)
  BY <1>1 DEF InSocket
<1>3. CASE Keeps(w) /\ UNCHANGED queue
  <2>1. told' = told /\ \A v \in Workers : worker'[v].query = worker[v].query
    BY <1>3 DEF Keeps
  <2>2. \A q \in Queries : With(q)' <=> With(q)
    BY <2>1 DEF With
  <2>3. \A q \in Queries : InQueue(q)' <=> InQueue(q)
    BY <1>3 DEF InQueue
  <2> QED
    BY <1>1, <1>2, <1>3, <2>1, <2>2, <2>3 DEF InOnePlace
<1>4. CASE Replies(w) /\ UNCHANGED queue
  <2> DEFINE mine == worker[w].query
  <2>1. mine \in Queries /\ With(mine)
    BY <1>4 DEF Replies, With
  <2>2. worker'[w].query \notin Queries
    BY <1>4, QueriesAssumption DEF Replies, At, Nothing
  <2>3. \A q \in Queries : With(q)' => With(q) /\ q # mine
    BY <1>1, <2>1, <2>2 DEF With, InOnePlace
  <2>4. \A q \in Queries : InQueue(q)' <=> InQueue(q)
    BY <1>4 DEF InQueue
  <2>5. \A q \in Queries : InSocket(q) \/ hand = q \/ InQueue(q) => q # mine
    BY <2>1 DEF InOnePlace
  <2>6. \A q \in Queries : q # mine => told'[q] = told[q]
    BY <1>4 DEF Replies, TypeOK
  <2>7. \A u, v \in Workers :
          worker'[u].query = worker'[v].query /\ worker'[u].query \in Queries => u = v
    BY <1>1, <2>2 DEF InOnePlace
  <2> QED
    BY <1>1, <1>2, <1>4, <2>3, <2>4, <2>5, <2>6, <2>7 DEF InOnePlace
<1>5. CASE TakeJob(w)
  <2> DEFINE mine == queue[1]
  <2>1. queue' = Tail(queue) /\ queue # <<>> /\ told' = told /\ worker[w].at = "receive"
        /\ worker' = [worker EXCEPT ![w] = [At("decide") EXCEPT !.query = Head(queue)]]
    BY <1>5 DEF TakeJob
  <2>2. Head(queue) = mine /\ mine \in Queries /\ InQueue(mine)
    BY <2>1, Tails DEF TypeOK, InQueue
  <2>3. \A i \in DOMAIN queue' : i + 1 \in DOMAIN queue /\ queue'[i] = queue[i + 1]
                                 /\ i \in Nat /\ i + 1 # 1
    BY <2>1, Tails DEF TypeOK
  <2>4. \A q \in Queries : InQueue(q)' => InQueue(q) /\ q # mine
    <3>1. 1 \in DOMAIN queue
      BY <2>1, Tails DEF TypeOK
    <3> QED
      BY <2>3, <3>1 DEF InQueue, InOnePlace
  <2>5. \A i, j \in DOMAIN queue' : queue'[i] = queue'[j] => i = j
    BY <2>3 DEF InOnePlace
  <2>6. worker'[w].query = mine
    <3>1. worker'[w] = [At("decide") EXCEPT !.query = mine]
      BY <2>1, <2>2 DEF TypeOK
    <3> QED
      BY <3>1 DEF At
  <2>7. \A q \in Queries : With(q)' => With(q) \/ q = mine
    BY <1>1, <2>6 DEF With
  <2>8. ~With(mine)
    BY <2>2 DEF InOnePlace
  <2>9. \A u, v \in Workers :
          worker'[u].query = worker'[v].query /\ worker'[u].query \in Queries => u = v
    BY <1>1, <2>6, <2>8 DEF InOnePlace, With
  <2> QED
    BY <1>1, <1>2, <2>1, <2>2, <2>4, <2>5, <2>7, <2>9 DEF InOnePlace
<1> QED
  BY <1>3, <1>4, <1>5, WorkerSteps

LEMMA OutsideKeepsPlaces ==
  ASSUME IInv, Start \/ Stop \/ (\E q \in Queries : Send(q)) \/ Listener
  PROVE  InOnePlace'
<1> USE DEF IInv
<1>1. Wake \notin Queries /\ Nothing \notin Queries
  BY QueriesAssumption DEF Wake, Nothing
<1>2. ASSUME UNCHANGED worker
      PROVE  /\ \A q : With(q)' <=> With(q)
             /\ \A u, v \in Workers :
                  worker'[u].query = worker'[v].query /\ worker'[u].query \in Queries => u = v
  BY <1>2 DEF With, InOnePlace
<1>3. ASSUME UNCHANGED queue
      PROVE  /\ \A q : InQueue(q)' <=> InQueue(q)
             /\ \A i, j \in DOMAIN queue' : queue'[i] = queue'[j] => i = j
  BY <1>3 DEF InQueue, InOnePlace
<1>4. ASSUME UNCHANGED socket
      PROVE  /\ \A q : InSocket(q)' <=> InSocket(q)
             /\ \A i, j \in DOMAIN socket' : socket'[i] = socket'[j] /\ socket'[i] \in Queries => i = j
  BY <1>4 DEF InSocket, InOnePlace
<1>5. ASSUME NEW e \in Queries \cup {Wake}, socket' = Append(socket, e), e = Wake \/ ~InSocket(e)
      PROVE  /\ \A q \in Queries : InSocket(q)' => InSocket(q) \/ q = e
             /\ \A i, j \in DOMAIN socket' : socket'[i] = socket'[j] /\ socket'[i] \in Queries => i = j
  <2>1. /\ DOMAIN socket' = DOMAIN socket \cup {Len(socket) + 1}
        /\ \A i \in DOMAIN socket : socket'[i] = socket[i]
        /\ socket'[Len(socket) + 1] = e
    BY <1>5, Appends DEF TypeOK
  <2> QED
    BY <1>1, <1>5, <2>1 DEF InSocket, InOnePlace
<1>6. CASE Start
  <2>1. DOMAIN socket' = {} /\ DOMAIN queue' = {} /\ hand' = Nothing
    BY <1>6 DEF Start
  <2>2. \A w \in Workers : worker'[w].query = Nothing
    BY <1>6 DEF Start, At
  <2> QED
    BY <1>1, <2>1, <2>2 DEF InOnePlace, InSocket, InQueue, With
<1>7. CASE Stop
  <2>1. UNCHANGED <<worker, queue, hand, told>> /\ socket' = Append(socket, Wake)
    BY <1>7 DEF Stop
  <2> QED
    BY <1>1, <1>2, <1>3, <1>5, <2>1 DEF InOnePlace
<1>8. ASSUME NEW q \in Queries, Send(q) PROVE InOnePlace'
  <2>1. UNCHANGED <<worker, queue, hand>> /\ socket' = Append(socket, q)
    BY <1>8 DEF Send
  <2>2. told[q] = "unsent" /\ told'[q] = "pending" /\ \A p \in Queries \ {q} : told'[p] = told[p]
    BY <1>8 DEF Send, Told, TypeOK
  <2>3. ~InSocket(q) /\ hand # q /\ ~InQueue(q) /\ ~With(q)
    BY <2>2 DEF InOnePlace
  <2> QED
    BY <1>2, <1>3, <1>5, <2>1, <2>2, <2>3 DEF InOnePlace
<1>9. CASE Receive
  <2>1. /\ UNCHANGED <<worker, queue, told>> /\ socket # <<>> /\ socket' = Tail(socket)
        /\ hand' = socket[1] /\ 1 \in DOMAIN socket
    BY <1>9, Tails DEF Receive, TypeOK
  <2>2. \A i \in DOMAIN socket' : i + 1 \in DOMAIN socket /\ socket'[i] = socket[i + 1]
                                  /\ i \in Nat /\ i + 1 # 1
    BY <2>1, Tails DEF TypeOK
  <2>3. \A q \in Queries : InSocket(q)' => InSocket(q) /\ q # hand'
    BY <2>1, <2>2 DEF InSocket, InOnePlace
  <2>4. \A q \in Queries : q = hand' => InSocket(q)
    BY <2>1 DEF InSocket
  <2>5. \A i, j \in DOMAIN socket' : socket'[i] = socket'[j] /\ socket'[i] \in Queries => i = j
    BY <2>2 DEF InOnePlace
  <2> QED
    BY <1>2, <1>3, <2>1, <2>3, <2>4, <2>5 DEF InOnePlace
<1>10. CASE Enqueue
  <2>1. UNCHANGED <<worker, socket, told>> /\ queue' = Append(queue, hand) /\ hand' = Nothing
        /\ hand \in Queries
    BY <1>10 DEF Enqueue
  <2>2. /\ DOMAIN queue' = DOMAIN queue \cup {Len(queue) + 1}
        /\ \A i \in DOMAIN queue : queue'[i] = queue[i]
        /\ queue'[Len(queue) + 1] = hand
    BY <2>1, Appends DEF TypeOK
  <2>3. ~InSocket(hand) /\ ~InQueue(hand) /\ ~With(hand) /\ told[hand] = "pending"
    BY <2>1 DEF InOnePlace
  <2>4. \A q \in Queries : InQueue(q)' => InQueue(q) \/ q = hand
    BY <2>2 DEF InQueue
  <2>5. \A i, j \in DOMAIN queue' : queue'[i] = queue'[j] => i = j
    BY <2>2, <2>3 DEF InOnePlace, InQueue
  <2> QED
    BY <1>1, <1>2, <1>4, <2>1, <2>3, <2>4, <2>5 DEF InOnePlace
<1>11. CASE AnswerHealth \/ DropJob \/ Close
  <2>1. UNCHANGED <<worker, socket, queue>> /\ hand' = Nothing
    BY <1>11 DEF AnswerHealth, DropJob, Close
  <2>2. \A q \in Queries : q # hand => told'[q] = told[q]
    BY <1>11 DEF AnswerHealth, DropJob, Close, Told, TypeOK
  <2> QED
    BY <1>1, <1>2, <1>3, <1>4, <2>1, <2>2 DEF InOnePlace
<1>12. CASE Join
  <2>1. DOMAIN socket' = {} /\ DOMAIN queue' = {} /\ hand' = Nothing
    BY <1>12 DEF Join, OffIsIdle
  <2>2. \A w \in Workers : worker'[w].query = Nothing
    BY <1>12, IdleHasNone DEF Join, Idle
  <2> QED
    BY <1>1, <2>1, <2>2 DEF InOnePlace, InSocket, InQueue, With
<1> QED
  BY <1>6, <1>7, <1>8, <1>9, <1>10, <1>11, <1>12 DEF Listener

-----------------------------------------------------------------------------
LEMMA Induction == IInv /\ [Next]_vars => IInv'
<1> SUFFICES ASSUME IInv, [Next]_vars PROVE IInv'
  OBVIOUS
<1>1. CASE UNCHANGED vars
  <2>1. UNCHANGED <<kind, stop, listener, hand, socket, queue, receiver, worker, inFlight, told, starts>>
    BY <1>1 DEF vars, pool
  <2>2. TypeOK'
    BY <2>1 DEF IInv, TypeOK
  <2>3. WorkersFit' /\ OffIsIdle'
    BY <2>1 DEF IInv, WorkersFit, OffIsIdle
  <2>4. InOnePlace'
    BY <2>1 DEF IInv, InOnePlace, InSocket, InQueue, With
  <2>5. OneOwner'
    BY <2>1 DEF IInv, OneOwner, Resolves
  <2> QED
    BY <2>2, <2>3, <2>4, <2>5 DEF IInv
<1>2. CASE Start \/ Stop \/ (\E q \in Queries : Send(q)) \/ Listener
  BY <1>2, OutsideTyped, OutsideKeepsIt, OutsideKeepsPlaces DEF IInv
<1>3. CASE \E w \in Workers : Worker(w)
  BY <1>3, WorkersTyped, WorkersKeepIt, WorkersKeepPlaces DEF IInv
<1> QED
  BY <1>1, <1>2, <1>3 DEF Next

\* The invariant holds of the filter however it is started, stopped and asked.
THEOREM Invariance == Spec => []IInv
<1>1. Init => IInv
  BY InitSafe
<1>2. IInv /\ [Next]_vars => IInv'
  BY Induction
<1> QED
  BY <1>1, <1>2, PTL DEF Spec

\* Every variable keeps its type; in particular the queue never outgrows the channel,
\* however many queries come (SyncSender of DNS_WORK_QUEUE_SIZE).
THEOREM QueueIsBounded == Spec => []TypeOK
<1>1. IInv => TypeOK
  BY DEF IInv
<1> QED
  BY <1>1, Invariance, PTL

\* A name in flight has one worker that asks the system for it, and no other name has
\* one (system_resolver_addresses), for any number of workers and of restarts.
THEOREM FlightsHaveOwners == Spec => []InFlightHasOwner
<1>1. ASSUME IInv PROVE InFlightHasOwner
  <2> SUFFICES ASSUME NEW name \in {NameOf[q] : q \in Queries}
               PROVE  Cardinality({w \in Workers : Resolves(w, name)})
                        = IF name \in inFlight THEN 1 ELSE 0
    BY DEF InFlightHasOwner, Resolves
  <2>1. CASE name \in inFlight
    <3>1. PICK w \in Workers : Resolves(w, name)
      BY <1>1, <2>1 DEF IInv, OneOwner
    <3>2. {v \in Workers : Resolves(v, name)} = {w}
      BY <1>1, <3>1 DEF IInv, OneOwner, Resolves
    <3> QED
      BY <2>1, <3>2, FS_Singleton
  <2>2. CASE name \notin inFlight
    <3>1. {v \in Workers : Resolves(v, name)} = {}
      BY <1>1, <2>2 DEF IInv, OneOwner, Resolves
    <3> QED
      BY <2>2, <3>1, FS_EmptySet
  <2> QED
    BY <2>1, <2>2
<1> QED
  BY <1>1, Invariance, PTL

-----------------------------------------------------------------------------
(* The filter implements QueryService.                                     *)

LEMMA Statuses ==
  ASSUME NEW q \in Queries
  PROVE  StatusOf(q) = IF told[q] # "pending" THEN told[q]
                       ELSE IF With(q) \/ InQueue(q) THEN "taken" ELSE "sent"
BY DEF StatusOf, With, InQueue

LEMMA Becoming ==
  ASSUME NEW q \in Queries, NEW from, NEW to, StatusOf(q) = from, StatusOf(q)' = to,
         \A p \in Queries \ {q} : StatusOf(p)' = StatusOf(p)
  PROVE  Service!Becomes(q, from, to)
BY DEF Service!Becomes

Stands == \A q \in Queries : StatusOf(q)' = StatusOf(q)

LEMMA Losing ==
  ASSUME \A q \in Queries : \/ StatusOf(q)' = StatusOf(q)
                            \/ StatusOf(q) \in {"sent", "taken"} /\ StatusOf(q)' = "lost"
  PROVE  Service!Lose \/ Stands
<1> DEFINE gone == {q \in Queries : StatusOf(q)' # StatusOf(q)}
           status == [q \in Queries |-> StatusOf(q)]
<1>1. CASE gone = {}
  BY <1>1 DEF Stands
<1>2. CASE gone # {}
  <2>1. gone \in SUBSET {q \in Queries : status[q] \in {"sent", "taken"}}
    OBVIOUS
  <2>2. status' = [q \in Queries |-> IF q \in gone THEN "lost" ELSE status[q]]
    OBVIOUS
  <2> QED
    BY <1>2, <2>1, <2>2 DEF Service!Lose
<1> QED
  BY <1>1, <1>2

\* A step of the service that leaves the rules alone, or none.
ServiceSteps == Stands \/ Service!Lose
                \/ \E q \in Queries : Service!Send(q) \/ Service!Take(q) \/ Service!Answer(q)
                                      \/ Service!AnswerAtOnce(q)

LEMMA WorkersServe ==
  ASSUME IInv, IInv', NEW w \in Workers, Worker(w)
  PROVE  ServiceSteps
<1> USE DEF IInv
<1>1. \A v \in Workers \ {w} : worker'[v] = worker[v]
  BY WorkerFlights
<1>2. CASE Keeps(w) /\ UNCHANGED queue
  <2>1. told' = told /\ \A q \in Queries : (With(q)' <=> With(q)) /\ (InQueue(q)' <=> InQueue(q))
    BY <1>2 DEF Keeps, With, InQueue
  <2> QED
    BY <2>1, Statuses DEF ServiceSteps, Stands, StatusOf, With, InQueue
<1>3. CASE TakeJob(w)
  <2>1. queue' = Tail(queue) /\ queue # <<>> /\ told' = told /\ worker[w].at = "receive"
        /\ worker' = [worker EXCEPT ![w] = [At("decide") EXCEPT !.query = Head(queue)]]
    BY <1>3 DEF TakeJob
  <2>2. Head(queue) = queue[1]
    BY <2>1, Tails DEF TypeOK
  <2>3. worker'[w].query = queue[1]
    <3>1. worker'[w] = [At("decide") EXCEPT !.query = queue[1]]
      BY <2>1, <2>2 DEF TypeOK
    <3> QED
      BY <3>1 DEF At
  <2>4. worker[w].query \notin Queries
    BY <2>1, IdleHasNone DEF Idle
  <2>5. DOMAIN queue' = {i \in Nat : i + 1 \in DOMAIN queue /\ i # 0}
        /\ \A i \in DOMAIN queue' : queue'[i] = queue[i + 1]
    BY <2>1 DEF TypeOK
  <2>6. \A i \in DOMAIN queue : i = 1 \/ (i - 1 \in DOMAIN queue' /\ queue'[i - 1] = queue[i])
    BY <2>1 DEF TypeOK
  <2>7. \A q \in Queries : InQueue(q)' \/ With(q)' <=> InQueue(q) \/ With(q)
    <3>1. ASSUME NEW q \in Queries, InQueue(q) PROVE InQueue(q)' \/ With(q)'
      BY <2>3, <2>6, <3>1 DEF InQueue, With
    <3>2. ASSUME NEW q \in Queries, With(q) PROVE With(q)'
      BY <1>1, <2>4, <3>2 DEF With
    <3>3. ASSUME NEW q \in Queries, InQueue(q)' PROVE InQueue(q)
      BY <2>5, <3>3 DEF InQueue
    <3>4. ASSUME NEW q \in Queries, With(q)' PROVE InQueue(q) \/ With(q)
      <4>1. 1 \in DOMAIN queue
        BY <2>1, Tails DEF TypeOK
      <4> QED
        BY <1>1, <2>3, <3>4, <4>1 DEF InQueue, With
    <3> QED
      BY <3>1, <3>2, <3>3, <3>4
  <2> QED
    BY <2>1, <2>7 DEF ServiceSteps, Stands, StatusOf, With, InQueue
<1>4. CASE Replies(w) /\ UNCHANGED queue
  <2>1. PICK mine \in Queries : mine = worker[w].query
    BY <1>4 DEF Replies
  <2>2. PICK what \in Answered \cup {"lost"} :
          /\ told' = [told EXCEPT ![mine] = what]
          /\ what = "lost" \/ (what = "nxdomain" <=> kind[mine] = "blocked")
    BY <1>4, <2>1 DEF Replies
  <2>3. With(mine) /\ told[mine] = "pending"
    BY <1>4, <2>1 DEF With, InOnePlace
  <2>4. told'[mine] = what /\ \A q \in Queries \ {mine} : told'[q] = told[q]
    BY <2>2, <2>3 DEF TypeOK
  <2>5. StatusOf(mine) = "taken" /\ StatusOf(mine)' = what
    BY <2>3, <2>4 DEF StatusOf, With, Answered
  <2>6. \A q \in Queries \ {mine} : StatusOf(q)' = StatusOf(q)
    <3>1. worker'[w].query \notin Queries
      BY <1>4, QueriesAssumption DEF Replies, At, Nothing
    <3>2. \A q \in Queries \ {mine} : (With(q)' <=> With(q)) /\ (InQueue(q)' <=> InQueue(q))
      BY <1>1, <1>4, <2>1, <3>1 DEF With, InQueue
    <3> QED
      BY <2>4, <3>2 DEF StatusOf, With, InQueue
  <2>7. CASE what = "lost"
    BY <2>5, <2>6, <2>7, Losing DEF ServiceSteps
  <2>8. CASE what # "lost"
    <3>1. Service!Becomes(mine, "taken", what)
      BY <2>3, <2>5, <2>6, Becoming
    <3>2. what \in Service!Answers
      BY <2>8 DEF Service!Answers, Answered
    <3>3. Service!Fits(mine, what)
      BY <2>2, <2>3, <2>8 DEF Service!Fits
    <3> QED
      BY <2>3, <3>1, <3>2, <3>3 DEF Service!Answer, ServiceSteps
  <2> QED
    BY <2>7, <2>8
<1> QED
  BY <1>2, <1>3, <1>4, WorkerSteps

LEMMA OutsideServes ==
  ASSUME IInv, IInv', Start \/ Stop \/ (\E q \in Queries : Send(q)) \/ Listener
  PROVE  ServiceSteps
<1> USE DEF IInv
<1>1. ASSUME UNCHANGED <<worker, queue>>, NEW q \in Queries, told'[q] = told[q]
      PROVE  StatusOf(q)' = StatusOf(q)
  BY <1>1 DEF StatusOf
<1>2. CASE Start
  BY <1>2 DEF Start, OffIsIdle, StatusOf, ServiceSteps, Stands
<1>3. CASE Stop \/ Receive
  BY <1>1, <1>3 DEF Stop, Receive, ServiceSteps, Stands
<1>4. ASSUME NEW q \in Queries, Send(q) PROVE ServiceSteps
  <2>1. UNCHANGED <<worker, queue>> /\ told[q] = "unsent" /\ told'[q] = "pending"
        /\ \A p \in Queries \ {q} : told'[p] = told[p]
    BY <1>4 DEF Send, Told, TypeOK
  <2>2. ~With(q) /\ ~InQueue(q)
    BY <2>1 DEF InOnePlace
  <2>3. StatusOf(q) = "unsent" /\ StatusOf(q)' = "sent"
    BY <2>1, <2>2 DEF StatusOf, With, InQueue
  <2>4. Service!Send(q)
    BY <1>1, <2>1, <2>3, Becoming DEF Service!Send
  <2> QED
    BY <2>4 DEF ServiceSteps
<1>5. ASSUME NEW q \in Queries, q = hand
      PROVE  StatusOf(q) = "sent" /\ told[q] = "pending" /\ ~With(q) /\ ~InQueue(q)
  BY <1>5 DEF InOnePlace, StatusOf, With, InQueue
<1>6. CASE AnswerHealth
  <2>1. PICK q \in Queries : q = hand
    BY <1>6 DEF AnswerHealth
  <2>2. /\ kind[q] # "blocked" /\ UNCHANGED <<worker, queue>>
        /\ told'[q] = "local" /\ \A p \in Queries \ {q} : told'[p] = told[p]
    BY <1>6, <2>1 DEF AnswerHealth, Told, TypeOK
  <2>3. StatusOf(q)' = "local"
    BY <2>2 DEF StatusOf
  <2>4. Service!Becomes(q, "sent", "local")
    BY <1>1, <1>5, <2>1, <2>2, <2>3, Becoming
  <2>5. Service!AnswerAtOnce(q)
    BY <2>2, <2>4 DEF Service!AnswerAtOnce
  <2> QED
    BY <2>5 DEF ServiceSteps
<1>7. CASE Enqueue
  <2>1. PICK q \in Queries : q = hand
    BY <1>7 DEF Enqueue
  <2>2. UNCHANGED <<worker, told>> /\ queue' = Append(queue, q)
    BY <1>7, <2>1 DEF Enqueue
  <2>3. /\ DOMAIN queue' = DOMAIN queue \cup {Len(queue) + 1}
        /\ \A i \in DOMAIN queue : queue'[i] = queue[i]
        /\ queue'[Len(queue) + 1] = q
    BY <2>2, Appends DEF TypeOK
  <2>4. InQueue(q)' /\ \A p \in Queries \ {q} : InQueue(p)' <=> InQueue(p)
    BY <2>3 DEF InQueue
  <2>5. StatusOf(q)' = "taken"
    BY <1>5, <2>1, <2>2, <2>4 DEF StatusOf, InQueue
  <2>6. \A p \in Queries \ {q} : StatusOf(p)' = StatusOf(p)
    BY <2>2, <2>4 DEF StatusOf, InQueue
  <2>7. Service!Take(q)
    BY <1>5, <2>1, <2>5, <2>6, Becoming DEF Service!Take
  <2> QED
    BY <2>7 DEF ServiceSteps
<1>8. CASE DropJob \/ Close
  <2>1. UNCHANGED <<worker, queue>>
        /\ \A q \in Queries : told'[q] = told[q] \/ (q = hand /\ told'[q] = "lost")
    BY <1>8 DEF DropJob, Close, Told, TypeOK
  <2>2. ASSUME NEW q \in Queries
        PROVE  \/ StatusOf(q)' = StatusOf(q)
               \/ StatusOf(q) \in {"sent", "taken"} /\ StatusOf(q)' = "lost"
    <3>1. CASE told'[q] = told[q]
      BY <1>1, <2>1, <3>1
    <3>2. CASE q = hand /\ told'[q] = "lost"
      BY <1>5, <3>2 DEF StatusOf
    <3> QED
      BY <2>1, <3>1, <3>2
  <2> QED
    BY <2>2, Losing DEF ServiceSteps
<1>9. CASE Join
  <2>1. \A q \in Queries : told'[q] = IF told[q] = "pending" THEN "lost" ELSE told[q]
    BY <1>9 DEF Join
  <2>2. \A q \in Queries : \/ StatusOf(q)' = StatusOf(q)
                           \/ StatusOf(q) \in {"sent", "taken"} /\ StatusOf(q)' = "lost"
    BY <2>1 DEF StatusOf
  <2> QED
    BY <2>2, Losing DEF ServiceSteps
<1> QED
  BY <1>2, <1>3, <1>4, <1>6, <1>7, <1>8, <1>9 DEF Listener

\* The pool of threads does what QueryService promises: at most one answer to a query,
\* none after it was lost, and to a blocked name no other than that there is none.
THEOREM ServiceIsImplemented == Spec => ImplementsService
<1> DEFINE status == [q \in Queries |-> StatusOf(q)]
           blocked == {q \in Queries : kind[q] = "blocked"}
<1>1. Init => Service!Init
  BY DEF Init, Service!Init, StatusOf
<1>2. IInv /\ IInv' /\ [Next]_vars => [Service!Next]_<<blocked, status>>
  <2> SUFFICES ASSUME IInv, IInv', [Next]_vars
               PROVE  Service!Next \/ UNCHANGED <<blocked, status>>
    OBVIOUS
  <2>1. CASE UNCHANGED vars
    BY <2>1 DEF vars, pool, StatusOf
  <2>2. CASE Next
    <3>1. ServiceSteps
      BY <2>2, WorkersServe, OutsideServes DEF Next
    <3>2. kind' = kind
      <4>1. ASSUME NEW w \in Workers, Worker(w) PROVE kind' = kind
        BY <4>1, WorkerSteps DEF IInv
      <4> QED
        BY <2>2, <4>1 DEF Next, Start, Stop, Send, Listener, Receive, AnswerHealth, Enqueue,
                          DropJob, Close, Join
    <3>3. UNCHANGED blocked
      BY <3>2
    <3>4. Stands => UNCHANGED status
      BY DEF Stands
    <3> QED
      BY <3>1, <3>3, <3>4 DEF ServiceSteps, Service!Next
  <2> QED
    BY <2>1, <2>2
<1> QED
  BY <1>1, <1>2, Invariance, PTL DEF Spec, ImplementsService, Service!Spec

================================================================================
