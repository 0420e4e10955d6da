------------------------------- MODULE DnsFilter -------------------------------
(***************************************************************************)
(* The DNS filter of the desktop (dns_filter.rs).  A thread receives       *)
(* queries from a UDP socket and hands them to a pool of workers through a *)
(* bounded queue; a worker answers from the rules, or forwards the query   *)
(* to one upstream after the other, and asks the resolver of the system    *)
(* when they do not help.  Stopping the filter raises a flag and waits for *)
(* all threads; it can be started again.                                   *)
(*                                                                         *)
(* What ProtectionRuntime says of the filter (who may start and stop it,   *)
(* and that it owns the port) is left out here.                            *)
(***************************************************************************)
EXTENDS Naturals, Sequences, FiniteSets

CONSTANTS
  Queries,
  Mixes,       \* what the queries may be: a set of functions [Queries -> Kinds]
  NameOf,      \* [Queries -> names]: the key of the system resolver's lookups
  Workers,     \* DNS_WORKER_COUNT threads
  QueueSize,   \* DNS_WORK_QUEUE_SIZE
  Upstreams,   \* sequence: the DNS servers of the system, then the configured ones
  SplitUpstreams, \* sequence: those of a VPN for its own domains
  Fallback,    \* system_resolver_fallback_enabled
  Nobody,
  MaxStarts    \* bound: starts of the filter

Kinds == {"health", "malformed", "blocked", "safe", "split", "plain"}

ASSUME QueriesAssumption ==
  Mixes \subseteq [Queries -> Kinds] /\ {"wake", "nothing"} \cap Queries = {}
ASSUME PoolAssumption ==
  /\ IsFiniteSet(Workers) /\ Workers # {} /\ Nobody \notin Workers
  /\ QueueSize \in Nat \ {0} /\ MaxStarts \in Nat /\ Fallback \in BOOLEAN
ASSUME UpstreamsAssumption == Upstreams \in Seq(STRING) /\ SplitUpstreams \in Seq(STRING)

VARIABLES
  kind,       \* what each query is; nothing changes it
  stop,       \* the stop flag of the filter
  listener,   \* the receiving thread: off, receiving, joining its workers
  hand,       \* the packet it has received
  socket,     \* packets in the buffer of the socket
  queue,      \* the channel of jobs
  receiver,   \* the worker that holds the mutex of its receiving end
  worker,     \* what each worker is doing
  inFlight,   \* SYSTEM_RESOLVER_FALLBACK_IN_FLIGHT: it outlives the filter
  told,       \* observer: what became of each query
  starts

pool == <<kind, stop, listener, hand, socket, queue, receiver>>
vars == <<pool, worker, inFlight, told, starts>>

Wake == "wake"            \* the packet that stop() sends to itself
Nothing == "nothing"

\* A worker: its place, its query, the upstreams still to be asked, whether they are
\* those of a VPN, and whether one of them has said no.
Places == {"check", "receive", "decide", "forward", "ask", "resolve", "ended"}
Jobs == [at : Places, query : Queries \cup {Nothing}, todo : Seq(STRING),
         split : BOOLEAN, negative : BOOLEAN]
At(place) == [at |-> place, query |-> Nothing, todo |-> <<>>, split |-> FALSE,
              negative |-> FALSE]

Answered == {"local", "nxdomain", "address", "negative"}

TypeOK ==
  /\ kind \in Mixes /\ stop \in BOOLEAN /\ listener \in {"off", "receiving", "joining"}
  /\ hand \in Queries \cup {Nothing, Wake}
  /\ socket \in Seq(Queries \cup {Wake})
  /\ queue \in Seq(Queries) /\ Len(queue) <= QueueSize
  /\ receiver \in Workers \cup {Nobody}
  /\ worker \in [Workers -> Jobs]
  /\ inFlight \subseteq {NameOf[q] : q \in Queries}
  /\ told \in [Queries -> {"unsent", "pending", "lost"} \cup Answered]
  /\ starts \in 0..MaxStarts

Init ==
  /\ kind \in Mixes /\ stop = FALSE /\ listener = "off" /\ hand = Nothing
  /\ socket = <<>> /\ queue = <<>> /\ receiver = Nobody
  /\ worker = [w \in Workers |-> At("ended")]
  /\ inFlight = {}
  /\ told = [q \in Queries |-> "unsent"]
  /\ starts = 0

Told(q, what) == told' = [told EXCEPT ![q] = what]
Goes(w, place) == worker' = [worker EXCEPT ![w] = At(place)]

-----------------------------------------------------------------------------
(* Starting, asking and stopping.                                          *)

\* start_dns_filter, which has stopped the last filter before
Start ==
  /\ listener = "off" /\ starts < MaxStarts /\ starts' = starts + 1
  /\ stop' = FALSE /\ listener' = "receiving" /\ hand' = Nothing
  /\ socket' = <<>> /\ queue' = <<>> /\ receiver' = Nobody
  /\ worker' = [w \in Workers |-> At("check")]
  /\ UNCHANGED <<kind, inFlight, told>>

\* Somebody asks.
Send(q) ==
  /\ told[q] = "unsent" /\ listener # "off"
  /\ socket' = Append(socket, q) /\ Told(q, "pending")
  /\ UNCHANGED <<kind, stop, listener, hand, queue, receiver, worker, inFlight, starts>>

\* DnsFilterHandle::stop: the packet wakes the listener, which would else notice
\* within 250 ms.  Then the caller waits for the listener (see Join).
Stop ==
  /\ listener = "receiving" /\ ~stop
  /\ stop' = TRUE /\ socket' = Append(socket, Wake)
  /\ UNCHANGED <<kind, listener, hand, queue, receiver, worker, inFlight, told, starts>>

-----------------------------------------------------------------------------
(* run_dns_filter: the listener                                            *)

Receive ==
  /\ listener = "receiving" /\ hand = Nothing /\ ~stop /\ socket # <<>>
  /\ hand' = Head(socket) /\ socket' = Tail(socket)
  /\ UNCHANGED <<kind, stop, listener, queue, receiver, worker, inFlight, told, starts>>

Received == listener = "receiving" /\ hand # Nothing /\ ~stop

\* health_check_response_for_packet
AnswerHealth ==
  /\ Received /\ hand \in Queries /\ kind[hand] = "health"
  /\ Told(hand, "local") /\ hand' = Nothing
  /\ UNCHANGED <<kind, stop, listener, socket, queue, receiver, worker, inFlight, starts>>

\* Mutant: a channel without a bound.
EnqueueAlways ==
  /\ Received /\ hand \in Queries /\ kind[hand] # "health"
  /\ queue' = Append(queue, hand) /\ hand' = Nothing
  /\ UNCHANGED <<kind, stop, listener, socket, receiver, worker, inFlight, told, starts>>

Enqueue ==
  /\ Received /\ hand \in Queries /\ kind[hand] # "health" /\ Len(queue) < QueueSize
  /\ queue' = Append(queue, hand) /\ hand' = Nothing
  /\ UNCHANGED <<kind, stop, listener, socket, receiver, worker, inFlight, told, starts>>

\* The queue is full: whoever asked has to ask again.
DropJob ==
  /\ Received /\ hand \in Queries /\ kind[hand] # "health" /\ Len(queue) = QueueSize
  /\ Told(hand, "lost") /\ hand' = Nothing
  /\ UNCHANGED <<kind, stop, listener, socket, queue, receiver, worker, inFlight, starts>>

\* The flag is seen before or after a packet is received; the packet is dropped, and
\* the sending end of the channel.
Close ==
  /\ listener = "receiving" /\ stop
  /\ listener' = "joining" /\ hand' = Nothing
  /\ told' = IF hand \in Queries THEN [told EXCEPT ![hand] = "lost"] ELSE told
  /\ UNCHANGED <<kind, stop, socket, queue, receiver, worker, inFlight, starts>>

\* The workers are joined, the socket is closed, and what is left is dropped.
Join ==
  /\ listener = "joining" /\ \A w \in Workers : worker[w].at = "ended"
  /\ listener' = "off" /\ socket' = <<>> /\ queue' = <<>>
  /\ told' = [q \in Queries |-> IF told[q] = "pending" THEN "lost" ELSE told[q]]
  /\ UNCHANGED <<kind, stop, hand, receiver, worker, inFlight, starts>>

Listener ==
  Receive \/ AnswerHealth \/ Enqueue \/ DropJob \/ Close \/ Join

-----------------------------------------------------------------------------
(* run_dns_filter: a worker                                                *)

\* Mutant: a worker relies on the channel to tell it of the end.
CheckNothing(w) ==
  /\ worker[w].at = "check" /\ Goes(w, "receive")
  /\ UNCHANGED <<pool, inFlight, told, starts>>

\* The flag is looked at before the mutex of the channel is taken.
Check(w) ==
  /\ worker[w].at = "check"
  /\ Goes(w, IF stop THEN "ended" ELSE "receive")
  /\ UNCHANGED <<pool, inFlight, told, starts>>

LockReceiver(w) ==
  /\ worker[w].at = "receive" /\ receiver = Nobody
  /\ receiver' = w
  /\ UNCHANGED <<kind, stop, listener, hand, socket, queue, worker, inFlight, told, starts>>

TakeJob(w) ==
  /\ worker[w].at = "receive" /\ receiver = w /\ queue # <<>>
  /\ worker' = [worker EXCEPT ![w] = [At("decide") EXCEPT !.query = Head(queue)]]
  /\ queue' = Tail(queue) /\ receiver' = Nobody
  /\ UNCHANGED <<kind, stop, listener, hand, socket, inFlight, told, starts>>

\* Mutant: an error of the channel ends the worker, and a timeout is one.
ReceiveBreaks(w) ==
  /\ worker[w].at = "receive" /\ receiver = w /\ queue = <<>>
  /\ Goes(w, "ended") /\ receiver' = Nobody
  /\ UNCHANGED <<kind, stop, listener, hand, socket, queue, inFlight, told, starts>>

\* Nothing for 250 ms, or the sending end is gone.
ReceiveTimesOut(w) ==
  /\ worker[w].at = "receive" /\ receiver = w /\ queue = <<>>
  /\ Goes(w, "check") /\ receiver' = Nobody
  /\ UNCHANGED <<kind, stop, listener, hand, socket, queue, inFlight, told, starts>>

\* The worker is done with its query.
Reply(w, what) == Told(worker[w].query, what) /\ Goes(w, "check")

Forwards(w, upstreams, split) ==
  worker' = [worker EXCEPT ![w] = [@ EXCEPT !.at = "forward", !.todo = upstreams,
                                            !.split = split, !.negative = FALSE]]

\* Mutant: names of a VPN go to its servers before the rules are asked.
DecideForwardsFirst(w) ==
  /\ worker[w].at = "decide" /\ Forwards(w, SplitUpstreams, TRUE)
  /\ UNCHANGED <<pool, inFlight, told, starts>>

\* handle_dns_packet: the rules, then safe search, then forwarding.  A safe search
\* name has a mapping for addresses only; for other types it is a name like any other.
Decide(w) ==
  LET is == kind[worker[w].query] IN
  /\ worker[w].at = "decide"
  /\ \/ is = "malformed" /\ Reply(w, "lost")
     \/ is = "blocked" /\ Reply(w, "nxdomain")
     \/ is = "safe" /\ Reply(w, "local")
     \/ is = "split" /\ Forwards(w, SplitUpstreams, TRUE) /\ UNCHANGED told
     \/ is \in {"safe", "plain"} /\ Forwards(w, Upstreams, FALSE) /\ UNCHANGED told
  /\ UNCHANGED <<pool, inFlight, starts>>

\* forward_dns_packet asks one upstream after the other ...
UpstreamResolves(w) ==
  /\ worker[w].at = "forward" /\ worker[w].todo # <<>>
  /\ Reply(w, "address")
  /\ UNCHANGED <<pool, inFlight, starts>>

\* ... until one does not say that there is nothing, or that it will not tell ...
UpstreamRefuses(w) ==
  /\ worker[w].at = "forward" /\ worker[w].todo # <<>>
  /\ worker' = [worker EXCEPT ![w].todo = Tail(@), ![w].negative = TRUE]
  /\ UNCHANGED <<pool, inFlight, told, starts>>

UpstreamTimesOut(w) ==
  /\ worker[w].at = "forward" /\ worker[w].todo # <<>>
  /\ worker' = [worker EXCEPT ![w].todo = Tail(@)]
  /\ UNCHANGED <<pool, inFlight, told, starts>>

\* ... but if one cannot even be sent to, the others are not asked, and a refusal
\* before is forgotten.
UpstreamUnreachable(w) ==
  /\ worker[w].at = "forward" /\ worker[w].todo # <<>>
  /\ worker' = [worker EXCEPT ![w].todo = <<>>, ![w].negative = FALSE]
  /\ UNCHANGED <<pool, inFlight, told, starts>>

\* The upstreams of a VPN are followed by the others; those by the system's resolver;
\* without it a refusal is passed on, and silence is passed over in silence.
UpstreamsExhausted(w) ==
  /\ worker[w].at = "forward" /\ worker[w].todo = <<>>
  /\ IF worker[w].split
     THEN Forwards(w, Upstreams, FALSE) /\ UNCHANGED told
     ELSE IF Fallback
     THEN worker' = [worker EXCEPT ![w].at = "ask"] /\ UNCHANGED told
     ELSE Reply(w, IF worker[w].negative THEN "negative" ELSE "lost")
  /\ UNCHANGED <<pool, inFlight, starts>>

Unresolved(w) == Reply(w, IF worker[w].negative THEN "negative" ELSE "lost")

\* Mutant: whether the name is in flight already is not looked at.
AskSystemAnyway(w) ==
  /\ worker[w].at = "ask"
  /\ inFlight' = inFlight \cup {NameOf[worker[w].query]}
  /\ worker' = [worker EXCEPT ![w].at = "resolve"]
  /\ UNCHANGED <<pool, told, starts>>

\* system_resolver_addresses: one worker asks for a name at a time; another one, or one
\* with a query for neither kind of address, does without.
AskSystem(w) ==
  LET name == NameOf[worker[w].query] IN
  /\ worker[w].at = "ask"
  /\ IF name \in inFlight
     THEN Unresolved(w) /\ UNCHANGED inFlight
     ELSE /\ inFlight' = inFlight \cup {name}
          /\ worker' = [worker EXCEPT ![w].at = "resolve"]
          /\ UNCHANGED told
  /\ UNCHANGED <<pool, starts>>

NotAnAddress(w) ==
  /\ worker[w].at = "ask" /\ kind[worker[w].query] = "safe"
  /\ Unresolved(w)
  /\ UNCHANGED <<pool, inFlight, starts>>

\* The system answers within 750 ms, with addresses or without, or it does not.
SystemResolves(w) ==
  /\ worker[w].at = "resolve"
  /\ inFlight' = inFlight \ {NameOf[worker[w].query]}
  /\ Reply(w, "address")
  /\ UNCHANGED <<pool, starts>>

SystemDoesNot(w) ==
  /\ worker[w].at = "resolve"
  /\ inFlight' = inFlight \ {NameOf[worker[w].query]}
  /\ Unresolved(w)
  /\ UNCHANGED <<pool, starts>>

Worker(w) ==
  \/ Check(w) \/ LockReceiver(w) \/ TakeJob(w) \/ ReceiveTimesOut(w) \/ Decide(w)
  \/ UpstreamResolves(w) \/ UpstreamRefuses(w)
  \/ UpstreamTimesOut(w) \/ UpstreamUnreachable(w) \/ UpstreamsExhausted(w)
  \/ AskSystem(w) \/ NotAnAddress(w) \/ SystemResolves(w) \/ SystemDoesNot(w)

-----------------------------------------------------------------------------
Next ==
  \/ Start \/ Stop \/ \E q \in Queries : Send(q)
  \/ Listener \/ \E w \in Workers : Worker(w)

Spec == Init /\ [][Next]_vars

\* Threads run and timeouts end; nothing is asked of the order in which the mutex of the
\* channel is handed out.
Fairness == WF_vars(Listener) /\ \A w \in Workers : WF_vars(Worker(w))

FairSpec == Spec /\ Fairness

-----------------------------------------------------------------------------
(* Properties.                                                             *)

\* Where a query is: its status in the abstract specification.
StatusOf(q) ==
  IF told[q] # "pending" THEN told[q]
  ELSE IF \/ \E w \in Workers : worker[w].query = q
          \/ \E i \in DOMAIN queue : queue[i] = q
  THEN "taken" ELSE "sent"

Service == INSTANCE QueryService
  WITH blocked <- {q \in Queries : kind[q] = "blocked"},
       status <- [q \in Queries |-> StatusOf(q)]

\* The pool of threads gives every query at most one answer, none after it was lost,
\* and a blocked name the one answer it may get, whatever the threads interleave.
ImplementsService == Service!Spec

\* A name is in flight as long as one worker, and only one, asks the system for it.
\* A name left behind would never be asked for again, not even by the next filter.
InFlightHasOwner ==
  \A name \in {NameOf[q] : q \in Queries} :
    Cardinality({w \in Workers : worker[w].at = "resolve" /\ NameOf[worker[w].query] = name})
      = IF name \in inFlight THEN 1 ELSE 0

\* A stop ends, however full the queue is and wherever the workers are.
StopEnds == stop ~> listener = "off"

\* A query does not wait for ever, even if the filter is never stopped.
QueriesEnd == \A q \in Queries : told[q] = "pending" ~> told[q] # "pending"
=============================================================================
