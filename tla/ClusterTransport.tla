------------------------- MODULE ClusterTransport -------------------------
(***************************************************************************)
(* One node's end of the cluster (net/cluster): the bounded work queue and *)
(* its workers, the calls that wait for a response, Stop, and the link to  *)
(* the broker.  loadCluster chooses between NATS (nats_cluster, net/nats:  *)
(* the client library reconnects by itself) and RabbitMQ                   *)
(* (rabbitmq_cluster: watchConnection dials again).  The rest of the       *)
(* cluster is the environment: it delivers messages, answers requests late *)
(* or never.  A restarted node keeps its name, so the answers to its       *)
(* earlier life still reach it.                                            *)
(***************************************************************************)
EXTENDS Naturals, Sequences

CONSTANTS Calls,                        \* Request calls of this node
          Requests, Notifies, Malformed, \* what other nodes send here
          Workers, QueueSize,
          MaxFaults, MaxPublish         \* bounds: lost links and crashes; notifications

Deliveries == Requests \cup Notifies \cup Malformed

\* Init panics unless there are workers and a queue.
ASSUME ClusterAssumption == Workers # {} /\ QueueSize \in Nat \ {0}

VARIABLES
    mode,       \* "nats" or "rabbitmq"
    traffic,    \* "in" or "out": the two directions share the link and Stop only
    link,       \* "none", "up", "down" (lost, not closed) or "closed"
    watch,      \* watchConnection
    work, wpc, cur,          \* the queue, the workers and what they process
    fate,       \* what became of each message from other nodes
    answered,   \* the responses this node has published
    stopping, stop, spc,     \* the flag, the closed channel and Stop itself
    seq, messageSeq,         \* counters for reqID / CorrelationId and MessageId
    call, waiters, chan,     \* calls; the waiting ones by ID; their channels
    sent,       \* requests and responses under way, each with the call it is for
    breaks, restarts,
    raced       \* history: Stop closed the link while it was being restored

config == <<mode, traffic>>
linkVars == <<link, watch, breaks, raced>>
workVars == <<work, wpc, cur, fate, answered>>
stopVars == <<stopping, stop, spc>>
requestVars == <<seq, messageSeq, call, waiters, chan>>
clusterVars == <<config, linkVars, workVars, stopVars, requestVars, sent, restarts>>

loadCluster == mode \in {"nats", "rabbitmq"}
StartedWorkers == [w \in Workers |-> "select"]

ClusterInit ==
    /\ loadCluster /\ traffic \in {"in", "out"}
    /\ link = "none" /\ watch = "read" /\ raced = FALSE
    /\ work = <<>> /\ wpc = StartedWorkers /\ cur = [w \in Workers |-> {}]
    /\ stopping = FALSE /\ stop = FALSE /\ spc = "idle"
    /\ seq = 0 /\ messageSeq = 0 /\ waiters = {} /\ chan = [c \in Calls |-> {}]
    /\ fate = [d \in Deliveries |-> "away"] /\ answered = [d \in Requests |-> 0]
    /\ call = [c \in Calls |-> [pc |-> "idle", id |-> 0, mid |-> 0, answer |-> c]]
    /\ sent = {} /\ breaks = 0 /\ restarts = 0
-----------------------------------------------------------------------------
\* Connect tries until it succeeds; Init of RabbitMQ dials once or panics.
NatsConnect == mode = "nats" /\ link = "none" /\ watch = "read" /\ link' = "up" /\ watch' = "off"
RabbitConnect == mode = "rabbitmq" /\ link = "none" /\ watch = "read" /\ link' = "up" /\ watch' = "notify"
Connect ==
    /\ spc = "idle" /\ (NatsConnect \/ RabbitConnect)
    /\ UNCHANGED <<config, breaks, raced, workVars, stopVars, requestVars, sent, restarts>>

Break ==
    /\ link = "up" /\ breaks + restarts < MaxFaults /\ breaks' = breaks + 1 /\ link' = "down"
    /\ UNCHANGED <<config, watch, raced, workVars, stopVars, requestVars, sent, restarts>>

\* The NATS library restores the link, or gives up after MaxReconnects.
Reconnect ==
    /\ mode = "nats" /\ link = "down" /\ link' \in {"up", "closed"}
    /\ UNCHANGED <<config, watch, breaks, raced, workVars, stopVars, requestVars, sent, restarts>>

\* Mutant: the loop does not look at c.stop.
WatchConnection_NoStop ==
    /\ mode = "rabbitmq"
    /\ \/ watch = "notify" /\ stop /\ watch' = "end" /\ UNCHANGED link
       \/ watch = "notify" /\ link = "down" /\ watch' = (IF stopping THEN "end" ELSE "loop") /\ UNCHANGED link
       \/ watch = "loop" /\ watch' = "dial" /\ UNCHANGED link
       \/ watch = "dial" /\ \/ link' = "up" /\ watch' = "notify"
                            \/ link' = "none" /\ watch' = "loop"
    /\ UNCHANGED <<config, breaks, raced, workVars, stopVars, requestVars, sent, restarts>>

\* watchConnection: c.stop ends it; a lost link is dialled again under mu until it
\* works, with a look at stopping once and at c.stop before every attempt.
WatchConnection ==
    /\ mode = "rabbitmq"
    /\ \/ watch = "notify" /\ stop /\ watch' = "end" /\ UNCHANGED link
       \/ watch = "notify" /\ link = "down" /\ watch' = (IF stopping THEN "end" ELSE "loop") /\ UNCHANGED link
       \/ watch = "loop" /\ watch' = (IF stop THEN "end" ELSE "dial") /\ UNCHANGED link
       \/ watch = "dial" /\ \/ link' = "up" /\ watch' = "notify"
                            \/ link' = "none" /\ watch' = "loop"
    /\ UNCHANGED <<config, breaks, raced, workVars, stopVars, requestVars, sent, restarts>>
-----------------------------------------------------------------------------
\* A message of another node may be sent, lost, or arrive while the link is up.
Arrives(d) == traffic = "in" /\ fate[d] = "away" /\ link = "up"

\* PublishMsg buffers while NATS reconnects, RabbitMQ needs its channel.
NatsPublishes == mode = "nats" /\ link \in {"up", "down"}
RabbitPublishes == mode = "rabbitmq" /\ link = "up"
CanPublish == NatsPublishes \/ RabbitPublishes
Reply(d) == IF d \in Requests /\ CanPublish THEN [answered EXCEPT ![d] = @ + 1] ELSE answered
Overloaded == Len(work) >= QueueSize
RejectOverload(d) ==
    fate' = [fate EXCEPT ![d] = "rejected"] /\ answered' = Reply(d) /\ UNCHANGED work

\* Mutant: a message is accepted while the node stops.
EnqueueMsg_WhileStopping(d) ==
    /\ Arrives(d)
    /\ IF Overloaded THEN RejectOverload(d)
       ELSE work' = Append(work, d) /\ fate' = [fate EXCEPT ![d] = "queued"] /\ UNCHANGED answered
    /\ UNCHANGED <<config, linkVars, wpc, cur, stopVars, requestVars, sent, restarts>>

\* enqueue under submitMu: dropped, queued, or refused with RESOURCE_EXHAUSTED.
EnqueueMsg(d) ==
    /\ Arrives(d)
    /\ IF stopping THEN fate' = [fate EXCEPT ![d] = "dropped"] /\ UNCHANGED <<work, answered>>
       ELSE IF Overloaded THEN RejectOverload(d)
       ELSE work' = Append(work, d) /\ fate' = [fate EXCEPT ![d] = "queued"] /\ UNCHANGED answered
    /\ UNCHANGED <<config, linkVars, wpc, cur, stopVars, requestVars, sent, restarts>>

\* worker: select between work and stop; behind stop it drains.
Takes(w) == wpc[w] \in {"select", "drain"} /\ cur[w] = {}
WorkerTake(w) ==
    /\ Takes(w) /\ work # <<>>
    /\ cur' = [cur EXCEPT ![w] = {Head(work)}] /\ work' = Tail(work)
    /\ UNCHANGED <<config, linkVars, wpc, fate, answered, stopVars, requestVars, sent, restarts>>

\* Mutant: the select of an idle worker has no case for stop.
WorkerStop_NoCase(w) ==
    /\ cur[w] = {} /\ wpc[w] = "drain" /\ work = <<>> /\ wpc' = [wpc EXCEPT ![w] = "end"]
    /\ UNCHANGED <<config, linkVars, work, cur, fate, answered, stopVars, requestVars, sent, restarts>>

WorkerStop(w) ==
    /\ cur[w] = {}
    /\ \/ wpc[w] = "select" /\ stop /\ wpc' = [wpc EXCEPT ![w] = "drain"]
       \/ wpc[w] = "drain" /\ work = <<>> /\ wpc' = [wpc EXCEPT ![w] = "end"]
    /\ UNCHANGED <<config, linkVars, work, cur, fate, answered, stopVars, requestVars, sent, restarts>>

\* process with reply: validateMessage refuses what is malformed without a word.
validateMessage(d) == d \notin Malformed
Outcome(d) == IF validateMessage(d) THEN "handled" ELSE "dropped"
Process(w) ==
    /\ \E d \in cur[w] :
          /\ fate' = [fate EXCEPT ![d] = Outcome(d)]
          /\ answered' = Reply(d)
    /\ cur' = [cur EXCEPT ![w] = {}]
    /\ UNCHANGED <<config, linkVars, work, wpc, stopVars, requestVars, sent, restarts>>
-----------------------------------------------------------------------------
\* Stop: the flag under submitMu; Unsubscribe and close(c.stop); wait for the
\* workers; close the link.  Connect.Close only closes a link that is up.
StopFlag ==
    /\ spc = "idle" /\ link # "none" /\ stopping' = TRUE /\ spc' = "close"
    /\ UNCHANGED <<config, linkVars, workVars, stop, requestVars, sent, restarts>>

StopClose ==
    /\ spc = "close" /\ stop' = TRUE /\ spc' = "wait"
    /\ UNCHANGED <<config, linkVars, workVars, stopping, requestVars, sent, restarts>>

NatsCloses == mode = "nats" /\ link = "up"
StopLink ==
    /\ spc = "wait" /\ \A w \in Workers : wpc[w] = "end"
    /\ spc' = "done"
    /\ link' = IF NatsCloses \/ mode = "rabbitmq" THEN "closed" ELSE link
    /\ raced' = IF mode = "nats" THEN link = "down" ELSE watch = "dial"
    /\ UNCHANGED <<config, watch, breaks, workVars, stopping, stop, requestVars, sent, restarts>>
-----------------------------------------------------------------------------
\* Request: a MessageId, then RequestSync: register the waiter, publish, wait.
buildClusterMessage == messageSeq' = messageSeq + 1
Waits(c) ==
    /\ call' = [call EXCEPT ![c] = [pc |-> "waiting", id |-> seq', mid |-> messageSeq', answer |-> c]]
    /\ waiters' = waiters \cup {[id |-> seq', call |-> c]}
    /\ sent' = sent \cup {[kind |-> "request", id |-> seq', mid |-> messageSeq', call |-> c]}
Request(c) ==
    /\ traffic = "out" /\ call[c].pc = "idle" /\ link # "none"
    /\ seq' = seq + 1 /\ buildClusterMessage
    /\ IF CanPublish THEN Waits(c)
       ELSE call' = [call EXCEPT ![c].pc = "failed"] /\ UNCHANGED <<waiters, sent>>
    /\ UNCHANGED <<config, linkVars, workVars, stopVars, chan, restarts>>

\* Publish of a notification takes a MessageId as well.
Publish ==
    /\ traffic = "out" /\ CanPublish /\ messageSeq - seq < MaxPublish /\ buildClusterMessage
    /\ UNCHANGED <<config, linkVars, workVars, stopVars, seq, call, waiters, chan, sent, restarts>>

\* The other node answers; a request or an answer may also be lost.
Answer ==
    /\ \E m \in sent : \/ m.kind = "request" /\ sent' = (sent \ {m}) \cup {[m EXCEPT !.kind = "response"]}
                       \/ sent' = sent \ {m}
    /\ UNCHANGED <<config, linkVars, workVars, stopVars, requestVars, restarts>>

\* The reply subscription: LoadAndDelete by ID, then the channel of one place.
Respond ==
    /\ link = "up"
    /\ \E m \in sent :
          LET found == {x \in waiters : x.id = m.id} IN
          /\ m.kind = "response" /\ sent' = sent \ {m} /\ waiters' = waiters \ found
          /\ chan' = [c \in Calls |-> IF \E x \in found : x.call = c THEN {m} ELSE chan[c]]
    /\ UNCHANGED <<config, linkVars, workVars, stopVars, seq, messageSeq, call, restarts>>

\* The call gets its response and compares the MessageId.
Correlates(c, m) == m.mid = call[c].mid
Receive(c) ==
    /\ call[c].pc = "waiting"
    /\ \E m \in chan[c] :
          call' = [call EXCEPT ![c] = [pc |-> IF Correlates(c, m) THEN "answered" ELSE "failed",
                                         id |-> 0, mid |-> 0, answer |-> m.call]]
    /\ chan' = [chan EXCEPT ![c] = {}]
    /\ UNCHANGED <<config, linkVars, workVars, stopVars, seq, messageSeq, waiters, sent, restarts>>

\* Mutant: a call that gives up leaves its waiter behind.
Timeout_KeepsWaiter(c) ==
    /\ call[c].pc = "waiting" /\ chan' = [chan EXCEPT ![c] = {}]
    /\ call' = [call EXCEPT ![c] = [pc |-> "timeout", id |-> 0, mid |-> 0, answer |-> c]]
    /\ UNCHANGED <<config, linkVars, workVars, stopVars, seq, messageSeq, waiters, sent, restarts>>

Timeout(c) ==
    /\ call[c].pc = "waiting" /\ chan' = [chan EXCEPT ![c] = {}]
    /\ call' = [call EXCEPT ![c] = [pc |-> "timeout", id |-> 0, mid |-> 0, answer |-> c]]
    /\ waiters' = {x \in waiters : x.call # c}
    /\ UNCHANGED <<config, linkVars, workVars, stopVars, seq, messageSeq, sent, restarts>>

\* The process dies and starts again: everything but the network is lost.
Restart ==
    /\ breaks + restarts < MaxFaults /\ restarts' = restarts + 1 /\ link # "none"
    /\ link' = "none" /\ watch' = "read" /\ raced' = FALSE
    /\ work' = <<>> /\ wpc' = StartedWorkers /\ cur' = [w \in Workers |-> {}]
    /\ stopping' = FALSE /\ stop' = FALSE /\ spc' = "idle"
    /\ seq' = 0 /\ messageSeq' = 0 /\ waiters' = {} /\ chan' = [c \in Calls |-> {}]
    /\ call' = [c \in Calls |-> IF call[c].pc = "waiting" THEN [pc |-> "crashed", id |-> 0, mid |-> 0, answer |-> c] ELSE call[c]]
    /\ fate' = [d \in Deliveries |-> IF fate[d] = "queued" THEN "lost" ELSE fate[d]]
    /\ UNCHANGED <<config, answered, sent, breaks>>
-----------------------------------------------------------------------------
Work(w) == WorkerTake(w) \/ WorkerStop(w) \/ Process(w)
StopSteps == StopClose \/ StopLink
ClusterNext ==
    \/ Connect \/ Break \/ Reconnect \/ WatchConnection
    \/ \E d \in Deliveries : EnqueueMsg(d)
    \/ \E w \in Workers : Work(w)
    \/ StopFlag \/ StopSteps
    \/ \E c \in Calls : Request(c) \/ Receive(c) \/ Timeout(c)
    \/ Publish \/ Answer \/ Respond \/ Restart

\* Goroutines run; the broker and the peers promise nothing.
ClusterSpec ==
    /\ ClusterInit /\ [][ClusterNext]_clusterVars
    /\ \A w \in Workers : WF_clusterVars(Work(w))
    /\ WF_clusterVars(StopSteps)
-----------------------------------------------------------------------------
\* Where an accepted message is: in the queue or with a worker, in one place.
InQueue(d) == {i \in 1..Len(work) : work[i] = d}
AtWorkers(d) == {w \in Workers : d \in cur[w]}
InOnePlace(d) ==
    \/ AtWorkers(d) = {} /\ \E i \in 1..Len(work) : InQueue(d) = {i}
    \/ InQueue(d) = {} /\ \E w \in Workers : AtWorkers(d) = {w}

\* What enqueue has accepted is handled once, and before Stop returns; only a
\* request is answered, at most once, also by a node that is overloaded.  Behind
\* Stop the node is off the broker, unless the link was being restored at that
\* moment: Close skips a NATS link that is down, and watchConnection may have
\* passed its last look at c.stop (enqueue, messageWorker, Stop, watchConnection).
StopDrains ==
    /\ spc = "done" => \A d \in Deliveries : fate[d] # "queued"
    /\ \A d \in Deliveries : fate[d] = "queued" => InOnePlace(d)
    /\ \A d \in Requests : answered[d] <= 1
    /\ spc = "done" /\ ~raced => link \in {"closed", "none"}

\* The waiters are the calls that wait for an answer, under different IDs, and
\* in one life of the node a call returns the answer to its own request.
AnswersMatch ==
    /\ \A x \in waiters : call[x.call].pc = "waiting" /\ call[x.call].id = x.id /\ chan[x.call] = {}
    /\ \A x, y \in waiters : x.id = y.id => x = y
    /\ \A c \in Calls : call[c].pc = "answered" /\ restarts = 0 => call[c].answer = c

\* What the comment on Request promises, for a node that may restart.
CorrelationValidated == \A c \in Calls : call[c].pc = "answered" => call[c].answer = c

\* Stop returns, whatever its workers are at when it is called (Stop, the workers of
\* Init, messageWorker).
StopEnds == spc = "close" ~> spc \in {"done", "idle"}
=============================================================================
