-------------------------- MODULE Transport_proofs --------------------------
(***************************************************************************)
(* Theorems about what connects a node: its end of the cluster, for any    *)
(* number of workers, calls and messages, any queue and any number of lost *)
(* links and crashes; the views that the nodes have of one another; and    *)
(* the server that accepts connections, with any number of sockets, users  *)
(* and places in the queue, which uses the connection index as module      *)
(* ConnectionManager says.                                                 *)
(***************************************************************************)
EXTENDS ClusterTransport, Discovery, Connector, SequenceTheorems, TLAPS

(***************************************************************************)
(* Messages from other nodes, and Stop.                                    *)
(***************************************************************************)

Fates == {"away", "queued", "rejected", "dropped", "handled", "lost"}
WorkTypeOK ==
    /\ work \in Seq(Deliveries) /\ cur \in [Workers -> SUBSET Deliveries]
    /\ wpc \in [Workers -> {"select", "drain", "end"}]
    /\ fate \in [Deliveries -> Fates] /\ answered \in [Requests -> Nat]
    /\ spc \in {"idle", "close", "wait", "done"}

\* A message is in one place while it is queued and nowhere else otherwise; a
\* worker has one at a time.
PlacesOK ==
    /\ \A d \in Deliveries : fate[d] = "queued" => InOnePlace(d)
    /\ \A d \in Deliveries : fate[d] # "queued" => InQueue(d) = {} /\ AtWorkers(d) = {}
    /\ \A w \in Workers : \A d, e \in cur[w] : d = e
\* What waits has not been answered.
AnsweredOK ==
    \A d \in Requests : answered[d] <= 1 /\ (fate[d] \in {"away", "queued"} => answered[d] = 0)
\* Behind Stop nothing is accepted, so that a queue a worker has seen empty stays
\* empty.
DrainOK ==
    /\ stop => stopping
    /\ spc # "idle" => stopping
    /\ spc \in {"wait", "done"} => stop
    /\ \A w \in Workers : wpc[w] # "select" => stop
    /\ \A w \in Workers : wpc[w] = "end" => work = <<>> /\ cur[w] = {}
    /\ spc = "done" => \A w \in Workers : wpc[w] = "end"
\* After Stop the link is gone, unless it was being restored; nobody dials any more.
LinkOK ==
    /\ mode \in {"nats", "rabbitmq"} /\ link \in {"none", "up", "down", "closed"}
    /\ spc = "done" /\ ~raced => link \in {"closed", "none"} /\ (mode = "rabbitmq" => watch # "dial")
WorkInv == WorkTypeOK /\ PlacesOK /\ AnsweredOK /\ DrainOK /\ LinkOK

\* No message has arrived and nothing has been stopped.
LEMMA InitWorkInv == ClusterInit => WorkInv
<1> SUFFICES ASSUME ClusterInit PROVE WorkInv
    OBVIOUS
<1>1. WorkTypeOK
    BY DEF ClusterInit, WorkTypeOK, StartedWorkers, Fates
<1>2. PlacesOK
    BY DEF ClusterInit, PlacesOK, InQueue, AtWorkers
<1>3. AnsweredOK
    BY DEF ClusterInit, AnsweredOK, Deliveries
<1>4. DrainOK /\ LinkOK
    BY DEF ClusterInit, DrainOK, LinkOK, StartedWorkers, loadCluster
<1> QED
    BY <1>1, <1>2, <1>3, <1>4 DEF WorkInv

\* A reply counts once, and only for a request.
LEMMA ReplyCounts ==
    ASSUME answered \in [Requests -> Nat], NEW d
    PROVE  /\ Reply(d) \in [Requests -> Nat]
           /\ \A e \in Requests : e # d => Reply(d)[e] = answered[e]
           /\ d \in Requests => Reply(d)[d] \in {answered[d], answered[d] + 1}
BY DEF Reply

\* enqueue: the message is dropped, refused or put behind the others.
LEMMA EnqueueWorkInv == ASSUME WorkInv, NEW d \in Deliveries, EnqueueMsg(d) PROVE WorkInv'
<1>1. /\ WorkTypeOK /\ PlacesOK /\ AnsweredOK /\ DrainOK /\ LinkOK
    BY DEF WorkInv
<1>2. fate[d] = "away" /\ UNCHANGED <<cur, wpc, stop, stopping, spc, link, watch, mode, raced>>
    BY DEF EnqueueMsg, Arrives, linkVars, stopVars, config
<1>3. DrainOK' /\ LinkOK'
    <2>1. stopping => work' = work
        BY DEF EnqueueMsg
    <2>2. LinkOK'
        BY <1>1, <1>2 DEF LinkOK
    <2> QED
        BY <1>1, <1>2, <2>1, <2>2 DEF DrainOK
<1>4. ASSUME NEW f \in {"dropped", "rejected"}, fate' = [fate EXCEPT ![d] = f], work' = work,
             answered' = answered \/ answered' = Reply(d)
      PROVE  WorkTypeOK' /\ PlacesOK' /\ AnsweredOK'
    <2>1. answered \in [Requests -> Nat] /\ fate \in [Deliveries -> Fates] /\ f \in Fates
        BY <1>1 DEF WorkTypeOK, Fates
    <2>2. WorkTypeOK'
        BY <1>1, <1>2, <1>4, <2>1, ReplyCounts DEF WorkTypeOK
    <2>3. /\ \A e \in Deliveries : e # d => fate'[e] = fate[e]
          /\ fate'[d] = f
        BY <1>4, <2>1
    <2>4. InQueue(d) = {} /\ AtWorkers(d) = {}
        BY <1>1, <1>2 DEF PlacesOK
    <2>5. \A e \in Deliveries : fate'[e] = "queued" => InOnePlace(e)'
        BY <1>1, <1>2, <1>4, <2>3 DEF PlacesOK, InOnePlace, InQueue, AtWorkers
    <2>6. \A e \in Deliveries : fate'[e] # "queued" => InQueue(e)' = {} /\ AtWorkers(e)' = {}
        BY <1>1, <1>2, <1>4, <2>3, <2>4 DEF PlacesOK, InQueue, AtWorkers
    <2>7. PlacesOK'
        BY <1>1, <1>2, <2>5, <2>6 DEF PlacesOK
    <2>8. AnsweredOK'
        BY <1>1, <1>2, <1>4, <2>1, <2>3, ReplyCounts DEF AnsweredOK, Deliveries
    <2> QED
        BY <2>2, <2>7, <2>8
<1>5. ASSUME work' = Append(work, d), fate' = [fate EXCEPT ![d] = "queued"], answered' = answered
      PROVE  WorkTypeOK' /\ PlacesOK' /\ AnsweredOK'
    <2>1. WorkTypeOK'
        BY <1>1, <1>2, <1>5 DEF WorkTypeOK, Fates
    <2>2. work \in Seq(Deliveries) /\ fate \in [Deliveries -> Fates]
        BY <1>1 DEF WorkTypeOK
    <2>3. /\ Len(work') = Len(work) + 1 /\ Len(work) \in Nat /\ work'[Len(work) + 1] = d
          /\ \A i \in 1..Len(work) : work'[i] = work[i]
        BY <1>5, <2>2
    <2>4. fate'[d] = "queued" /\ \A e \in Deliveries : e # d => fate'[e] = fate[e]
        BY <1>5, <2>2
    <2>5. InQueue(d) = {} /\ AtWorkers(d) = {}
        BY <1>1, <1>2 DEF PlacesOK
    <2>6. InQueue(d)' = {Len(work) + 1} /\ Len(work) + 1 \in 1..Len(work')
        BY <2>3, <2>5 DEF InQueue
    <2>7. \A e \in Deliveries : e # d => InQueue(e)' = InQueue(e)
        BY <2>3 DEF InQueue
    <2>8. \A e \in Deliveries : AtWorkers(e)' = AtWorkers(e)
        BY <1>2 DEF AtWorkers
    <2>9. ASSUME NEW e \in Deliveries, fate'[e] = "queued" PROVE InOnePlace(e)'
        <3>1. CASE e = d
            BY <2>5, <2>6, <2>8, <3>1 DEF InOnePlace
        <3>2. CASE e # d
            <4>1. InOnePlace(e)
                BY <1>1, <2>4, <2>9, <3>2 DEF PlacesOK
            <4> QED
                BY <2>3, <2>7, <2>8, <3>2, <4>1 DEF InOnePlace
        <3> QED
            BY <3>1, <3>2
    <2>10. PlacesOK'
        BY <1>1, <1>2, <2>4, <2>7, <2>8, <2>9 DEF PlacesOK
    <2>11. AnsweredOK'
        BY <1>1, <1>2, <1>5, <2>4 DEF AnsweredOK, Deliveries
    <2> QED
        BY <2>1, <2>10, <2>11
<1>6. WorkTypeOK' /\ PlacesOK' /\ AnsweredOK'
    BY <1>4, <1>5 DEF EnqueueMsg, RejectOverload
<1> QED
    BY <1>3, <1>6 DEF WorkInv

\* A worker takes the head of the queue: the message moves.
LEMMA TakeWorkInv == ASSUME WorkInv, NEW w \in Workers, WorkerTake(w) PROVE WorkInv'
<1>1. /\ WorkTypeOK /\ PlacesOK /\ AnsweredOK /\ DrainOK /\ LinkOK
    BY DEF WorkInv
<1>2. /\ UNCHANGED <<wpc, fate, answered, stop, stopping, spc, link, watch, mode, raced>>
      /\ wpc[w] # "end" /\ cur[w] = {} /\ work # <<>>
      /\ cur' = [cur EXCEPT ![w] = {Head(work)}] /\ work' = Tail(work)
    BY DEF WorkerTake, Takes, linkVars, stopVars, config
<1>3. /\ work \in Seq(Deliveries) /\ Len(work) \in Nat /\ Len(work) > 0 /\ Head(work) = work[1] /\ work[1] \in Deliveries
      /\ work' \in Seq(Deliveries) /\ Len(work') = Len(work) - 1 /\ \A i \in 1..Len(work') : work'[i] = work[i + 1]
    BY <1>1, <1>2 DEF WorkTypeOK
<1>4. cur \in [Workers -> SUBSET Deliveries] /\ cur' \in [Workers -> SUBSET Deliveries]
      /\ cur'[w] = {work[1]} /\ \A v \in Workers : v # w => cur'[v] = cur[v]
    BY <1>1, <1>2, <1>3 DEF WorkTypeOK
<1>5. WorkTypeOK'
    BY <1>1, <1>2, <1>3, <1>4 DEF WorkTypeOK
<1>6. \A d \in Deliveries : d # work[1] => AtWorkers(d)' = AtWorkers(d)
    BY <1>2, <1>4 DEF AtWorkers
<1>7. AtWorkers(work[1]) = {} /\ InQueue(work[1]) = {1} /\ fate[work[1]] = "queued"
    <2>1. 1 \in InQueue(work[1])
        BY <1>3 DEF InQueue
    <2>2. fate[work[1]] = "queued"
        BY <1>1, <1>3, <2>1 DEF PlacesOK
    <2>3. InOnePlace(work[1])
        BY <1>1, <1>3, <2>2 DEF PlacesOK
    <2> QED
        BY <2>1, <2>2, <2>3 DEF InOnePlace
<1>8. ASSUME NEW d \in Deliveries PROVE \A i \in InQueue(d)' : i + 1 \in InQueue(d) /\ i + 1 # 1
    <2> SUFFICES ASSUME NEW i \in 1..Len(work'), work'[i] = d
                 PROVE  i + 1 \in 1..Len(work) /\ work[i + 1] = d /\ i + 1 # 1
        BY DEF InQueue
    <2>1. i + 1 \in 1..Len(work) /\ i + 1 # 1
        BY <1>3
    <2>2. work[i + 1] = d
        BY <1>3
    <2> QED
        BY <2>1, <2>2
<1>9. ASSUME NEW d \in Deliveries, d # work[1], NEW i \in InQueue(d) PROVE i - 1 \in InQueue(d)' /\ i \in Nat
    BY <1>3, <1>9 DEF InQueue
<1>10. ASSUME NEW d \in Deliveries, fate'[d] = "queued" PROVE InOnePlace(d)'
    <2>1. CASE d = work[1]
        <3>1. InQueue(d)' = {}
            BY <1>7, <1>8, <2>1
        <3>2. \A v \in Workers : d \in cur'[v] => v = w
            BY <1>4, <1>7, <2>1 DEF AtWorkers
        <3>3. {v \in Workers : d \in cur'[v]} = {w}
            BY <1>4, <2>1, <3>2
        <3> QED
            BY <3>1, <3>3 DEF InOnePlace, AtWorkers
    <2>2. CASE d # work[1]
        <3>1. InOnePlace(d)
            BY <1>1, <1>2, <1>10 DEF PlacesOK
        <3>2. CASE InQueue(d) = {} /\ \E v \in Workers : AtWorkers(d) = {v}
            <4>1. InQueue(d)' = {}
                BY <1>8, <3>2
            <4> QED
                BY <1>6, <2>2, <3>2, <4>1 DEF InOnePlace
        <3>3. CASE AtWorkers(d) = {} /\ \E i \in 1..Len(work) : InQueue(d) = {i}
            <4>1. PICK i \in 1..Len(work) : InQueue(d) = {i}
                BY <3>3
            <4>2. i - 1 \in InQueue(d)'
                BY <1>9, <2>2, <4>1
            <4>3. \A k \in InQueue(d)' : k + 1 = i
                BY <1>8, <4>1
            <4>4. \A k \in InQueue(d)' : k = i - 1
                BY <4>3, <1>3 DEF InQueue
            <4>5. InQueue(d)' = {i - 1} /\ i - 1 \in 1..Len(work')
                BY <4>2, <4>4 DEF InQueue
            <4> QED
                BY <1>6, <2>2, <3>3, <4>5 DEF InOnePlace
        <3> QED
            BY <3>1, <3>2, <3>3 DEF InOnePlace
    <2> QED
        BY <2>1, <2>2
<1>11. ASSUME NEW d \in Deliveries, fate'[d] # "queued" PROVE InQueue(d)' = {} /\ AtWorkers(d)' = {}
    <2>1. d # work[1] /\ InQueue(d) = {} /\ AtWorkers(d) = {}
        BY <1>1, <1>2, <1>7, <1>11 DEF PlacesOK
    <2> QED
        BY <1>6, <1>8, <2>1
<1>12. PlacesOK'
    BY <1>1, <1>4, <1>10, <1>11 DEF PlacesOK
<1>13. AnsweredOK' /\ LinkOK'
    BY <1>1, <1>2 DEF AnsweredOK, LinkOK
<1>14. DrainOK'
    BY <1>1, <1>2, <1>4 DEF DrainOK
<1> QED
    BY <1>5, <1>12, <1>13, <1>14 DEF WorkInv

\* process: the message leaves its worker with its fate, and a request with its answer.
LEMMA ProcessWorkInv == ASSUME WorkInv, NEW w \in Workers, Process(w) PROVE WorkInv'
<1>1. /\ WorkTypeOK /\ PlacesOK /\ AnsweredOK /\ DrainOK /\ LinkOK
    BY DEF WorkInv
<1>2. PICK d \in cur[w] : fate' = [fate EXCEPT ![d] = Outcome(d)] /\ answered' = Reply(d)
    BY DEF Process
<1>3. UNCHANGED <<work, wpc, stop, stopping, spc, link, watch, mode, raced>> /\ cur' = [cur EXCEPT ![w] = {}]
    BY DEF Process, linkVars, stopVars, config
<1>4. /\ d \in Deliveries /\ Outcome(d) \in {"handled", "dropped"} /\ answered \in [Requests -> Nat]
      /\ cur \in [Workers -> SUBSET Deliveries] /\ fate \in [Deliveries -> Fates]
    BY <1>1 DEF WorkTypeOK, Outcome
<1>5. cur'[w] = {} /\ cur' \in [Workers -> SUBSET Deliveries] /\ \A v \in Workers : v # w => cur'[v] = cur[v]
    BY <1>3, <1>4
<1>6. fate'[d] = Outcome(d) /\ fate' \in [Deliveries -> Fates] /\ \A e \in Deliveries : e # d => fate'[e] = fate[e]
    BY <1>2, <1>4 DEF Fates
<1>7. WorkTypeOK'
    BY <1>1, <1>2, <1>3, <1>4, <1>5, <1>6, ReplyCounts DEF WorkTypeOK
<1>8. InQueue(d) = {} /\ AtWorkers(d) = {w} /\ fate[d] = "queued"
    <2>1. w \in AtWorkers(d)
        BY DEF AtWorkers
    <2>2. fate[d] = "queued"
        BY <1>1, <1>4, <2>1 DEF PlacesOK
    <2>3. InOnePlace(d)
        BY <1>1, <1>4, <2>2 DEF PlacesOK
    <2> QED
        BY <2>1, <2>2, <2>3 DEF InOnePlace
<1>9. \A e \in cur[w] : e = d
    BY <1>1 DEF PlacesOK
<1>10. \A e \in Deliveries : InQueue(e)' = InQueue(e)
    BY <1>3 DEF InQueue
<1>11. \A e \in Deliveries : e # d => AtWorkers(e)' = AtWorkers(e)
    BY <1>5, <1>9 DEF AtWorkers
<1>12. AtWorkers(d)' = {}
    <2>1. \A v \in Workers : d \notin cur'[v]
        BY <1>5, <1>8 DEF AtWorkers
    <2>2. {v \in Workers : d \in cur'[v]} = {}
        BY <2>1
    <2> QED
        BY <2>2 DEF AtWorkers
<1>13. ASSUME NEW e \in Deliveries, fate'[e] = "queued" PROVE InOnePlace(e)'
    <2>1. e # d /\ fate[e] = "queued"
        BY <1>4, <1>6, <1>13
    <2>2. InOnePlace(e)
        BY <1>1, <2>1 DEF PlacesOK
    <2> QED
        BY <1>3, <1>10, <1>11, <2>1, <2>2 DEF InOnePlace
<1>14. \A e \in Deliveries : fate'[e] # "queued" => InQueue(e)' = {} /\ AtWorkers(e)' = {}
    BY <1>1, <1>6, <1>8, <1>10, <1>11, <1>12 DEF PlacesOK
<1>15. PlacesOK'
    BY <1>1, <1>5, <1>13, <1>14 DEF PlacesOK
<1>16. AnsweredOK'
    BY <1>1, <1>2, <1>4, <1>6, <1>8, ReplyCounts DEF AnsweredOK, Deliveries
<1>17. DrainOK' /\ LinkOK'
    <2>1. LinkOK'
        BY <1>1, <1>3 DEF LinkOK
    <2> QED
        BY <1>1, <1>3, <1>5, <2>1 DEF DrainOK
<1> QED
    BY <1>7, <1>15, <1>16, <1>17 DEF WorkInv

\* A step that moves no message keeps the places, the answers and the types.
LEMMA PlacesUnchanged ==
    ASSUME WorkInv, UNCHANGED <<work, cur, fate, answered>>, spc' \in {"idle", "close", "wait", "done"},
           wpc' \in [Workers -> {"select", "drain", "end"}]
    PROVE  WorkTypeOK' /\ PlacesOK' /\ AnsweredOK'
<1>1. WorkTypeOK /\ PlacesOK /\ AnsweredOK
    BY DEF WorkInv
<1>2. \A d \in Deliveries : InQueue(d)' = InQueue(d) /\ AtWorkers(d)' = AtWorkers(d)
    BY DEF InQueue, AtWorkers
<1>3. PlacesOK'
    BY <1>1, <1>2 DEF PlacesOK, InOnePlace
<1> QED
    BY <1>1, <1>3 DEF WorkTypeOK, AnsweredOK

\* A worker turns to draining behind stop, and ends at an empty queue.
LEMMA WorkerStopWorkInv == ASSUME WorkInv, NEW w \in Workers, WorkerStop(w) PROVE WorkInv'
<1>1. /\ WorkTypeOK /\ DrainOK /\ LinkOK
    BY DEF WorkInv
<1>2. /\ UNCHANGED <<work, cur, fate, answered, stop, stopping, spc, link, watch, mode, raced>> /\ cur[w] = {}
      /\ \/ wpc[w] = "select" /\ stop /\ wpc' = [wpc EXCEPT ![w] = "drain"]
         \/ wpc[w] = "drain" /\ work = <<>> /\ wpc' = [wpc EXCEPT ![w] = "end"]
    BY DEF WorkerStop, linkVars, stopVars, config
<1>3. wpc' \in [Workers -> {"select", "drain", "end"}] /\ \A v \in Workers : v # w => wpc'[v] = wpc[v]
    BY <1>1, <1>2 DEF WorkTypeOK
<1>4. (wpc'[w] = "drain" /\ stop) \/ (wpc'[w] = "end" /\ work = <<>> /\ wpc[w] = "drain")
    BY <1>1, <1>2 DEF WorkTypeOK
<1>5. WorkTypeOK' /\ PlacesOK' /\ AnsweredOK'
    <2>1. spc' \in {"idle", "close", "wait", "done"}
        BY <1>1, <1>2 DEF WorkTypeOK
    <2> QED
        BY <1>2, <1>3, <2>1, PlacesUnchanged
<1>6. LinkOK'
    BY <1>1, <1>2 DEF LinkOK
<1>7. spc # "done"
    BY <1>1, <1>2 DEF DrainOK
<1>8. DrainOK'
    BY <1>1, <1>2, <1>3, <1>4, <1>7 DEF DrainOK
<1> QED
    BY <1>5, <1>6, <1>8 DEF WorkInv

\* The three steps of Stop.
LEMMA StopWorkInv == ASSUME WorkInv, StopFlag \/ StopClose \/ StopLink PROVE WorkInv'
<1>1. /\ WorkTypeOK /\ DrainOK /\ LinkOK
    BY DEF WorkInv
<1>2. /\ UNCHANGED <<work, cur, wpc, fate, answered, mode>> /\ spc' \in {"close", "wait", "done"}
      /\ spc' = "done" => UNCHANGED <<stop, stopping, watch>>
    BY DEF StopFlag, StopClose, StopLink, workVars, config
<1>3. WorkTypeOK' /\ PlacesOK' /\ AnsweredOK'
    <2>1. wpc' \in [Workers -> {"select", "drain", "end"}]
        BY <1>1, <1>2 DEF WorkTypeOK
    <2> QED
        BY <1>2, <2>1, PlacesUnchanged
<1>4. CASE StopFlag
    BY <1>1, <1>2, <1>3, <1>4 DEF StopFlag, linkVars, DrainOK, LinkOK, WorkInv
<1>5. CASE StopClose
    <2>1. DrainOK' /\ LinkOK'
        BY <1>1, <1>2, <1>5 DEF StopClose, linkVars, DrainOK, LinkOK
    <2> QED
        BY <1>3, <2>1 DEF WorkInv
<1>6. CASE StopLink
    <2>1. DrainOK'
        BY <1>1, <1>2, <1>6 DEF StopLink, DrainOK
    <2>2. ASSUME ~raced' PROVE link' \in {"closed", "none"} /\ (mode = "rabbitmq" => watch # "dial")
        <3>1. link \in {"none", "up", "down", "closed"} /\ mode \in {"nats", "rabbitmq"}
            BY <1>1 DEF LinkOK
        <3>2. CASE mode = "nats"
            BY <1>6, <2>2, <3>1, <3>2 DEF StopLink, NatsCloses
        <3>3. CASE mode = "rabbitmq"
            BY <1>6, <2>2, <3>3 DEF StopLink, NatsCloses
        <3> QED
            BY <3>1, <3>2, <3>3
    <2>3. LinkOK'
        BY <1>1, <1>2, <1>6, <2>2 DEF LinkOK, StopLink
    <2> QED
        BY <1>3, <2>1, <2>3 DEF WorkInv
<1> QED
    BY <1>4, <1>5, <1>6

\* The link and the calls of this node.
LEMMA LinkWorkInv ==
    ASSUME WorkInv, Connect \/ Break \/ Reconnect \/ WatchConnection PROVE WorkInv'
<1>1. /\ WorkTypeOK /\ DrainOK /\ LinkOK
    BY DEF WorkInv
<1>2. UNCHANGED <<work, cur, wpc, fate, answered, mode, stop, stopping, spc, raced>>
    BY DEF Connect, Break, Reconnect, WatchConnection, workVars, stopVars, config
<1>3. WorkTypeOK' /\ PlacesOK' /\ AnsweredOK'
    <2>1. wpc' \in [Workers -> {"select", "drain", "end"}] /\ spc' \in {"idle", "close", "wait", "done"}
        BY <1>1, <1>2 DEF WorkTypeOK
    <2> QED
        BY <1>2, <2>1, PlacesUnchanged
<1>4. DrainOK'
    BY <1>1, <1>2 DEF DrainOK
<1>5. LinkOK'
    <2>1. spc = "done" => stop
        BY <1>1 DEF DrainOK
    <2>2. CASE Connect
        BY <1>1, <1>2, <2>2 DEF Connect, NatsConnect, RabbitConnect, LinkOK
    <2>3. CASE Break \/ Reconnect
        BY <1>1, <1>2, <2>3 DEF Break, Reconnect, LinkOK
    <2>4. CASE WatchConnection
        BY <1>1, <1>2, <2>1, <2>4 DEF WatchConnection, LinkOK
    <2> QED
        BY <2>2, <2>3, <2>4
<1> QED
    BY <1>3, <1>4, <1>5 DEF WorkInv

\* A crash loses what was queued, and the node begins again.
LEMMA RestartWorkInv == ASSUME WorkInv, Restart PROVE WorkInv'
<1>1. /\ WorkTypeOK /\ PlacesOK /\ AnsweredOK
    BY DEF WorkInv
<1>2. /\ work' = <<>> /\ wpc' = [w \in Workers |-> "select"] /\ cur' = [w \in Workers |-> {}]
      /\ stopping' = FALSE /\ stop' = FALSE /\ spc' = "idle" /\ answered' = answered
      /\ fate' = [d \in Deliveries |-> IF fate[d] = "queued" THEN "lost" ELSE fate[d]]
      /\ mode' = mode /\ link' = "none"
    BY DEF Restart, StartedWorkers, config
<1>3. \A d \in Deliveries : fate'[d] # "queued" /\ (fate'[d] \in {"away", "queued"} => fate[d] = fate'[d])
    BY <1>2
<1>4. WorkTypeOK'
    BY <1>1, <1>2 DEF WorkTypeOK, Fates
<1>5. PlacesOK'
    BY <1>2, <1>3 DEF PlacesOK, InQueue, AtWorkers
<1>6. AnsweredOK'
    BY <1>1, <1>2, <1>3 DEF AnsweredOK, Deliveries
<1>7. DrainOK' /\ LinkOK'
    BY <1>2 DEF DrainOK, LinkOK, WorkInv
<1> QED
    BY <1>4, <1>5, <1>6, <1>7 DEF WorkInv

\* Every step.
LEMMA NextWorkInv == WorkInv /\ [ClusterNext]_clusterVars => WorkInv'
<1> SUFFICES ASSUME WorkInv, [ClusterNext]_clusterVars PROVE WorkInv'
    OBVIOUS
<1>1. ASSUME UNCHANGED <<config, linkVars, workVars, stopVars>> PROVE WorkInv'
    <2>1. WorkTypeOK /\ DrainOK /\ LinkOK
        BY DEF WorkInv
    <2>2. UNCHANGED <<work, cur, wpc, fate, answered, mode, stop, stopping, spc, raced, link, watch>>
        BY <1>1 DEF config, linkVars, workVars, stopVars
    <2>3. wpc' \in [Workers -> {"select", "drain", "end"}] /\ spc' \in {"idle", "close", "wait", "done"}
        BY <2>1, <2>2 DEF WorkTypeOK
    <2>4. WorkTypeOK' /\ PlacesOK' /\ AnsweredOK'
        BY <2>2, <2>3, PlacesUnchanged
    <2>5. DrainOK' /\ LinkOK'
        BY <2>1, <2>2 DEF DrainOK, LinkOK
    <2> QED
        BY <2>4, <2>5 DEF WorkInv
<1>2. ASSUME NEW c \in Calls, Request(c) \/ Receive(c) \/ Timeout(c) PROVE WorkInv'
    BY <1>1, <1>2 DEF Request, Receive, Timeout
<1>3. CASE Publish \/ Answer \/ Respond
    BY <1>1, <1>3 DEF Publish, Answer, Respond
<1>4. CASE UNCHANGED clusterVars
    BY <1>1, <1>4 DEF clusterVars
<1>5. ASSUME NEW w \in Workers, Work(w) PROVE WorkInv'
    BY <1>5, TakeWorkInv, WorkerStopWorkInv, ProcessWorkInv DEF Work
<1>6. ASSUME NEW d \in Deliveries, EnqueueMsg(d) PROVE WorkInv'
    BY <1>6, EnqueueWorkInv
<1> QED
    BY <1>2, <1>3, <1>4, <1>5, <1>6, LinkWorkInv, StopWorkInv, RestartWorkInv DEF ClusterNext, StopSteps

\* What enqueue has accepted is handled once and before Stop returns, a request is
\* answered at most once, and after Stop the node is off the broker unless the link
\* was being restored (enqueue, worker, process, Stop, watchConnection), for any
\* number of workers and messages.
THEOREM AcceptedIsHandled == ClusterSpec => []StopDrains
<1>1. WorkInv => StopDrains
    <2> SUFFICES ASSUME WorkInv PROVE StopDrains
        OBVIOUS
    <2>1. ASSUME spc = "done", NEW d \in Deliveries PROVE fate[d] # "queued"
        <3>1. work = <<>> /\ \A w \in Workers : cur[w] = {}
            BY <2>1, ClusterAssumption DEF WorkInv, DrainOK
        <3>2. InQueue(d) = {} /\ AtWorkers(d) = {}
            BY <3>1 DEF InQueue, AtWorkers
        <3> QED
            BY <3>2 DEF WorkInv, PlacesOK, InOnePlace
    <2>2. \A d \in Deliveries : fate[d] = "queued" => InOnePlace(d)
        BY DEF WorkInv, PlacesOK
    <2>3. \A d \in Requests : answered[d] <= 1
        BY DEF WorkInv, AnsweredOK
    <2>4. spc = "done" /\ ~raced => link \in {"closed", "none"}
        BY DEF WorkInv, LinkOK
    <2> QED
        BY <2>1, <2>2, <2>3, <2>4 DEF StopDrains
<1> QED
    BY <1>1, InitWorkInv, NextWorkInv, PTL DEF ClusterSpec

(***************************************************************************)
(* Calls to other nodes.                                                   *)
(***************************************************************************)

CallPlaces == {"idle", "waiting", "answered", "failed", "timeout", "crashed"}
CallRecords == [pc : CallPlaces, id : Nat, mid : Nat, answer : Calls]
Messages == [kind : {"request", "response"}, id : Nat, mid : Nat, call : Calls]
CallTypeOK ==
    /\ seq \in Nat /\ messageSeq \in Nat /\ restarts \in Nat
    /\ call \in [Calls -> CallRecords] /\ chan \in [Calls -> SUBSET Messages]
    /\ waiters \subseteq [id : Nat, call : Calls] /\ sent \subseteq Messages

\* A waiter belongs to a call that waits with an empty channel, under an ID that
\* the counter has given out once; only such a call has something in its channel.
WaitersOK ==
    /\ \A x \in waiters : call[x.call].pc = "waiting" /\ call[x.call].id = x.id /\ chan[x.call] = {} /\ x.id <= seq
    /\ \A x, y \in waiters : x.id = y.id => x = y
    /\ \A c \in Calls : chan[c] # {} => call[c].pc = "waiting"
\* In one life of the node a MessageId belongs to one call.
OneLife ==
    /\ \A m \in sent : m.mid <= messageSeq
    /\ \A c \in Calls : call[c].mid <= messageSeq
    /\ \A c \in Calls : call[c].pc = "waiting" => \A m \in sent \cup chan[c] : m.mid = call[c].mid => m.call = c
    /\ \A c \in Calls : call[c].pc = "answered" => call[c].answer = c
CallInv == CallTypeOK /\ WaitersOK /\ (restarts = 0 => OneLife)

\* No call has been made.
LEMMA InitCallInv == ClusterInit => CallInv
<1> SUFFICES ASSUME ClusterInit PROVE CallInv
    OBVIOUS
<1>1. CallTypeOK
    BY DEF ClusterInit, CallTypeOK, CallRecords, CallPlaces
<1>2. WaitersOK
    BY DEF ClusterInit, WaitersOK
<1>3. OneLife
    BY DEF ClusterInit, OneLife
<1> QED
    BY <1>1, <1>2, <1>3 DEF CallInv

\* Request: fresh IDs, a waiter and the message; or nothing when it cannot publish.
LEMMA RequestCallInv == ASSUME CallInv, NEW c \in Calls, Request(c) PROVE CallInv'
<1>1. CallTypeOK /\ WaitersOK /\ (restarts = 0 => OneLife)
    BY DEF CallInv
<1>2. /\ call[c].pc = "idle" /\ seq' = seq + 1 /\ messageSeq' = messageSeq + 1 /\ UNCHANGED <<chan, restarts>>
    BY DEF Request, buildClusterMessage
<1>3. seq \in Nat /\ seq' \in Nat /\ messageSeq \in Nat /\ messageSeq' \in Nat /\ chan[c] = {}
    BY <1>1, <1>2 DEF CallTypeOK, WaitersOK
<1>4. CASE Waits(c)
    <2> DEFINE r == [pc |-> "waiting", id |-> seq', mid |-> messageSeq', answer |-> c]
               x == [id |-> seq', call |-> c]
               m == [kind |-> "request", id |-> seq', mid |-> messageSeq', call |-> c]
    <2>1. r \in CallRecords /\ r.pc = "waiting" /\ r.id = seq' /\ r.mid = messageSeq'
        BY <1>3 DEF CallRecords, CallPlaces
    <2>2. x \in [id : Nat, call : Calls] /\ x.id = seq' /\ x.call = c
        BY <1>3
    <2>3. m \in Messages /\ m.mid = messageSeq' /\ m.call = c
        BY <1>3 DEF Messages
    <2>4. call' = [call EXCEPT ![c] = r] /\ waiters' = waiters \cup {x} /\ sent' = sent \cup {m}
        BY <1>4 DEF Waits
    <2> HIDE DEF r, x, m
    <2>5. call'[c] = r /\ \A d \in Calls : d # c => call'[d] = call[d]
        BY <1>1, <2>4 DEF CallTypeOK
    <2>6. CallTypeOK'
        BY <1>1, <1>2, <1>3, <2>1, <2>2, <2>3, <2>4 DEF CallTypeOK
    <2>7. \A y \in waiters : y.call \in Calls /\ y.call # c /\ y.id \in Nat /\ y.id <= seq
        BY <1>1, <1>2 DEF WaitersOK, CallTypeOK
    <2>8. WaitersOK'
        <3>1. \A y \in waiters' : call'[y.call].pc = "waiting" /\ call'[y.call].id = y.id /\ chan'[y.call] = {} /\ y.id <= seq'
            BY <1>1, <1>2, <1>3, <2>1, <2>2, <2>4, <2>5, <2>7 DEF WaitersOK
        <3>2. \A y, z \in waiters' : y.id = z.id => y = z
            BY <1>1, <1>2, <1>3, <2>2, <2>4, <2>7 DEF WaitersOK
        <3>3. \A d \in Calls : chan'[d] # {} => call'[d].pc = "waiting"
            BY <1>1, <1>2, <2>1, <2>5 DEF WaitersOK
        <3> QED
            BY <3>1, <3>2, <3>3 DEF WaitersOK
    <2>9. ASSUME restarts = 0 PROVE OneLife'
        <3>1. OneLife
            BY <1>1, <2>9
        <3>2. /\ \A n \in sent : n.mid \in Nat /\ n.mid <= messageSeq
              /\ \A d \in Calls : call[d].mid \in Nat /\ call[d].mid <= messageSeq
            BY <1>1, <3>1 DEF OneLife, CallTypeOK, CallRecords, Messages
        <3>3. /\ \A n \in sent' : n.mid <= messageSeq'
              /\ \A d \in Calls : call'[d].mid <= messageSeq'
            BY <1>2, <1>3, <2>1, <2>3, <2>4, <2>5, <3>2
        <3>4. ASSUME NEW d \in Calls, call'[d].pc = "waiting", NEW n \in sent' \cup chan'[d], n.mid = call'[d].mid
              PROVE  n.call = d
            <4>1. CASE d = c
                <5>1. n \in sent \/ n = m
                    BY <1>2, <1>3, <2>4, <4>1
                <5> QED
                    BY <1>2, <1>3, <2>1, <2>3, <2>5, <3>2, <3>4, <4>1, <5>1
            <4>2. CASE d # c
                <5>1. n # m
                    BY <1>2, <1>3, <2>3, <2>5, <3>2, <3>4, <4>2
                <5> QED
                    BY <1>2, <2>4, <2>5, <3>1, <3>4, <4>2, <5>1 DEF OneLife
            <4> QED
                BY <4>1, <4>2
        <3>5. \A d \in Calls : call'[d].pc = "answered" => call'[d].answer = d
            BY <2>1, <2>5, <3>1 DEF OneLife
        <3> QED
            BY <3>3, <3>4, <3>5 DEF OneLife
    <2> QED
        BY <1>2, <2>6, <2>8, <2>9 DEF CallInv
<1>5. CASE call' = [call EXCEPT ![c].pc = "failed"] /\ UNCHANGED <<waiters, sent>>
    <2> DEFINE r == [call[c] EXCEPT !.pc = "failed"]
    <2>1. call[c] \in CallRecords
        BY <1>1 DEF CallTypeOK
    <2>2. r \in CallRecords /\ r.pc = "failed" /\ r.mid = call[c].mid
        BY <2>1 DEF CallRecords, CallPlaces
    <2>3. call' = [call EXCEPT ![c] = r]
        BY <1>1, <1>5 DEF CallTypeOK
    <2> HIDE DEF r
    <2>4. call'[c] = r /\ \A d \in Calls : d # c => call'[d] = call[d]
        BY <1>1, <2>3 DEF CallTypeOK
    <2>5. CallTypeOK'
        BY <1>1, <1>2, <1>3, <1>5, <2>2, <2>3 DEF CallTypeOK
    <2>6. \A y \in waiters : y.call \in Calls /\ y.call # c /\ y.id \in Nat
        BY <1>1, <1>2 DEF WaitersOK, CallTypeOK
    <2>7. WaitersOK'
        BY <1>1, <1>2, <1>3, <1>5, <2>4, <2>6 DEF WaitersOK
    <2>8. restarts = 0 => OneLife'
        <3>1. ASSUME restarts = 0 PROVE /\ \A n \in sent : n.mid \in Nat /\ n.mid <= messageSeq
              /\ \A d \in Calls : call[d].mid \in Nat /\ call[d].mid <= messageSeq
            BY <1>1, <3>1 DEF OneLife, CallTypeOK, CallRecords, Messages
        <3>2. ASSUME restarts = 0 PROVE /\ \A n \in sent' : n.mid <= messageSeq'
              /\ \A d \in Calls : call'[d].mid <= messageSeq'
            BY <1>2, <1>3, <1>5, <2>2, <2>4, <3>1, <3>2
        <3> QED
            BY <1>1, <1>2, <1>5, <2>2, <2>4, <3>2 DEF OneLife
    <2> QED
        BY <1>2, <2>5, <2>7, <2>8 DEF CallInv
<1> QED
    BY <1>4, <1>5 DEF Request

\* A call that ends for a reason other than its answer, without a waiter or a response
\* left behind.
LEMMA EndCallInv ==
    ASSUME CallInv, NEW c \in Calls, NEW r \in CallRecords, r.pc # "waiting", r.mid = 0,
           r.pc = "answered" /\ restarts = 0 => r.answer = c,
           call' = [call EXCEPT ![c] = r], chan' = [chan EXCEPT ![c] = {}], waiters' \subseteq waiters,
           \A x \in waiters' : x.call # c,
           UNCHANGED <<seq, messageSeq, sent, restarts>>
    PROVE  CallInv'
<1>1. CallTypeOK /\ WaitersOK /\ (restarts = 0 => OneLife)
    BY DEF CallInv
<1>2. call'[c] = r /\ chan'[c] = {} /\ \A d \in Calls : d # c => call'[d] = call[d] /\ chan'[d] = chan[d]
    BY <1>1 DEF CallTypeOK
<1>3. CallTypeOK'
    BY <1>1 DEF CallTypeOK
<1>4. \A x \in waiters' : x.call \in Calls /\ x.call # c /\ x \in waiters
    BY <1>1 DEF CallTypeOK
<1>5. WaitersOK'
    BY <1>1, <1>2, <1>4 DEF WaitersOK
<1>6. restarts = 0 => OneLife'
    BY <1>1, <1>2 DEF OneLife, CallTypeOK
<1> QED
    BY <1>3, <1>5, <1>6 DEF CallInv

\* The call gets a response, or gives up and takes its waiter back.
LEMMA ReceiveCallInv == ASSUME CallInv, NEW c \in Calls, Receive(c) PROVE CallInv'
<1>1. CallTypeOK /\ WaitersOK /\ (restarts = 0 => OneLife)
    BY DEF CallInv
<1>2. PICK m \in chan[c] :
          call' = [call EXCEPT ![c] = [pc |-> IF Correlates(c, m) THEN "answered" ELSE "failed",
                                         id |-> 0, mid |-> 0, answer |-> m.call]]
    BY DEF Receive
<1>3. /\ call[c].pc = "waiting" /\ chan' = [chan EXCEPT ![c] = {}] /\ UNCHANGED <<seq, messageSeq, waiters, sent, restarts>>
    BY DEF Receive
<1>4. m \in Messages
    BY <1>1 DEF CallTypeOK
<1> DEFINE r == [pc |-> IF Correlates(c, m) THEN "answered" ELSE "failed", id |-> 0, mid |-> 0, answer |-> m.call]
<1>5. r \in CallRecords /\ r.pc # "waiting" /\ r.mid = 0 /\ r.answer = m.call /\ (r.pc = "answered" => m.mid = call[c].mid)
    BY <1>4 DEF CallRecords, CallPlaces, Messages, Correlates
<1> HIDE DEF r
<1>6. r.pc = "answered" /\ restarts = 0 => r.answer = c
    BY <1>1, <1>3, <1>5 DEF OneLife
<1>7. \A x \in waiters : x.call # c
    BY <1>1 DEF WaitersOK
<1>8. call' = [call EXCEPT ![c] = r]
    BY <1>2 DEF r
<1> QED
    BY <1>3, <1>5, <1>6, <1>7, <1>8, EndCallInv

\* A call that gives up.
LEMMA TimeoutCallInv == ASSUME CallInv, NEW c \in Calls, Timeout(c) PROVE CallInv'
<1> DEFINE r == [pc |-> "timeout", id |-> 0, mid |-> 0, answer |-> c]
<1>1. r \in CallRecords /\ r.pc = "timeout" /\ r.mid = 0
    BY DEF CallRecords, CallPlaces
<1>2. call' = [call EXCEPT ![c] = r] /\ chan' = [chan EXCEPT ![c] = {}] /\ waiters' = {x \in waiters : x.call # c}
      /\ UNCHANGED <<seq, messageSeq, sent, restarts>>
    BY DEF Timeout
<1> HIDE DEF r
<1>3. waiters' \subseteq waiters /\ \A x \in waiters' : x.call # c
    BY <1>2
<1> QED
    BY <1>1, <1>2, <1>3, EndCallInv

\* The network: a request becomes its response, or a message is lost.
LEMMA AnswerCallInv == ASSUME CallInv, Answer PROVE CallInv'
<1>1. CallTypeOK /\ WaitersOK /\ (restarts = 0 => OneLife)
    BY DEF CallInv
<1>2. PICK m \in sent : \/ sent' = (sent \ {m}) \cup {[m EXCEPT !.kind = "response"]}
                        \/ sent' = sent \ {m}
    BY DEF Answer
<1>3. UNCHANGED <<seq, messageSeq, call, waiters, chan, restarts>>
    BY DEF Answer, requestVars
<1> DEFINE n == [m EXCEPT !.kind = "response"]
<1>4. m \in Messages
    BY <1>1 DEF CallTypeOK
<1>5. n \in Messages /\ n.mid = m.mid /\ n.call = m.call
    BY <1>4 DEF Messages
<1> HIDE DEF n
<1>6. sent' \subseteq sent \cup {n}
    BY <1>2 DEF n
<1>7. CallTypeOK'
    BY <1>1, <1>3, <1>5, <1>6 DEF CallTypeOK
<1>8. WaitersOK'
    BY <1>1, <1>3 DEF WaitersOK
<1>9. restarts = 0 => OneLife'
    BY <1>1, <1>3, <1>5, <1>6 DEF OneLife
<1> QED
    BY <1>3, <1>7, <1>8, <1>9 DEF CallInv

\* A response goes to the call that waits under its ID, and to no other.
LEMMA RespondCallInv == ASSUME CallInv, Respond PROVE CallInv'
<1>1. CallTypeOK /\ WaitersOK /\ (restarts = 0 => OneLife)
    BY DEF CallInv
<1>2. PICK m \in sent :
          LET found == {x \in waiters : x.id = m.id} IN
          /\ m.kind = "response" /\ sent' = sent \ {m} /\ waiters' = waiters \ found
          /\ chan' = [c \in Calls |-> IF \E x \in found : x.call = c THEN {m} ELSE chan[c]]
    BY DEF Respond
<1>3. UNCHANGED <<seq, messageSeq, call, restarts>>
    BY DEF Respond
<1> DEFINE found == {x \in waiters : x.id = m.id}
<1>4. m \in Messages /\ sent' = sent \ {m} /\ waiters' = waiters \ found
    BY <1>1, <1>2 DEF CallTypeOK
<1>5. \A c \in Calls : chan'[c] = IF \E x \in found : x.call = c THEN {m} ELSE chan[c]
    BY <1>2
<1>6. chan' \in [Calls -> SUBSET Messages]
    BY <1>1, <1>2, <1>4 DEF CallTypeOK
<1>7. CallTypeOK'
    BY <1>1, <1>3, <1>4, <1>6 DEF CallTypeOK
<1>8. WaitersOK'
    <2>1. ASSUME NEW x \in waiters' PROVE chan'[x.call] = {}
        <3>1. x \in waiters /\ x \notin found /\ x.call \in Calls
            BY <1>1, <1>4 DEF CallTypeOK
        <3>2. \A y \in found : y.call # x.call
            BY <1>1, <3>1 DEF WaitersOK
        <3> QED
            BY <1>1, <1>5, <3>1, <3>2 DEF WaitersOK
    <2>2. \A c \in Calls : chan'[c] # {} => call'[c].pc = "waiting"
        BY <1>1, <1>3, <1>5 DEF WaitersOK
    <2> QED
        BY <1>1, <1>3, <1>4, <2>1, <2>2 DEF WaitersOK
<1>9. restarts = 0 => OneLife'
    BY <1>1, <1>3, <1>4, <1>5 DEF OneLife
<1> QED
    BY <1>3, <1>7, <1>8, <1>9 DEF CallInv

\* A notification takes a MessageId; a crash forgets the calls of the life before.
LEMMA OtherCallInv == ASSUME CallInv, Publish \/ Restart \/ UNCHANGED <<requestVars, sent, restarts>> PROVE CallInv'
<1>1. CallTypeOK /\ WaitersOK /\ (restarts = 0 => OneLife)
    BY DEF CallInv
<1>2. CASE Publish
    <2>1. UNCHANGED <<seq, call, waiters, chan, sent, restarts>> /\ messageSeq' = messageSeq + 1
        BY <1>2 DEF Publish, buildClusterMessage
    <2>2. CallTypeOK' /\ WaitersOK'
        BY <1>1, <2>1 DEF CallTypeOK, WaitersOK
    <2>3. ASSUME restarts = 0 PROVE OneLife'
        <3>1. messageSeq \in Nat /\ (\A m \in sent : m.mid \in Nat) /\ (\A c \in Calls : call[c].mid \in Nat)
            BY <1>1 DEF CallTypeOK, CallRecords, Messages
        <3> QED
            BY <1>1, <2>1, <2>3, <3>1 DEF OneLife
    <2> QED
        BY <2>1, <2>2, <2>3 DEF CallInv
<1>3. CASE Restart
    <2> DEFINE r(c) == IF call[c].pc = "waiting" THEN [pc |-> "crashed", id |-> 0, mid |-> 0, answer |-> c] ELSE call[c]
    <2>1. /\ restarts' = restarts + 1 /\ seq' = 0 /\ messageSeq' = 0 /\ waiters' = {} /\ chan' = [c \in Calls |-> {}]
          /\ sent' = sent /\ call' = [c \in Calls |-> r(c)]
        BY <1>3 DEF Restart
    <2>2. \A c \in Calls : r(c) \in CallRecords
        <3>1. \A c \in Calls : call[c] \in CallRecords
            BY <1>1 DEF CallTypeOK
        <3>2. \A c \in Calls : [pc |-> "crashed", id |-> 0, mid |-> 0, answer |-> c] \in CallRecords
            BY DEF CallRecords, CallPlaces
        <3> QED
            BY <3>1, <3>2
    <2> HIDE DEF r
    <2>3. CallTypeOK'
        BY <1>1, <2>1, <2>2 DEF CallTypeOK
    <2>4. WaitersOK' /\ restarts' # 0
        BY <1>1, <2>1 DEF WaitersOK, CallTypeOK
    <2> QED
        BY <2>3, <2>4 DEF CallInv
<1>4. CASE UNCHANGED <<requestVars, sent, restarts>>
    BY <1>1, <1>4 DEF requestVars, CallInv, CallTypeOK, WaitersOK, OneLife
<1> QED
    BY <1>2, <1>3, <1>4

\* Every step.
LEMMA NextCallInv == CallInv /\ [ClusterNext]_clusterVars => CallInv'
<1> SUFFICES ASSUME CallInv, [ClusterNext]_clusterVars PROVE CallInv'
    OBVIOUS
<1>1. CASE Connect \/ Break \/ Reconnect \/ WatchConnection
    BY <1>1, OtherCallInv DEF Connect, Break, Reconnect, WatchConnection
<1>2. ASSUME NEW d \in Deliveries, EnqueueMsg(d) PROVE CallInv'
    BY <1>2, OtherCallInv DEF EnqueueMsg
<1>3. ASSUME NEW w \in Workers, Work(w) PROVE CallInv'
    BY <1>3, OtherCallInv DEF Work, WorkerTake, WorkerStop, Process
<1>4. CASE StopFlag \/ StopSteps
    BY <1>4, OtherCallInv DEF StopFlag, StopSteps, StopClose, StopLink
<1>5. CASE UNCHANGED clusterVars
    BY <1>5, OtherCallInv DEF clusterVars
<1>6. ASSUME NEW c \in Calls, Request(c) \/ Receive(c) \/ Timeout(c) PROVE CallInv'
    BY <1>6, RequestCallInv, ReceiveCallInv, TimeoutCallInv
<1> QED
    BY <1>1, <1>2, <1>3, <1>4, <1>5, <1>6, AnswerCallInv, RespondCallInv, OtherCallInv DEF ClusterNext

\* The waiters are the calls that wait, under different IDs, and a call returns the
\* answer to its own request as long as the node does not restart (Request,
\* RequestSync, the reply subscription), for any number of calls, lost and late
\* answers.
THEOREM CallsGetTheirAnswer == ClusterSpec => []AnswersMatch
<1>1. CallInv => AnswersMatch
    BY DEF CallInv, WaitersOK, OneLife, AnswersMatch
<1> QED
    BY <1>1, InitCallInv, NextCallInv, PTL DEF ClusterSpec

(***************************************************************************)
(* Discovery: what the nodes know of one another.                          *)
(***************************************************************************)

LoadSteps == {"down", "watch", "register", "sync", "apply", "up"}
WatchEvents == [type : {"PUT", "DELETE"}, node : Nodes, life : Nat]
ViewTypeOK ==
    /\ dmode \in {"nats", "etcd"} /\ dpc \in [Nodes -> LoadSteps] /\ life \in [Nodes -> Nat]
    /\ memberMap \in [Nodes -> [Nodes -> Nat]] /\ crashed \subseteq Nodes
    /\ store \in [Nodes -> Nat] /\ synced \in [Nodes -> [Nodes -> Nat]]
    /\ events \in [Nodes -> Seq(WatchEvents)]
    /\ \A n \in Nodes : dpc[n] # "down" => life[n] # 0

\* The messages under way: a list names lives of nodes, the others a node and a life.
MessagesOK ==
    \A msg \in wire :
        /\ msg.to \in Nodes /\ msg.kind \in {"register", "list", "add", "unregister"}
        /\ msg.kind = "list" => msg.list \in [Nodes -> Nat]
        /\ msg.kind # "list" => msg.node \in Nodes /\ msg.life \in Nat

\* A notice that b has stopped is under way to a.
Noticed(a, b) == \E u \in wire : u.kind = "unregister" /\ u.to = a /\ u.node = b
\* NATS: a member that has stopped is known only as long as the notice of that is under
\* way, or when the notice was missed.
NatsOK ==
    dmode = "nats" =>
        /\ \A n \in Nodes : dpc[n] \in {"down", "up"} /\ events[n] = <<>>
        /\ \A a, b \in Nodes : Up(a) /\ memberMap[a][b] # 0 /\ <<a, b>> \notin missed
                                   => Up(b) \/ b \in crashed \/ Noticed(a, b)

\* No event, or event i as the last one, of s is about b.
Silent(s, b) == \A i \in 1..Len(s) : s[i].node # b
LastAbout(s, b, i) == s[i].node = b /\ \A j \in 1..Len(s) : j > i => s[j].node # b
\* etcd: the last event that a watch has to deliver about a node says what the store
\* holds; without one, the view agrees with the store as far as the steps of Load have
\* come.
EtcdOK ==
    dmode = "etcd" =>
        /\ wire = {}
        /\ \A a \in Nodes : dpc[a] \in {"down", "watch"} => events[a] = <<>>
        /\ \A a, b \in Nodes : dpc[a] # "apply" => synced[a][b] = 0
        /\ \A a \in Nodes : \A i \in 1..Len(events[a]) : events[a][i].type = "PUT" => events[a][i].life # 0
        /\ \A a, b \in Nodes : \A i \in 1..Len(events[a]) :
              LastAbout(events[a], b, i) => (events[a][i].type = "PUT" <=> store[b] # 0)
        /\ \A a, b \in Nodes : dpc[a] # "down" /\ Silent(events[a], b) /\ <<a, b>> \notin missed
                                   => (memberMap[a][b] # 0 \/ synced[a][b] # 0 => store[b] # 0)
        /\ \A a, b \in Nodes : dpc[a] \in {"apply", "up"} /\ a \notin unsynced /\ Silent(events[a], b) /\ store[b] # 0
                                   => memberMap[a][b] # 0 \/ synced[a][b] # 0
ViewInv == ViewTypeOK /\ MessagesOK /\ NatsOK /\ EtcdOK

\* AddMember keeps a map, and a member that is known is not replaced.
LEMMA MemberAdded ==
    ASSUME NEW map \in [Nodes -> Nat], NEW m \in Nodes, NEW l \in Nat
    PROVE  /\ AddMember(map, m, l) \in [Nodes -> Nat]
           /\ \A b \in Nodes : AddMember(map, m, l)[b] = IF b = m /\ map[m] = 0 THEN l ELSE map[b]
BY DEF AddMember
\* AddMembers does the same for every member of a list.
LEMMA MembersAdded ==
    ASSUME NEW map \in [Nodes -> Nat], NEW list \in [Nodes -> Nat]
    PROVE  /\ AddMembers(map, list) \in [Nodes -> Nat]
           /\ \A b \in Nodes : AddMembers(map, list)[b] = IF map[b] = 0 THEN list[b] ELSE map[b]
BY DEF AddMembers
\* RemoveMember takes one member out and leaves the others.
LEMMA MemberRemoved ==
    ASSUME NEW map \in [Nodes -> Nat], NEW m \in Nodes
    PROVE  /\ RemoveMember(map, m) \in [Nodes -> Nat]
           /\ \A b \in Nodes : RemoveMember(map, m)[b] = IF b = m THEN 0 ELSE map[b]
BY DEF RemoveMember
\* The map of a node that has just started.
LEMMA NobodyKnown == NoMembers \in [Nodes -> Nat] /\ \A b \in Nodes : NoMembers[b] = 0
BY DEF NoMembers

\* A message that is published.
LEMMA Published ==
    ASSUME NEW kind, NEW n, NEW l, NEW to, NEW msg \in PublishTo(kind, n, l, to)
    PROVE  msg.kind = kind /\ msg.to \in to /\ msg.node = n /\ msg.life = l
BY DEF PublishTo, Message
\* Everybody a message is published to is sent one (Publish).
LEMMA Publishes ==
    ASSUME NEW kind, NEW n, NEW l, NEW to, NEW m \in to
    PROVE  \E msg \in PublishTo(kind, n, l, to) : msg.kind = kind /\ msg.to = m /\ msg.node = n
<1>1. Message(kind, m, n, l) \in PublishTo(kind, n, l, to)
    BY DEF PublishTo
<1> QED
    BY <1>1 DEF Message

\* Nobody is up.
LEMMA InitViewInv == DiscoveryInit => ViewInv
<1> SUFFICES ASSUME DiscoveryInit PROVE ViewInv
    OBVIOUS
<1>1. ViewTypeOK
    <2>1. NoMembers \in [Nodes -> Nat] /\ <<>> \in Seq(WatchEvents)
        BY DEF NoMembers
    <2> QED
        BY <2>1 DEF DiscoveryInit, ViewTypeOK, LoadSteps
<1>2. MessagesOK /\ NatsOK
    BY DEF DiscoveryInit, MessagesOK, NatsOK, Up
<1>3. EtcdOK
    <2>1. \A n \in Nodes : NoMembers[n] = 0
        BY DEF NoMembers
    <2>2. \A n \in Nodes : dpc[n] = "down" /\ events[n] = <<>> /\ Len(events[n]) = 0 /\ synced[n] = NoMembers
        BY DEF DiscoveryInit
    <2> QED
        BY <2>1, <2>2 DEF DiscoveryInit, EtcdOK
<1> QED
    BY <1>1, <1>2, <1>3 DEF ViewInv

\* What n is about to add is up, has crashed, will be unregistered or is missed.
LEMMA LateAdds ==
    ASSUME NEW n \in Nodes, NEW list, NEW b \in Nodes, list[b] # 0, missed' = LateAdd(n, list)
    PROVE  Up(b) \/ b \in crashed \/ Noticed(n, b) \/ <<n, b>> \in missed'
BY DEF LateAdd, Noticed

\* A removal that was missed stays so.
LEMMA MissedGrows ==
    ASSUME NEW n, NEW list, missed' = LateAdd(n, list)
    PROVE  missed \subseteq missed'
BY DEF LateAdd

\* What is forgotten when n starts is about n only.
LEMMA OthersKept ==
    ASSUME NEW pairs, NEW n
    PROVE  \A a, b : a # n /\ <<a, b>> \in pairs => <<a, b>> \in Others(pairs, n)
<1> SUFFICES ASSUME NEW a, NEW b, a # n, <<a, b>> \in pairs PROVE <<a, b>> \in Others(pairs, n)
    OBVIOUS
<1>1. <<a, b>>[1] = a
    OBVIOUS
<1> QED
    BY <1>1 DEF Others

\* The process of n ends: of the others, nothing has changed but what they are sent.
LEMMA GoneStep ==
    ASSUME ViewInv, NEW n \in Nodes, NEW published, Gone(n, published), crashed' \in {crashed, crashed \cup {n}},
           \A msg \in published : msg.kind = "unregister" /\ msg.to \in Nodes /\ msg.node \in Nodes /\ msg.life \in Nat
    PROVE  /\ ViewTypeOK' /\ MessagesOK'
           /\ \A a \in Nodes \ {n} : dpc'[a] = dpc[a] /\ memberMap'[a] = memberMap[a] /\ events'[a] = events[a] /\ synced'[a] = synced[a]
           /\ dpc'[n] = "down" /\ memberMap'[n] = NoMembers /\ events'[n] = <<>> /\ synced'[n] = NoMembers
<1>1. NoMembers \in [Nodes -> Nat] /\ <<>> \in Seq(WatchEvents) /\ "down" \in LoadSteps
    BY DEF NoMembers, LoadSteps
<1>2. ViewTypeOK'
    BY <1>1 DEF ViewInv, ViewTypeOK, Gone
<1>3. MessagesOK'
    BY DEF ViewInv, MessagesOK, Gone
<1> QED
    BY <1>2, <1>3 DEF ViewInv, ViewTypeOK, Gone

\* Messages come and go, and lists and notices are applied, with the NATS master.
LEMMA NatsSteps ==
    ASSUME ViewInv, dmode = "nats", DiscoveryNext
    PROVE  ViewInv'
<1> USE DEF ViewInv
<1>0. /\ \A n \in Nodes : dpc[n] \in {"down", "up"} /\ events[n] = <<>>
      /\ \A a, b \in Nodes : Up(a) /\ memberMap[a][b] # 0 /\ <<a, b>> \notin missed
                                => Up(b) \/ b \in crashed \/ Noticed(a, b)
    BY DEF NatsOK
<1>1. ASSUME NEW msg \in wire, ServeRegister(msg)
      PROVE  ViewInv'
    <2>1. msg.node \in Nodes /\ msg.life \in Nat /\ Master \in Nodes /\ memberMap[Master] \in [Nodes -> Nat]
        BY <1>1 DEF MessagesOK, ServeRegister, ViewTypeOK, Nodes
    <2>2. /\ memberMap' = [memberMap EXCEPT ![Master] = AddMember(memberMap[Master], msg.node, msg.life)]
          /\ AddMember(memberMap[Master], msg.node, msg.life) \in [Nodes -> Nat]
          /\ \A b \in Nodes : AddMember(memberMap[Master], msg.node, msg.life)[b]
                                = IF b = msg.node /\ memberMap[Master][msg.node] = 0 THEN msg.life ELSE memberMap[Master][b]
        <3>1. memberMap' = [memberMap EXCEPT ![Master] = AddMember(memberMap[Master], msg.node, msg.life)]
            BY <1>1 DEF ServeRegister
        <3> QED
            BY <2>1, <3>1, MemberAdded
    <2>3. ViewTypeOK'
        <3>1. UNCHANGED <<dmode, dpc, life, crashed, store, events, synced>>
            BY <1>1 DEF ServeRegister, etcdVars
        <3>2. memberMap' \in [Nodes -> [Nodes -> Nat]]
            BY <2>2 DEF ViewTypeOK
        <3> QED
            BY <3>1, <3>2 DEF ViewTypeOK
    <2>4. RemoveMember(memberMap'[Master], msg.node) \in [Nodes -> Nat]
        BY <2>1, <2>3, MemberRemoved DEF ViewTypeOK
    <2>5. \A u \in wire' : \/ u \in wire
                           \/ u.kind = "list" /\ u.to = msg.node /\ u.list = RemoveMember(memberMap'[Master], msg.node)
                           \/ u.kind = "add" /\ u.to \in Clients /\ u.node = msg.node /\ u.life = msg.life
        <3> DEFINE answer == {[kind |-> "list", to |-> msg.node, life |-> msg.life, try |-> msg.try,
                               list |-> RemoveMember(memberMap'[Master], msg.node)]
                                : i \in IF Up(msg.node) THEN {1} ELSE {}}
                   notices == PublishTo("add", msg.node, msg.life, {c \in Clients : Up(c)})
        <3>1. wire' \subseteq wire \cup answer \cup notices
            BY <1>1 DEF ServeRegister
        <3>2. \A u \in answer : u.kind = "list" /\ u.to = msg.node /\ u.list = RemoveMember(memberMap'[Master], msg.node)
            OBVIOUS
        <3>3. \A u \in notices : u.kind = "add" /\ u.to \in Clients /\ u.node = msg.node /\ u.life = msg.life
            BY Published
        <3> HIDE DEF answer, notices
        <3> QED
            BY <3>1, <3>2, <3>3
    <2>6. MessagesOK'
        BY <2>1, <2>4, <2>5 DEF MessagesOK, Nodes
    <2>7. \A u \in wire : u.kind = "unregister" => u \in wire'
        BY <1>1 DEF ServeRegister
    <2>8. UNCHANGED <<dmode, dpc, crashed, events>> /\ missed \subseteq missed'
        BY <1>1, MissedGrows DEF ServeRegister, etcdVars
    <2>9. NatsOK'
        <3> SUFFICES ASSUME NEW a \in Nodes, NEW b \in Nodes, Up(a)', memberMap'[a][b] # 0, <<a, b>> \notin missed'
                     PROVE  Up(b)' \/ b \in crashed' \/ Noticed(a, b)'
            BY <1>0, <2>8 DEF NatsOK
        <3>1. Noticed(a, b) => Noticed(a, b)'
            BY <2>7 DEF Noticed
        <3>2. CASE memberMap[a][b] # 0
            BY <1>0, <2>8, <3>1, <3>2 DEF Up
        <3>3. CASE memberMap[a][b] = 0
            <4>1. a = Master /\ b = msg.node /\ msg.life # 0
                BY <2>1, <2>2, <3>3 DEF ViewTypeOK
            <4>2. [NoMembers EXCEPT ![msg.node] = msg.life][b] # 0
                BY <4>1 DEF NoMembers
            <4>3. missed' = LateAdd(Master, [NoMembers EXCEPT ![msg.node] = msg.life])
                BY <1>1 DEF ServeRegister
            <4>4. Up(b) \/ b \in crashed \/ Noticed(Master, b) \/ <<Master, b>> \in missed'
                BY <2>1, <4>2, <4>3, LateAdds
            <4> QED
                BY <2>8, <3>1, <4>1, <4>4 DEF Up
        <3> QED
            BY <3>2, <3>3
    <2> QED
        BY <2>3, <2>6, <2>8, <2>9 DEF EtcdOK
<1>2. ASSUME NEW msg \in wire, ApplyList(msg)
      PROVE  ViewInv'
    <2>1. msg.kind = "list" /\ msg.to \in Nodes /\ msg.list \in [Nodes -> Nat] /\ wire' = wire \ {msg}
          /\ UNCHANGED <<dmode, dpc, life, crashed, store, events, synced, unsynced>>
        BY <1>2 DEF MessagesOK, ApplyList, etcdVars
    <2>2. \/ UNCHANGED <<memberMap, missed>>
          \/ memberMap' = [memberMap EXCEPT ![msg.to] = AddMembers(@, msg.list)] /\ missed' = LateAdd(msg.to, msg.list)
        BY <1>2 DEF ApplyList
    <2>3. /\ AddMembers(memberMap[msg.to], msg.list) \in [Nodes -> Nat]
          /\ \A b \in Nodes : AddMembers(memberMap[msg.to], msg.list)[b] = IF memberMap[msg.to][b] = 0 THEN msg.list[b] ELSE memberMap[msg.to][b]
        BY <2>1, MembersAdded DEF ViewTypeOK
    <2>4. ViewTypeOK' /\ MessagesOK'
        <3>1. memberMap' \in [Nodes -> [Nodes -> Nat]]
            BY <2>1, <2>2, <2>3 DEF ViewTypeOK
        <3>2. MessagesOK'
            BY <2>1 DEF MessagesOK
        <3> QED
            BY <2>1, <3>1, <3>2 DEF ViewTypeOK
    <2>5. missed \subseteq missed'
        BY <2>2, MissedGrows
    <2>6. NatsOK'
        <3> SUFFICES ASSUME NEW a \in Nodes, NEW b \in Nodes, Up(a)', memberMap'[a][b] # 0, <<a, b>> \notin missed'
                     PROVE  Up(b)' \/ b \in crashed' \/ Noticed(a, b)'
            BY <1>0, <2>1 DEF NatsOK
        <3>1. Noticed(a, b) => Noticed(a, b)'
            BY <2>1 DEF Noticed
        <3>2. CASE memberMap[a][b] # 0
            BY <1>0, <2>1, <2>5, <3>1, <3>2 DEF Up
        <3>3. CASE memberMap[a][b] = 0
            <4>1. a = msg.to /\ msg.list[b] # 0 /\ missed' = LateAdd(msg.to, msg.list)
                BY <2>1, <2>2, <2>3, <3>3 DEF ViewTypeOK
            <4>2. Up(b) \/ b \in crashed \/ Noticed(msg.to, b) \/ <<msg.to, b>> \in missed'
                BY <2>1, <4>1, LateAdds
            <4> QED
                BY <2>1, <3>1, <4>1, <4>2 DEF Up
        <3> QED
            BY <3>2, <3>3
    <2> QED
        BY <2>1, <2>4, <2>6 DEF EtcdOK
<1>3. ASSUME NEW msg \in wire, HandleAdd(msg)
      PROVE  ViewInv'
    <2>1. msg.kind = "add" /\ msg.to \in Nodes /\ msg.node \in Nodes /\ msg.life \in Nat /\ wire' = wire \ {msg}
          /\ UNCHANGED <<dmode, dpc, life, crashed, store, events, synced, unsynced>>
        BY <1>3 DEF MessagesOK, HandleAdd, etcdVars
    <2>2. /\ memberMap' = [memberMap EXCEPT ![msg.to] = AddMember(@, msg.node, msg.life)]
          /\ missed' = LateAdd(msg.to, [NoMembers EXCEPT ![msg.node] = msg.life])
        BY <1>3 DEF HandleAdd
    <2>3. /\ AddMember(memberMap[msg.to], msg.node, msg.life) \in [Nodes -> Nat]
          /\ \A b \in Nodes : AddMember(memberMap[msg.to], msg.node, msg.life)[b]
                                = IF b = msg.node /\ memberMap[msg.to][msg.node] = 0 THEN msg.life ELSE memberMap[msg.to][b]
        <3>1. memberMap[msg.to] \in [Nodes -> Nat] /\ msg.node \in Nodes /\ msg.life \in Nat
            BY <2>1 DEF ViewTypeOK
        <3> QED
            BY <3>1, MemberAdded
    <2>4. ViewTypeOK' /\ MessagesOK'
        BY <2>1, <2>2, <2>3 DEF ViewTypeOK, MessagesOK
    <2>5. missed \subseteq missed'
        BY <2>2, MissedGrows
    <2>6. NatsOK'
        <3> SUFFICES ASSUME NEW a \in Nodes, NEW b \in Nodes, Up(a)', memberMap'[a][b] # 0, <<a, b>> \notin missed'
                     PROVE  Up(b)' \/ b \in crashed' \/ Noticed(a, b)'
            BY <1>0, <2>1 DEF NatsOK
        <3>1. Noticed(a, b) => Noticed(a, b)'
            BY <2>1 DEF Noticed
        <3>2. CASE memberMap[a][b] # 0
            BY <1>0, <2>1, <2>5, <3>1, <3>2 DEF Up
        <3>3. CASE memberMap[a][b] = 0
            <4>1. a = msg.to /\ b = msg.node /\ msg.life # 0
                BY <2>1, <2>2, <2>3, <3>3 DEF ViewTypeOK
            <4>2. [NoMembers EXCEPT ![msg.node] = msg.life][b] # 0
                BY <4>1 DEF NoMembers
            <4>3. Up(b) \/ b \in crashed \/ Noticed(msg.to, b) \/ <<msg.to, b>> \in missed'
                BY <2>1, <2>2, <4>2, LateAdds
            <4> QED
                BY <2>1, <3>1, <4>1, <4>3 DEF Up
        <3> QED
            BY <3>2, <3>3
    <2> QED
        BY <2>1, <2>4, <2>6 DEF EtcdOK
<1>4. ASSUME NEW msg \in wire, HandleUnregister(msg)
      PROVE  ViewInv'
    <2>1. msg.kind = "unregister" /\ msg.to \in Nodes /\ msg.node \in Nodes /\ wire' = wire \ {msg}
          /\ UNCHANGED <<dmode, dpc, life, crashed, store, events, synced, unsynced, missed>>
        BY <1>4 DEF MessagesOK, HandleUnregister, etcdVars
    <2>2. memberMap' = [memberMap EXCEPT ![msg.to] = IF msg.to = msg.node THEN @ ELSE RemoveMember(@, msg.node)]
        BY <1>4 DEF HandleUnregister
    <2>3. /\ RemoveMember(memberMap[msg.to], msg.node) \in [Nodes -> Nat]
          /\ \A b \in Nodes : RemoveMember(memberMap[msg.to], msg.node)[b] = IF b = msg.node THEN 0 ELSE memberMap[msg.to][b]
        BY <2>1, MemberRemoved DEF ViewTypeOK
    <2>4. ViewTypeOK' /\ MessagesOK'
        BY <2>1, <2>2, <2>3 DEF ViewTypeOK, MessagesOK
    <2>5. NatsOK'
        <3> SUFFICES ASSUME NEW a \in Nodes, NEW b \in Nodes, Up(a)', memberMap'[a][b] # 0, <<a, b>> \notin missed'
                     PROVE  Up(b)' \/ b \in crashed' \/ Noticed(a, b)'
            BY <1>0, <2>1 DEF NatsOK
        <3>1. memberMap[a][b] # 0 /\ (a = b \/ a # msg.to \/ b # msg.node)
            BY <2>1, <2>2, <2>3 DEF ViewTypeOK
        <3>2. a # b /\ Noticed(a, b) => Noticed(a, b)'
            BY <2>1, <3>1 DEF Noticed
        <3> QED
            BY <1>0, <2>1, <3>1, <3>2 DEF Up
    <2> QED
        BY <2>1, <2>4, <2>5 DEF EtcdOK
<1>5. ASSUME NEW n \in Nodes, NatsLoad(n)
      PROVE  ViewInv'
    <2>1. /\ life[n] + 1 \in Nat \ {0} /\ NoMembers \in [Nodes -> Nat] /\ AddMember(NoMembers, n, life[n] + 1) \in [Nodes -> Nat]
          /\ \A b \in Nodes : NoMembers[b] = 0
          /\ \A b \in Nodes : b # n => AddMember(NoMembers, n, life[n] + 1)[b] = 0
        <3>1. life[n] + 1 \in Nat \ {0}
            BY DEF ViewTypeOK
        <3>2. /\ AddMember(NoMembers, n, life[n] + 1) \in [Nodes -> Nat]
              /\ \A b \in Nodes : AddMember(NoMembers, n, life[n] + 1)[b]
                                     = IF b = n /\ NoMembers[n] = 0 THEN life[n] + 1 ELSE NoMembers[b]
            BY <3>1, NobodyKnown, MemberAdded
        <3> QED
            BY <3>1, <3>2, NobodyKnown
    <2>2. life' = [life EXCEPT ![n] = life[n] + 1] /\ dpc' = [dpc EXCEPT ![n] = "up"] /\ crashed' = crashed \ {n}
          /\ UNCHANGED <<dmode, wire, store, events, synced, unsynced>> /\ missed' = Others(missed, n)
        BY <1>5 DEF NatsLoad, etcdVars
    <2>3. memberMap' = [memberMap EXCEPT ![n] = IF n = Master THEN AddMember(NoMembers, n, life[n] + 1) ELSE NoMembers]
        BY <1>5, <2>2 DEF NatsLoad, ViewTypeOK
    <2>4. ViewTypeOK' /\ MessagesOK'
        BY <2>1, <2>2, <2>3 DEF ViewTypeOK, MessagesOK, LoadSteps
    <2>5. NatsOK'
        <3>1. \A a, b \in Nodes : a # n /\ Up(a)' => Up(a) /\ memberMap'[a] = memberMap[a]
            BY <2>2, <2>3 DEF Up, ViewTypeOK
        <3>2. \A b \in Nodes : b # n => memberMap'[n][b] = 0
            BY <2>1, <2>3 DEF ViewTypeOK
        <3>3. \A b \in Nodes : (b = n => Up(b)') /\ (Up(b) => Up(b)')
            BY <2>2 DEF Up, ViewTypeOK
        <3>4. \A a, b \in Nodes : Noticed(a, b) => Noticed(a, b)'
            BY <2>2 DEF Noticed
        <3>5. \A m \in Nodes : dpc'[m] \in {"down", "up"} /\ events'[m] = <<>>
            BY <1>0, <2>2 DEF ViewTypeOK
        <3>6. \A a, b \in Nodes : a # n /\ <<a, b>> \in missed => <<a, b>> \in missed'
            BY <2>2, OthersKept
        <3> QED
            BY <1>0, <2>2, <3>1, <3>2, <3>3, <3>4, <3>5, <3>6 DEF NatsOK
    <2> QED
        BY <2>2, <2>4, <2>5 DEF EtcdOK
<1>6. ASSUME NEW n \in Nodes, NatsStep(n)
      PROVE  ViewInv'
    <2>1. /\ UNCHANGED <<dmode, dpc, life, memberMap, crashed, missed, store, events, synced, unsynced>>
          /\ \A msg \in wire' : msg \in wire \/ (msg.kind = "register" /\ msg.to = Master /\ msg.node = n /\ msg.life = life[n])
          /\ wire \subseteq wire'
        <3>1. CASE CheckMaster(n)
            <4> DEFINE r == [kind |-> "register", to |-> Master, node |-> n, life |-> life[n], try |-> register'[n].try]
            <4>1. r.kind = "register" /\ r.to = Master /\ r.node = n /\ r.life = life[n]
                OBVIOUS
            <4>2. wire' = wire \cup {r}
                BY <3>1 DEF CheckMaster
            <4>3. UNCHANGED <<dmode, dpc, life, memberMap, crashed, missed, store, events, synced, unsynced>>
                BY <3>1 DEF CheckMaster, etcdVars
            <4> HIDE DEF r
            <4> QED
                BY <4>1, <4>2, <4>3
        <3>2. CASE RegisterTimeout(n)
            <4>1. UNCHANGED <<dmode, dpc, life, memberMap, crashed, missed, wire, store, events, synced, unsynced>>
                BY <3>2 DEF RegisterTimeout, etcdVars
            <4> QED
                BY <4>1
        <3> QED
            BY <1>6, <3>1, <3>2 DEF NatsStep
    <2>2. ViewTypeOK' /\ MessagesOK'
        BY <2>1 DEF ViewTypeOK, MessagesOK, Nodes
    <2>3. NatsOK'
        BY <1>0, <2>1 DEF NatsOK, Up, Noticed
    <2> QED
        BY <2>1, <2>2, <2>3 DEF EtcdOK
<1>7. ASSUME NEW n \in Nodes, NatsStop(n) \/ DiscoveryCrash(n)
      PROVE  ViewInv'
    <2>1. PICK published : /\ Gone(n, published)
                           /\ \/ published = PublishTo("unregister", n, life[n], {m \in Nodes : Up(m)}) /\ crashed' = crashed
                              \/ published = {} /\ crashed' = crashed \cup {n}
        BY <1>7 DEF NatsStop, DiscoveryCrash
    <2>2. \A msg \in published : msg.kind = "unregister" /\ msg.to \in Nodes /\ msg.node \in Nodes /\ msg.life \in Nat
        BY <2>1, Published DEF ViewTypeOK
    <2>3. /\ ViewTypeOK' /\ MessagesOK'
          /\ \A a \in Nodes \ {n} : dpc'[a] = dpc[a] /\ memberMap'[a] = memberMap[a] /\ events'[a] = events[a] /\ synced'[a] = synced[a]
          /\ dpc'[n] = "down" /\ memberMap'[n] = NoMembers /\ events'[n] = <<>> /\ synced'[n] = NoMembers
        BY <2>1, <2>2, GoneStep
    <2>4. UNCHANGED <<dmode, missed>> /\ wire' = {msg \in wire \cup published : msg.to # n}
        BY <2>1 DEF Gone
    <2>5. ASSUME NEW a \in Nodes, NEW b \in Nodes, Up(a)', memberMap'[a][b] # 0, <<a, b>> \notin missed'
          PROVE  Up(b)' \/ b \in crashed' \/ Noticed(a, b)'
        <3>1. a # n /\ Up(a) /\ memberMap[a][b] # 0
            BY <2>3, <2>5 DEF Up
        <3>2. Noticed(a, b) => Noticed(a, b)'
            BY <2>4, <3>1 DEF Noticed
        <3>3. CASE b # n
            BY <1>0, <2>1, <2>3, <2>4, <2>5, <3>1, <3>2, <3>3 DEF Up
        <3>4. CASE b = n
            <4>1. CASE published = PublishTo("unregister", n, life[n], {m \in Nodes : Up(m)})
                <5>1. \E msg \in PublishTo("unregister", n, life[n], {m \in Nodes : Up(m)}) :
                            msg.kind = "unregister" /\ msg.to = a /\ msg.node = n
                    <6> DEFINE others == {m \in Nodes : Up(m)}
                    <6>1. a \in others
                        BY <3>1
                    <6> HIDE DEF others
                    <6>2. \E msg \in PublishTo("unregister", n, life[n], others) :
                              msg.kind = "unregister" /\ msg.to = a /\ msg.node = n
                        BY <6>1, Publishes
                    <6> QED
                        BY <6>2 DEF others
                <5> QED
                    BY <2>4, <3>1, <3>4, <4>1, <5>1 DEF Noticed
            <4> QED
                BY <2>1, <3>4, <4>1
        <3> QED
            BY <3>3, <3>4
    <2>6. NatsOK'
        BY <1>0, <2>3, <2>5 DEF NatsOK
    <2> QED
        BY <2>3, <2>4, <2>6 DEF EtcdOK
<1>8. \A n \in Nodes : ~EtcdLoad(n) /\ ~EtcdStep(n) /\ ~EtcdStop(n)
    BY <1>0 DEF EtcdLoad, EtcdStep, EtcdStop, Watch, Register, ForceSync, HandleEvent
<1>9. ASSUME NEW msg \in wire, Lose(msg)
      PROVE  ViewInv'
    <2>1. /\ UNCHANGED <<dmode, dpc, life, memberMap, crashed, store, events, synced, unsynced>> /\ wire' = wire \ {msg}
          /\ missed' = IF msg.kind = "unregister" THEN missed \cup {<<msg.to, msg.node>>} ELSE missed
        BY <1>9 DEF Lose, etcdVars
    <2>2. ViewTypeOK' /\ MessagesOK'
        BY <2>1 DEF ViewTypeOK, MessagesOK
    <2>3. \A a, b \in Nodes : Noticed(a, b) /\ <<a, b>> \notin missed' => Noticed(a, b)'
        BY <2>1 DEF Noticed
    <2>4. missed \subseteq missed'
        BY <2>1
    <2>5. NatsOK'
        BY <1>0, <2>1, <2>3, <2>4 DEF NatsOK, Up
    <2> QED
        BY <2>1, <2>2, <2>5 DEF EtcdOK
<1> QED
    BY <1>1, <1>2, <1>3, <1>4, <1>5, <1>6, <1>7, <1>8, <1>9 DEF DiscoveryNext, NodeStep, Deliver

\* A commit adds an event at the end of what a watch has to deliver.
LEMMA Committed ==
    ASSUME NEW s \in Seq(WatchEvents), NEW e \in WatchEvents
    PROVE  /\ Append(s, e) \in Seq(WatchEvents) /\ ~Silent(Append(s, e), e.node)
           /\ \A b : b # e.node => (Silent(Append(s, e), b) <=> Silent(s, b))
           /\ \A i \in 1..Len(Append(s, e)) :
                 \/ i \in 1..Len(s) /\ Append(s, e)[i] = s[i] /\ ~LastAbout(Append(s, e), e.node, i)
                    /\ \A b : LastAbout(Append(s, e), b, i) => LastAbout(s, b, i)
                 \/ Append(s, e)[i] = e
<1> DEFINE t == Append(s, e)
<1>1. t \in Seq(WatchEvents) /\ Len(t) = Len(s) + 1 /\ Len(s) \in Nat /\ t[Len(s) + 1] = e /\ \A i \in 1..Len(s) : t[i] = s[i]
    OBVIOUS
<1> HIDE DEF t
<1>2. ~Silent(t, e.node) /\ \A b : b # e.node => (Silent(t, b) <=> Silent(s, b))
    BY <1>1 DEF Silent
<1>3. ASSUME NEW i \in 1..Len(t)
      PROVE  \/ i \in 1..Len(s) /\ t[i] = s[i] /\ ~LastAbout(t, e.node, i) /\ \A b : LastAbout(t, b, i) => LastAbout(s, b, i)
             \/ t[i] = e
    BY <1>1 DEF LastAbout
<1> QED
    BY <1>1, <1>2, <1>3 DEF t

\* The watch delivers the first one.
LEMMA Delivered ==
    ASSUME NEW s \in Seq(WatchEvents), s # <<>>
    PROVE  /\ Tail(s) \in Seq(WatchEvents) /\ Head(s) \in WatchEvents /\ Head(s) = s[1] /\ 1 \in 1..Len(s)
           /\ Silent(Tail(s), Head(s).node) => LastAbout(s, Head(s).node, 1)
           /\ \A b : b # Head(s).node => (Silent(Tail(s), b) <=> Silent(s, b))
           /\ \A i \in 1..Len(Tail(s)) : i + 1 \in 1..Len(s) /\ Tail(s)[i] = s[i + 1]
                                         /\ \A b : LastAbout(Tail(s), b, i) => LastAbout(s, b, i + 1)
<1> DEFINE t == Tail(s)
<1>1. /\ t \in Seq(WatchEvents) /\ Len(t) = Len(s) - 1 /\ Len(s) \in Nat \ {0} /\ Head(s) = s[1] /\ Head(s) \in WatchEvents
      /\ \A i \in 1..Len(t) : t[i] = s[i + 1]
    OBVIOUS
<1> HIDE DEF t
<1>2. \A j \in 1..Len(s) : j = 1 \/ (j - 1 \in 1..Len(t) /\ t[j - 1] = s[j])
    BY <1>1
<1>3. \A b : b # Head(s).node => (Silent(t, b) <=> Silent(s, b))
    BY <1>1, <1>2 DEF Silent
<1>4. Silent(t, Head(s).node) => LastAbout(s, Head(s).node, 1)
    BY <1>1, <1>2 DEF Silent, LastAbout
<1>5. \A i \in 1..Len(t) : i + 1 \in 1..Len(s) /\ t[i] = s[i + 1] /\ \A b : LastAbout(t, b, i) => LastAbout(s, b, i + 1)
    <2>1. ASSUME NEW i \in 1..Len(t), NEW b, LastAbout(t, b, i), NEW j \in 1..Len(s), j > i + 1
          PROVE  s[j].node # b
        <3>1. j - 1 \in 1..Len(t) /\ t[j - 1] = s[j] /\ j - 1 > i
            BY <1>1, <1>2, <2>1
        <3> QED
            BY <2>1, <3>1 DEF LastAbout
    <2>2. \A i \in 1..Len(t) : i + 1 \in 1..Len(s) /\ t[i] = s[i + 1]
        BY <1>1
    <2> QED
        BY <2>1, <2>2 DEF LastAbout
<1>6. 1 \in 1..Len(s)
    BY <1>1
<1> QED
    BY <1>1, <1>3, <1>4, <1>5, <1>6 DEF t

\* An event of b reaches every watch when the store of b changes with it.
LEMMA CommitStep ==
    ASSUME ViewInv, dmode = "etcd", NEW e \in WatchEvents, e.type = "PUT" => e.life # 0
    PROVE  LET t == Commit(e) IN
           /\ t \in [Nodes -> Seq(WatchEvents)]
           /\ \A a \in Nodes : dpc[a] \in {"down", "watch"} => t[a] = <<>>
           /\ \A a \in Nodes : \A i \in 1..Len(t[a]) : t[a][i].type = "PUT" => t[a][i].life # 0
           /\ \A a, b \in Nodes : b # e.node => (Silent(t[a], b) <=> Silent(events[a], b))
           /\ \A a, b \in Nodes : \A i \in 1..Len(t[a]) : LastAbout(t[a], b, i) =>
                  IF b = e.node THEN t[a][i] = e ELSE i \in 1..Len(events[a]) /\ t[a][i] = events[a][i] /\ LastAbout(events[a], b, i)
           /\ \A a \in Nodes : Watching(a) => ~Silent(t[a], e.node)
<1> DEFINE t == Commit(e)
<1>1. \A a \in Nodes : events[a] \in Seq(WatchEvents)
    BY DEF ViewInv, ViewTypeOK
<1>2. \A a \in Nodes : t[a] = IF Watching(a) THEN Append(events[a], e) ELSE events[a]
    BY DEF Commit
<1>3. /\ \A a \in Nodes : dpc[a] \in {"down", "watch"} => events[a] = <<>>
      /\ \A a \in Nodes : ~Watching(a) <=> dpc[a] \in {"down", "watch"}
      /\ \A a \in Nodes : \A i \in 1..Len(events[a]) : events[a][i].type = "PUT" => events[a][i].life # 0
    BY DEF ViewInv, EtcdOK, ViewTypeOK, LoadSteps, Watching
<1>4. t \in [Nodes -> Seq(WatchEvents)]
    BY <1>1, Committed DEF Commit
<1> HIDE DEF t
<1>5. ASSUME NEW a \in Nodes, Watching(a)
      PROVE  /\ \A i \in 1..Len(t[a]) : t[a][i].type = "PUT" => t[a][i].life # 0
             /\ \A b \in Nodes : b # e.node => (Silent(t[a], b) <=> Silent(events[a], b))
             /\ \A b \in Nodes : \A i \in 1..Len(t[a]) : LastAbout(t[a], b, i) =>
                    IF b = e.node THEN t[a][i] = e ELSE i \in 1..Len(events[a]) /\ t[a][i] = events[a][i] /\ LastAbout(events[a], b, i)
             /\ ~Silent(t[a], e.node)
    <2>1. t[a] = Append(events[a], e)
        BY <1>2, <1>5
    <2>2. /\ ~Silent(t[a], e.node)
          /\ \A b : b # e.node => (Silent(t[a], b) <=> Silent(events[a], b))
          /\ \A i \in 1..Len(t[a]) :
                 \/ i \in 1..Len(events[a]) /\ t[a][i] = events[a][i] /\ ~LastAbout(t[a], e.node, i)
                    /\ \A b : LastAbout(t[a], b, i) => LastAbout(events[a], b, i)
                 \/ t[a][i] = e
        BY <1>1, <2>1, Committed
    <2>3. \A b, i : LastAbout(t[a], b, i) => t[a][i].node = b
        BY DEF LastAbout
    <2>4. \A i \in 1..Len(t[a]) : t[a][i].type = "PUT" => t[a][i].life # 0
        BY <1>3, <2>2
    <2> QED
        BY <2>2, <2>3, <2>4
<1>6. ASSUME NEW a \in Nodes, ~Watching(a)
      PROVE  t[a] = <<>> /\ events[a] = <<>> /\ Len(t[a]) = 0 /\ \A b : Silent(t[a], b) /\ Silent(events[a], b)
    <2>1. t[a] = <<>> /\ events[a] = <<>>
        BY <1>2, <1>3, <1>6
    <2> QED
        BY <2>1 DEF Silent
<1> QED
    BY <1>3, <1>4, <1>5, <1>6 DEF t

\* The view of a node follows what is committed, with etcd.
LEMMA EtcdSteps ==
    ASSUME ViewInv, dmode = "etcd", DiscoveryNext
    PROVE  ViewInv'
<1> USE DEF ViewInv
<1>0. /\ wire = {}
      /\ \A a \in Nodes : dpc[a] \in {"down", "watch"} => events[a] = <<>>
      /\ \A a, b \in Nodes : dpc[a] # "apply" => synced[a][b] = 0
      /\ \A a \in Nodes : \A i \in 1..Len(events[a]) : events[a][i].type = "PUT" => events[a][i].life # 0
      /\ \A a, b \in Nodes : \A i \in 1..Len(events[a]) :
            LastAbout(events[a], b, i) => (events[a][i].type = "PUT" <=> store[b] # 0)
      /\ \A a, b \in Nodes : dpc[a] # "down" /\ Silent(events[a], b) /\ <<a, b>> \notin missed
                                 => (memberMap[a][b] # 0 \/ synced[a][b] # 0 => store[b] # 0)
      /\ \A a, b \in Nodes : dpc[a] \in {"apply", "up"} /\ a \notin unsynced /\ Silent(events[a], b) /\ store[b] # 0
                                 => memberMap[a][b] # 0 \/ synced[a][b] # 0
    BY DEF EtcdOK
<1>P. \A a \in Nodes : \A i \in 1..Len(events[a]) : events[a][i].type = "PUT" => events[a][i].life # 0
    BY <1>0
<1>L. \A a, b \in Nodes : \A i \in 1..Len(events[a]) :
          LastAbout(events[a], b, i) => (events[a][i].type = "PUT" <=> store[b] # 0)
    BY <1>0
<1>K. \A a, b \in Nodes : dpc[a] # "down" /\ Silent(events[a], b) /\ <<a, b>> \notin missed
                              => (memberMap[a][b] # 0 \/ synced[a][b] # 0 => store[b] # 0)
    BY <1>0
<1>S. \A a, b \in Nodes : dpc[a] \in {"apply", "up"} /\ a \notin unsynced /\ Silent(events[a], b) /\ store[b] # 0
                              => memberMap[a][b] # 0 \/ synced[a][b] # 0
    BY <1>0
<1>a. \A a \in Nodes : dpc[a] \in LoadSteps /\ memberMap[a] \in [Nodes -> Nat] /\ synced[a] \in [Nodes -> Nat] /\ life[a] \in Nat
                       /\ events[a] \in Seq(WatchEvents)
    BY DEF ViewTypeOK
<1>b. \A b : Silent(<<>>, b)
    BY DEF Silent
<1>1. ~Deliver /\ (\A msg \in wire : ~Lose(msg)) /\ \A n \in Nodes : ~NatsLoad(n) /\ ~NatsStop(n) /\ ~CheckMaster(n)
    BY <1>0 DEF Deliver, NatsLoad, NatsStop, CheckMaster
<1>2. ASSUME NEW n \in Nodes, RegisterTimeout(n)
      PROVE  ViewInv'
    <2>1. UNCHANGED <<dmode, dpc, life, memberMap, wire, crashed, missed, store, events, synced, unsynced>>
        BY <1>2 DEF RegisterTimeout, etcdVars
    <2>2. ViewTypeOK' /\ MessagesOK' /\ NatsOK'
        BY <2>1 DEF ViewTypeOK, MessagesOK, NatsOK
    <2>3. EtcdOK'
        BY <2>1 DEF EtcdOK
    <2> QED
        BY <2>2, <2>3
<1>3. ASSUME NEW n \in Nodes, DiscoveryCrash(n)
      PROVE  ViewInv'
    <2>1. Gone(n, {}) /\ crashed' \in {crashed, crashed \cup {n}}
        BY <1>3 DEF DiscoveryCrash
    <2>2. /\ ViewTypeOK' /\ MessagesOK'
          /\ \A a \in Nodes \ {n} : dpc'[a] = dpc[a] /\ memberMap'[a] = memberMap[a] /\ events'[a] = events[a] /\ synced'[a] = synced[a]
          /\ dpc'[n] = "down" /\ memberMap'[n] = NoMembers /\ events'[n] = <<>> /\ synced'[n] = NoMembers
        BY <2>1, GoneStep
    <2>3. UNCHANGED <<dmode, missed, store, unsynced>> /\ wire' = {}
        BY <1>0, <2>1 DEF Gone
    <2>4. Len(events'[n]) = 0 /\ \A b \in Nodes : synced'[n][b] = 0
        BY <2>2, NobodyKnown
    <2>6. \A a \in Nodes : dpc'[a] # "down" => a # n
        BY <2>2
    <2>7. \A a, b \in Nodes : dpc'[a] # "down" /\ Silent(events'[a], b) /\ <<a, b>> \notin missed'
                                  => (memberMap'[a][b] # 0 \/ synced'[a][b] # 0 => store'[b] # 0)
        BY <1>K, <2>2, <2>3, <2>6
    <2>8. \A a, b \in Nodes : dpc'[a] \in {"apply", "up"} /\ a \notin unsynced' /\ Silent(events'[a], b) /\ store'[b] # 0
                                  => memberMap'[a][b] # 0 \/ synced'[a][b] # 0
        BY <1>S, <2>2, <2>3, <2>6
    <2>9. \A a, b \in Nodes : \A i \in 1..Len(events'[a]) :
              LastAbout(events'[a], b, i) => (events'[a][i].type = "PUT" <=> store'[b] # 0)
        BY <1>L, <2>2, <2>3, <2>4
    <2>5. EtcdOK'
        BY <1>0, <2>2, <2>3, <2>4, <2>7, <2>8, <2>9 DEF EtcdOK
    <2> QED
        BY <2>2, <2>3, <2>5 DEF NatsOK
<1>4. ASSUME NEW n \in Nodes, EtcdLoad(n)
      PROVE  ViewInv'
    <2>1. /\ UNCHANGED <<dmode, wire, store, events, synced>> /\ crashed' = crashed \ {n} /\ dpc[n] = "down"
          /\ life' = [life EXCEPT ![n] = life[n] + 1] /\ dpc' = [dpc EXCEPT ![n] = "watch"]
          /\ missed' = Others(missed, n) /\ unsynced' = unsynced \ {n}
        BY <1>4 DEF EtcdLoad, natsVars
    <2>0. PICK map \in {NoMembers, AddMembers(NoMembers, store)} : memberMap' = [memberMap EXCEPT ![n] = map]
        BY <1>4 DEF EtcdLoad
    <2>2. /\ AddMembers(NoMembers, store) \in [Nodes -> Nat]
          /\ \A b \in Nodes : AddMembers(NoMembers, store)[b] = store[b]
        <3>1. store \in [Nodes -> Nat] /\ NoMembers \in [Nodes -> Nat]
            BY NobodyKnown DEF ViewTypeOK
        <3>2. /\ AddMembers(NoMembers, store) \in [Nodes -> Nat]
              /\ \A b \in Nodes : AddMembers(NoMembers, store)[b] = IF NoMembers[b] = 0 THEN store[b] ELSE NoMembers[b]
            BY <3>1, MembersAdded
        <3> QED
            BY <3>2, NobodyKnown
    <2>5. map \in [Nodes -> Nat] /\ \A b \in Nodes : map[b] # 0 => store[b] # 0
        BY <2>0, <2>2, NobodyKnown
    <2>3. ViewTypeOK' /\ MessagesOK' /\ NatsOK'
        <3>1. life[n] + 1 \in Nat \ {0} /\ "watch" \in LoadSteps
            BY <1>a DEF LoadSteps
        <3>2. ViewTypeOK'
            BY <2>0, <2>1, <2>5, <3>1 DEF ViewTypeOK
        <3>3. MessagesOK' /\ NatsOK'
            BY <2>1 DEF MessagesOK, NatsOK
        <3> QED
            BY <3>2, <3>3
    <2>4. EtcdOK'
        <3>1. dpc'[n] = "watch" /\ \A b \in Nodes : (memberMap'[n][b] # 0 => store[b] # 0) /\ synced[n][b] = 0
            BY <1>0, <2>0, <2>1, <2>5 DEF ViewTypeOK
        <3>2. \A a \in Nodes \ {n} : dpc'[a] = dpc[a] /\ memberMap'[a] = memberMap[a] /\ (a \in unsynced' <=> a \in unsynced)
            BY <2>0, <2>1 DEF ViewTypeOK
        <3>3. \A a, b \in Nodes : a # n /\ <<a, b>> \in missed => <<a, b>> \in missed'
            BY <2>1, OthersKept
        <3>4. \A a, b \in Nodes : dpc'[a] # "down" /\ Silent(events[a], b) /\ <<a, b>> \notin missed'
                                      => (memberMap'[a][b] # 0 \/ synced[a][b] # 0 => store[b] # 0)
            BY <1>K, <3>1, <3>2, <3>3
        <3>5. \A a, b \in Nodes : dpc'[a] \in {"apply", "up"} /\ a \notin unsynced' /\ Silent(events[a], b) /\ store[b] # 0
                                      => memberMap'[a][b] # 0 \/ synced[a][b] # 0
            BY <1>S, <3>1, <3>2
        <3>6. \A a \in Nodes : dpc'[a] \in {"down", "watch"} => dpc[a] \in {"down", "watch"}
            BY <2>1, <3>2
        <3> QED
            BY <1>0, <2>1, <3>1, <3>2, <3>4, <3>5, <3>6 DEF EtcdOK
    <2> QED
        BY <2>3, <2>4
<1>5. ASSUME NEW n \in Nodes, Watch(n)
      PROVE  ViewInv'
    <2>1. UNCHANGED <<dmode, life, memberMap, wire, crashed, missed, store, events, synced, unsynced>>
          /\ dpc[n] = "watch" /\ dpc' = [dpc EXCEPT ![n] = "register"]
        BY <1>5 DEF Watch, natsVars, etcdVars
    <2>2. ViewTypeOK' /\ MessagesOK' /\ NatsOK'
        BY <2>1 DEF ViewTypeOK, MessagesOK, NatsOK, LoadSteps
    <2>3. dpc'[n] = "register" /\ \A a \in Nodes \ {n} : dpc'[a] = dpc[a]
        BY <2>1 DEF ViewTypeOK
    <2>4. EtcdOK'
        BY <1>0, <2>1, <2>3 DEF EtcdOK
    <2> QED
        BY <2>2, <2>4
<1>6. ASSUME NEW n \in Nodes, Register(n)
      PROVE  ViewInv'
    <2> DEFINE e == [type |-> "PUT", node |-> n, life |-> life[n]]
    <2>0. UNCHANGED <<dmode, life, memberMap, wire, crashed, missed, synced, unsynced>> /\ dpc[n] = "register"
          /\ dpc' = [dpc EXCEPT ![n] = "sync"]
        BY <1>6 DEF Register, natsVars
    <2>8. CASE UNCHANGED <<store, events>>
        <3>1. ViewTypeOK' /\ MessagesOK' /\ NatsOK'
            BY <2>0, <2>8 DEF ViewTypeOK, MessagesOK, NatsOK, LoadSteps
        <3>2. dpc'[n] = "sync" /\ \A a \in Nodes \ {n} : dpc'[a] = dpc[a]
            BY <2>0 DEF ViewTypeOK
        <3>3. EtcdOK'
            BY <1>0, <2>0, <2>8, <3>2 DEF EtcdOK
        <3> QED
            BY <3>1, <3>3
    <2>9. CASE store' = [store EXCEPT ![n] = life[n]] /\ events' = Commit(e)
        <3>1. UNCHANGED <<dmode, life, memberMap, wire, crashed, missed, synced, unsynced>> /\ dpc[n] = "register"
              /\ dpc' = [dpc EXCEPT ![n] = "sync"] /\ store' = [store EXCEPT ![n] = life[n]] /\ events' = Commit(e)
            BY <2>0, <2>9
        <3>2. life[n] # 0 /\ life[n] \in Nat
            BY <3>1 DEF ViewTypeOK
        <3>3. e \in WatchEvents /\ e.type = "PUT" /\ e.life # 0 /\ e.node = n
            BY <3>2 DEF WatchEvents
        <3> HIDE DEF e
        <3>4. /\ events' \in [Nodes -> Seq(WatchEvents)]
              /\ \A a \in Nodes : dpc[a] \in {"down", "watch"} => events'[a] = <<>>
              /\ \A a \in Nodes : \A i \in 1..Len(events'[a]) : events'[a][i].type = "PUT" => events'[a][i].life # 0
              /\ \A a, b \in Nodes : b # n => (Silent(events'[a], b) <=> Silent(events[a], b))
              /\ \A a, b \in Nodes : \A i \in 1..Len(events'[a]) : LastAbout(events'[a], b, i) =>
                     IF b = n THEN events'[a][i] = e ELSE i \in 1..Len(events[a]) /\ events'[a][i] = events[a][i] /\ LastAbout(events[a], b, i)
              /\ \A a \in Nodes : Watching(a) => ~Silent(events'[a], n)
            BY <3>1, <3>3, CommitStep
        <3>5. ViewTypeOK' /\ MessagesOK' /\ NatsOK'
            BY <3>1, <3>2, <3>4 DEF ViewTypeOK, MessagesOK, NatsOK, LoadSteps
        <3>6. /\ dpc'[n] = "sync" /\ \A a \in Nodes \ {n} : dpc'[a] = dpc[a]
              /\ store'[n] # 0 /\ \A b \in Nodes \ {n} : store'[b] = store[b]
            BY <3>1, <3>2 DEF ViewTypeOK
        <3>7. EtcdOK'
            <4>1. \A a, b \in Nodes : \A i \in 1..Len(events'[a]) :
                      LastAbout(events'[a], b, i) => (events'[a][i].type = "PUT" <=> store'[b] # 0)
                <5> SUFFICES ASSUME NEW a \in Nodes, NEW b \in Nodes, NEW i \in 1..Len(events'[a]), LastAbout(events'[a], b, i)
                             PROVE  events'[a][i].type = "PUT" <=> store'[b] # 0
                    OBVIOUS
                <5>1. CASE b = n
                    BY <3>3, <3>4, <3>6, <5>1
                <5>2. CASE b # n
                    <6>1. i \in 1..Len(events[a]) /\ events'[a][i] = events[a][i] /\ LastAbout(events[a], b, i)
                        BY <3>4, <5>2
                    <6> QED
                        BY <1>L, <3>6, <5>2, <6>1
                <5> QED
                    BY <5>1, <5>2
            <4>2. \A a, b \in Nodes : dpc'[a] # "down" /\ Silent(events'[a], b) /\ <<a, b>> \notin missed
                                          => (memberMap[a][b] # 0 \/ synced[a][b] # 0 => store'[b] # 0)
                BY <1>0, <3>1, <3>4, <3>6
            <4>3. \A a, b \in Nodes : dpc'[a] \in {"apply", "up"} /\ a \notin unsynced /\ Silent(events'[a], b) /\ store'[b] # 0
                                          => memberMap[a][b] # 0 \/ synced[a][b] # 0
                <5> SUFFICES ASSUME NEW a \in Nodes, NEW b \in Nodes, dpc'[a] \in {"apply", "up"}, a \notin unsynced,
                                    Silent(events'[a], b), store'[b] # 0
                             PROVE  memberMap[a][b] # 0 \/ synced[a][b] # 0
                    OBVIOUS
                <5>1. dpc[a] = dpc'[a] /\ Watching(a)
                    BY <3>6 DEF Watching
                <5>2. b # n
                    BY <3>4, <5>1
                <5>3. Silent(events[a], b) /\ store[b] # 0
                    BY <3>4, <3>6, <5>2
                <5> QED
                    BY <1>0, <5>1, <5>3
            <4>4. \A a, b \in Nodes : dpc'[a] # "apply" => synced[a][b] = 0
                BY <1>0, <3>1, <3>6
            <4>5. \A a \in Nodes : dpc'[a] \in {"down", "watch"} => events'[a] = <<>>
                BY <3>4, <3>6
            <4> QED
                BY <1>0, <3>1, <3>4, <4>1, <4>2, <4>3, <4>4, <4>5 DEF EtcdOK
        <3> QED
            BY <3>5, <3>7
    <2> QED
        BY <1>6, <2>8, <2>9 DEF Register
<1>7. ASSUME NEW n \in Nodes, ForceSync(n)
      PROVE  ViewInv'
    <2>1. UNCHANGED <<dmode, life, wire, crashed, missed, store, events>>
        BY <1>7 DEF ForceSync, natsVars
    <2>4. CASE dpc[n] = "sync" /\ dpc' = [dpc EXCEPT ![n] = "up"] /\ unsynced' = unsynced \cup {n} /\ UNCHANGED <<memberMap, synced>>
        <3>1. ViewTypeOK' /\ MessagesOK' /\ NatsOK'
            BY <2>1, <2>4 DEF ViewTypeOK, MessagesOK, NatsOK, LoadSteps
        <3>2. dpc'[n] = "up" /\ n \in unsynced' /\ \A a \in Nodes \ {n} : dpc'[a] = dpc[a] /\ (a \in unsynced' <=> a \in unsynced)
            BY <2>4 DEF ViewTypeOK
        <3>3. EtcdOK'
            BY <1>0, <2>1, <2>4, <3>2 DEF EtcdOK
        <3> QED
            BY <3>1, <3>3
    <2>2. CASE dpc[n] = "sync" /\ dpc' = [dpc EXCEPT ![n] = "apply"] /\ synced' = [synced EXCEPT ![n] = store]
               /\ UNCHANGED <<memberMap, unsynced>>
        <3>1. ViewTypeOK' /\ MessagesOK' /\ NatsOK'
            BY <2>1, <2>2 DEF ViewTypeOK, MessagesOK, NatsOK, LoadSteps
        <3>2. /\ dpc'[n] = "apply" /\ synced'[n] = store /\ \A a \in Nodes \ {n} : dpc'[a] = dpc[a] /\ synced'[a] = synced[a]
            BY <2>2 DEF ViewTypeOK
        <3>3. EtcdOK'
            BY <1>0, <2>1, <2>2, <3>2 DEF EtcdOK
        <3> QED
            BY <3>1, <3>3
    <2>3. CASE /\ dpc[n] = "apply" /\ dpc' = [dpc EXCEPT ![n] = "up"] /\ synced' = [synced EXCEPT ![n] = NoMembers] /\ unsynced' = unsynced
               /\ memberMap' = [memberMap EXCEPT ![n] = AddMembers(memberMap[n], synced[n])]
        <3>1. /\ AddMembers(memberMap[n], synced[n]) \in [Nodes -> Nat]
              /\ \A b \in Nodes : AddMembers(memberMap[n], synced[n])[b] = IF memberMap[n][b] = 0 THEN synced[n][b] ELSE memberMap[n][b]
            BY <1>a, MembersAdded
        <3>2. ViewTypeOK' /\ MessagesOK' /\ NatsOK'
            BY <2>1, <2>3, <3>1, NobodyKnown DEF ViewTypeOK, MessagesOK, NatsOK, LoadSteps
        <3>3. /\ dpc'[n] = "up" /\ \A a \in Nodes \ {n} : dpc'[a] = dpc[a] /\ synced'[a] = synced[a] /\ memberMap'[a] = memberMap[a]
              /\ \A b \in Nodes : synced'[n][b] = 0 /\ (memberMap'[n][b] # 0 <=> memberMap[n][b] # 0 \/ synced[n][b] # 0)
            BY <2>3, <3>1, NobodyKnown DEF ViewTypeOK
        <3>4. EtcdOK'
            BY <1>0, <2>1, <2>3, <3>3 DEF EtcdOK
        <3> QED
            BY <3>2, <3>4
    <2> QED
        BY <1>7, <2>2, <2>3, <2>4 DEF ForceSync
<1>8. ASSUME NEW n \in Nodes, HandleEvent(n)
      PROVE  ViewInv'
    <2> DEFINE e == Head(events[n])
               t == Tail(events[n])
    <2>1. UNCHANGED <<dmode, dpc, life, wire, crashed, store, synced, unsynced>> /\ events[n] # <<>> /\ events' = [events EXCEPT ![n] = t]
          /\ \/ e.type = "PUT" /\ memberMap' = [memberMap EXCEPT ![n] = AddMember(memberMap[n], e.node, e.life)] /\ missed' = missed
             \/ e.type # "PUT" /\ memberMap' = [memberMap EXCEPT ![n] = RemoveMember(memberMap[n], e.node)]
                /\ missed' = IF synced[n][e.node] # 0 THEN missed \cup {<<n, e.node>>} ELSE missed
        BY <1>8 DEF HandleEvent, natsVars
    <2>2. /\ t \in Seq(WatchEvents) /\ e \in WatchEvents /\ e = events[n][1] /\ 1 \in 1..Len(events[n])
          /\ Silent(t, e.node) => LastAbout(events[n], e.node, 1)
          /\ \A b : b # e.node => (Silent(t, b) <=> Silent(events[n], b))
          /\ \A i \in 1..Len(t) : i + 1 \in 1..Len(events[n]) /\ t[i] = events[n][i + 1]
                                  /\ \A b : LastAbout(t, b, i) => LastAbout(events[n], b, i + 1)
        BY <1>a, <2>1, Delivered
    <2> HIDE DEF e, t
    <2>3. e.node \in Nodes /\ e.life \in Nat /\ e.type \in {"PUT", "DELETE"} /\ (e.type = "PUT" => e.life # 0)
        BY <1>0, <2>2 DEF WatchEvents
    <2>4. /\ AddMember(memberMap[n], e.node, e.life) \in [Nodes -> Nat]
          /\ \A b \in Nodes : AddMember(memberMap[n], e.node, e.life)[b]
                                 = IF b = e.node /\ memberMap[n][e.node] = 0 THEN e.life ELSE memberMap[n][b]
        <3>1. memberMap[n] \in [Nodes -> Nat] /\ e.node \in Nodes /\ e.life \in Nat
            BY <1>a, <2>3
        <3> QED
            BY <3>1, MemberAdded
    <2>5. /\ RemoveMember(memberMap[n], e.node) \in [Nodes -> Nat]
          /\ \A b \in Nodes : RemoveMember(memberMap[n], e.node)[b] = IF b = e.node THEN 0 ELSE memberMap[n][b]
        BY <1>a, <2>3, MemberRemoved
    <2>6. memberMap' \in [Nodes -> [Nodes -> Nat]] /\ \A a \in Nodes \ {n} : memberMap'[a] = memberMap[a]
        BY <2>1, <2>4, <2>5 DEF ViewTypeOK
    <2>7. /\ \A b \in Nodes : b # e.node => memberMap'[n][b] = memberMap[n][b]
          /\ e.type = "PUT" => memberMap'[n][e.node] # 0
          /\ e.type # "PUT" => memberMap'[n][e.node] = 0
        BY <2>1, <2>3, <2>4, <2>5 DEF ViewTypeOK
    <2>8. events'[n] = t /\ (\A a \in Nodes \ {n} : events'[a] = events[a]) /\ events' \in [Nodes -> Seq(WatchEvents)]
        BY <2>1, <2>2 DEF ViewTypeOK
    <2>9. ViewTypeOK' /\ MessagesOK' /\ NatsOK'
        BY <2>1, <2>6, <2>8 DEF ViewTypeOK, MessagesOK, NatsOK
    <2>10. missed \subseteq missed' /\ (e.type # "PUT" /\ synced[n][e.node] # 0 => <<n, e.node>> \in missed')
        BY <2>1
    <2>11. Silent(t, e.node) => (e.type = "PUT" <=> store[e.node] # 0)
        BY <1>0, <2>2, <2>3
    <2>12. dpc[n] \notin {"down", "watch"}
        BY <1>0, <2>1
    <2>13. EtcdOK'
        <3>1. \A a, b \in Nodes : \A i \in 1..Len(events'[a]) :
                  LastAbout(events'[a], b, i) => (events'[a][i].type = "PUT" <=> store[b] # 0)
            <4> SUFFICES ASSUME NEW a \in Nodes, NEW b \in Nodes, NEW i \in 1..Len(events'[a]), LastAbout(events'[a], b, i)
                         PROVE  events'[a][i].type = "PUT" <=> store[b] # 0
                OBVIOUS
            <4>1. CASE a = n
                <5>1. i + 1 \in 1..Len(events[n]) /\ events'[n][i] = events[n][i + 1] /\ LastAbout(events[n], b, i + 1)
                    BY <2>2, <2>8, <4>1
                <5> QED
                    BY <1>L, <4>1, <5>1
            <4>2. CASE a # n
                <5>1. events'[a] = events[a]
                    BY <2>8, <4>2
                <5> QED
                    BY <1>L, <5>1
            <4> QED
                BY <4>1, <4>2
        <3>2. \A a \in Nodes : \A i \in 1..Len(events'[a]) : events'[a][i].type = "PUT" => events'[a][i].life # 0
            <4> SUFFICES ASSUME NEW a \in Nodes, NEW i \in 1..Len(events'[a]), events'[a][i].type = "PUT"
                         PROVE  events'[a][i].life # 0
                OBVIOUS
            <4>1. CASE a = n
                <5>1. i + 1 \in 1..Len(events[n]) /\ events'[a][i] = events[n][i + 1]
                    BY <2>2, <2>8, <4>1
                <5> QED
                    BY <1>P, <5>1
            <4>2. CASE a # n
                <5>1. events'[a] = events[a]
                    BY <2>8, <4>2
                <5> QED
                    BY <1>P, <5>1
            <4> QED
                BY <4>1, <4>2
        <3>3. \A a, b \in Nodes : dpc[a] # "down" /\ Silent(events'[a], b) /\ <<a, b>> \notin missed'
                                      => (memberMap'[a][b] # 0 \/ synced[a][b] # 0 => store[b] # 0)
            <4> SUFFICES ASSUME NEW a \in Nodes, NEW b \in Nodes, dpc[a] # "down", Silent(events'[a], b), <<a, b>> \notin missed',
                                memberMap'[a][b] # 0 \/ synced[a][b] # 0
                         PROVE  store[b] # 0
                OBVIOUS
            <4>1. <<a, b>> \notin missed
                BY <2>10
            <4>2. CASE a # n
                BY <1>K, <2>6, <2>8, <4>1, <4>2
            <4>3. CASE a = n /\ b # e.node
                BY <1>K, <2>2, <2>7, <2>8, <4>1, <4>3
            <4>4. CASE a = n /\ b = e.node
                BY <2>7, <2>8, <2>10, <2>11, <4>4
            <4> QED
                BY <4>2, <4>3, <4>4
        <3>4. \A a, b \in Nodes : dpc[a] \in {"apply", "up"} /\ a \notin unsynced /\ Silent(events'[a], b) /\ store[b] # 0
                                      => memberMap'[a][b] # 0 \/ synced[a][b] # 0
            <4> SUFFICES ASSUME NEW a \in Nodes, NEW b \in Nodes, dpc[a] \in {"apply", "up"}, a \notin unsynced, Silent(events'[a], b), store[b] # 0
                         PROVE  memberMap'[a][b] # 0 \/ synced[a][b] # 0
                OBVIOUS
            <4>1. CASE a # n
                BY <1>S, <2>6, <2>8, <4>1
            <4>2. CASE a = n /\ b # e.node
                BY <1>S, <2>2, <2>7, <2>8, <4>2
            <4>3. CASE a = n /\ b = e.node
                BY <2>7, <2>8, <2>11, <4>3
            <4> QED
                BY <4>1, <4>2, <4>3
        <3>5. \A a \in Nodes : dpc[a] \in {"down", "watch"} => events'[a] = <<>>
            BY <1>0, <2>8, <2>12
        <3> QED
            BY <1>0, <2>1, <3>1, <3>2, <3>3, <3>4, <3>5 DEF EtcdOK
    <2> QED
        BY <2>9, <2>13
<1>9. ASSUME NEW n \in Nodes, EtcdStop(n)
      PROVE  ViewInv'
    <2> DEFINE e == [type |-> "DELETE", node |-> n, life |-> 0]
    <2>0. UNCHANGED <<dmode, life, wire, crashed, synced, unsynced>> /\ dpc[n] = "up" /\ dpc' = [dpc EXCEPT ![n] = "down"]
          /\ memberMap' = [memberMap EXCEPT ![n] = NoMembers]
        BY <1>9 DEF EtcdStop, natsVars, Up
    <2>12. CASE events' = [events EXCEPT ![n] = <<>>] /\ UNCHANGED <<store, missed>>
        <3>1. /\ events' \in [Nodes -> Seq(WatchEvents)] /\ events'[n] = <<>> /\ Len(events'[n]) = 0
              /\ dpc'[n] = "down" /\ \A a \in Nodes \ {n} : dpc'[a] = dpc[a] /\ memberMap'[a] = memberMap[a] /\ events'[a] = events[a]
            BY <2>0, <2>12 DEF ViewTypeOK
        <3>2. ViewTypeOK' /\ MessagesOK' /\ NatsOK'
            BY <2>0, <2>12, <3>1, NobodyKnown DEF ViewTypeOK, MessagesOK, NatsOK, LoadSteps
        <3>3. EtcdOK'
            BY <1>0, <2>0, <2>12, <3>1 DEF EtcdOK
        <3> QED
            BY <3>2, <3>3
    <2>13. CASE /\ store' = [store EXCEPT ![n] = 0] /\ events' = [Commit(e) EXCEPT ![n] = <<>>]
                /\ missed' = missed \cup {<<m, n>> : m \in {m \in Nodes : dpc[m] = "watch"}}
        <3>1. UNCHANGED <<dmode, life, wire, crashed, synced, unsynced>> /\ dpc[n] = "up" /\ dpc' = [dpc EXCEPT ![n] = "down"]
              /\ store' = [store EXCEPT ![n] = 0] /\ memberMap' = [memberMap EXCEPT ![n] = NoMembers]
              /\ events' = [Commit(e) EXCEPT ![n] = <<>>]
              /\ missed' = missed \cup {<<m, n>> : m \in {m \in Nodes : dpc[m] = "watch"}}
            BY <2>0, <2>13
        <3>3. e \in WatchEvents /\ e.type = "DELETE" /\ e.node = n
            BY DEF WatchEvents
        <3> HIDE DEF e
        <3> DEFINE t == Commit(e)
        <3>4. /\ t \in [Nodes -> Seq(WatchEvents)]
              /\ \A a \in Nodes : dpc[a] \in {"down", "watch"} => t[a] = <<>>
              /\ \A a \in Nodes : \A i \in 1..Len(t[a]) : t[a][i].type = "PUT" => t[a][i].life # 0
              /\ \A a, b \in Nodes : b # n => (Silent(t[a], b) <=> Silent(events[a], b))
              /\ \A a, b \in Nodes : \A i \in 1..Len(t[a]) : LastAbout(t[a], b, i) =>
                     IF b = n THEN t[a][i] = e ELSE i \in 1..Len(events[a]) /\ t[a][i] = events[a][i] /\ LastAbout(events[a], b, i)
              /\ \A a \in Nodes : Watching(a) => ~Silent(t[a], n)
            BY <3>3, CommitStep
        <3>5. events' = [t EXCEPT ![n] = <<>>]
            BY <3>1
        <3> HIDE DEF t
        <3>6. /\ events' \in [Nodes -> Seq(WatchEvents)] /\ events'[n] = <<>> /\ Len(events'[n]) = 0
              /\ \A a \in Nodes \ {n} : events'[a] = t[a]
            BY <3>4, <3>5
        <3>7. ViewTypeOK' /\ MessagesOK' /\ NatsOK'
            BY <3>1, <3>6, NobodyKnown DEF ViewTypeOK, MessagesOK, NatsOK, LoadSteps
        <3>8. /\ dpc'[n] = "down" /\ \A a \in Nodes \ {n} : dpc'[a] = dpc[a] /\ memberMap'[a] = memberMap[a]
              /\ store'[n] = 0 /\ \A b \in Nodes \ {n} : store'[b] = store[b]
            BY <3>1 DEF ViewTypeOK
        <3>9. missed \subseteq missed' /\ \A a \in Nodes : dpc[a] = "watch" => <<a, n>> \in missed'
            BY <3>1
        <3>10. \A a \in Nodes : dpc[a] \in {"down", "watch"} \/ Watching(a)
            BY <1>a DEF Watching, LoadSteps
        <3>11. EtcdOK'
            <4>1. \A a, b \in Nodes : \A i \in 1..Len(events'[a]) :
                      LastAbout(events'[a], b, i) => (events'[a][i].type = "PUT" <=> store'[b] # 0)
                <5> SUFFICES ASSUME NEW a \in Nodes, NEW b \in Nodes, NEW i \in 1..Len(events'[a]), LastAbout(events'[a], b, i)
                             PROVE  events'[a][i].type = "PUT" <=> store'[b] # 0
                    OBVIOUS
                <5>0. a # n /\ events'[a] = t[a]
                    BY <3>6
                <5>1. CASE b = n
                    BY <3>3, <3>4, <3>8, <5>0, <5>1
                <5>2. CASE b # n
                    <6>1. i \in 1..Len(events[a]) /\ t[a][i] = events[a][i] /\ LastAbout(events[a], b, i)
                        BY <3>4, <5>0, <5>2
                    <6> QED
                        BY <1>L, <3>8, <5>0, <5>2, <6>1
                <5> QED
                    BY <5>1, <5>2
            <4>2. \A a \in Nodes : \A i \in 1..Len(events'[a]) : events'[a][i].type = "PUT" => events'[a][i].life # 0
                <5> SUFFICES ASSUME NEW a \in Nodes, NEW i \in 1..Len(events'[a]), events'[a][i].type = "PUT"
                             PROVE  events'[a][i].life # 0
                    OBVIOUS
                <5>1. a # n /\ events'[a] = t[a]
                    BY <3>6
                <5> QED
                    BY <3>4, <5>1
            <4>3. \A a, b \in Nodes : dpc'[a] # "down" /\ Silent(events'[a], b) /\ <<a, b>> \notin missed'
                                          => (memberMap'[a][b] # 0 \/ synced[a][b] # 0 => store'[b] # 0)
                <5> SUFFICES ASSUME NEW a \in Nodes, NEW b \in Nodes, dpc'[a] # "down", Silent(events'[a], b), <<a, b>> \notin missed',
                                    memberMap'[a][b] # 0 \/ synced[a][b] # 0
                             PROVE  store'[b] # 0
                    OBVIOUS
                <5>1. a # n /\ dpc[a] # "down" /\ memberMap'[a] = memberMap[a] /\ events'[a] = t[a] /\ <<a, b>> \notin missed
                    BY <3>6, <3>8, <3>9
                <5>2. b # n
                    BY <3>4, <3>9, <3>10, <5>1
                <5> QED
                    <6>1. Silent(events[a], b)
                        BY <3>4, <5>1, <5>2
                    <6>2. store'[b] = store[b]
                        BY <3>8, <5>2
                    <6> QED
                        BY <1>K, <5>1, <6>1, <6>2
            <4>4. \A a, b \in Nodes : dpc'[a] \in {"apply", "up"} /\ a \notin unsynced /\ Silent(events'[a], b) /\ store'[b] # 0
                                          => memberMap'[a][b] # 0 \/ synced[a][b] # 0
                <5> SUFFICES ASSUME NEW a \in Nodes, NEW b \in Nodes, dpc'[a] \in {"apply", "up"}, a \notin unsynced, Silent(events'[a], b), store'[b] # 0
                             PROVE  memberMap'[a][b] # 0 \/ synced[a][b] # 0
                    OBVIOUS
                <5>1. a # n /\ b # n /\ dpc[a] = dpc'[a] /\ memberMap'[a] = memberMap[a] /\ events'[a] = t[a] /\ store'[b] = store[b]
                    BY <3>6, <3>8
                <5>2. Silent(events[a], b)
                    BY <3>4, <5>1
                <5> QED
                    BY <1>S, <5>1, <5>2
            <4>5. \A a \in Nodes : dpc'[a] \in {"down", "watch"} => events'[a] = <<>>
                BY <3>4, <3>6, <3>8
            <4>6. \A a, b \in Nodes : dpc'[a] # "apply" => synced[a][b] = 0
                BY <1>0, <3>1, <3>8
            <4> QED
                BY <1>0, <3>1, <4>1, <4>2, <4>3, <4>4, <4>5, <4>6 DEF EtcdOK
        <3> QED
            BY <3>7, <3>11
    <2> QED
        BY <1>9, <2>12, <2>13 DEF EtcdStop
<1> QED
    BY <1>1, <1>2, <1>3, <1>4, <1>5, <1>6, <1>7, <1>8, <1>9 DEF DiscoveryNext, NodeStep, NatsStep, EtcdStep

\* When nothing is under way, nobody keeps a member that has stopped, and with etcd the
\* view of a node is what the store holds, whoever came, went and crashed and whichever
\* call or message failed; removals can be missed, and registrations only by a node whose
\* last list could not be read (forceSync, AddMember, RemoveMember, the unregister
\* handler, the notices lost while a link is down).
THEOREM ViewsSettle == DiscoverySpec => []ViewSettles
<1>1. ViewInv /\ [DiscoveryNext]_discoveryVars => ViewInv'
    <2> SUFFICES ASSUME ViewInv, [DiscoveryNext]_discoveryVars PROVE ViewInv'
        OBVIOUS
    <2>1. CASE DiscoveryNext
        BY <2>1, NatsSteps, EtcdSteps DEF ViewInv, ViewTypeOK
    <2>2. CASE UNCHANGED discoveryVars
        <3>1. UNCHANGED <<dmode, dpc, life, memberMap, wire, crashed, missed, store, events, synced, unsynced>>
            BY <2>2 DEF discoveryVars, natsVars, etcdVars
        <3>2. ViewTypeOK' /\ MessagesOK'
            BY <3>1 DEF ViewInv, ViewTypeOK, MessagesOK
        <3>3. NatsOK'
            BY <3>1 DEF ViewInv, NatsOK, Up, Noticed
        <3>4. EtcdOK'
            BY <3>1 DEF ViewInv, EtcdOK
        <3> QED
            BY <3>2, <3>3, <3>4 DEF ViewInv
    <2> QED
        BY <2>1, <2>2
<1>2. ViewInv => ViewSettles
    <2> SUFFICES ASSUME ViewInv, NEW a \in Nodes, NEW b \in Nodes, Up(a), wire = {}, events[a] = <<>>
                 PROVE  /\ GetMember(a, b) /\ <<a, b>> \notin missed => Up(b) \/ b \in crashed \/ store[b] # 0
                        /\ dmode = "etcd" =>
                              /\ GetMember(a, b) /\ <<a, b>> \notin missed => store[b] # 0
                              /\ store[b] # 0 /\ a \notin unsynced => GetMember(a, b)
        BY DEF ViewSettles
    <2>1. Silent(events[a], b)
        BY DEF Silent
    <2>2. dmode = "etcd" => /\ memberMap[a][b] # 0 /\ <<a, b>> \notin missed => store[b] # 0
                            /\ store[b] # 0 /\ a \notin unsynced => memberMap[a][b] # 0
        BY <2>1 DEF ViewInv, EtcdOK, Up
    <2>3. dmode = "nats" => (memberMap[a][b] # 0 /\ <<a, b>> \notin missed => Up(b) \/ b \in crashed)
        BY DEF ViewInv, NatsOK, Noticed
    <2>4. dmode \in {"nats", "etcd"}
        BY DEF ViewInv, ViewTypeOK
    <2> QED
        BY <2>2, <2>3, <2>4 DEF GetMember
<1> QED
    BY <1>1, <1>2, InitViewInv, PTL DEF DiscoverySpec

(***************************************************************************)
(* The connection index and the connectors (Connector).                    *)
(***************************************************************************)

\* The empty index is exact (NewConnectionManager).
LEMMA InitIndexInv == ManagerInit => IndexInv
BY NoneAssumption DEF ManagerInit, IndexInv, ManagerTypeOK, IndexExact

\* What Remove and a rebind leave of the index: every binding but c's own.
LEMMA UnboundValue ==
    ASSUME IndexInv, NEW c \in connections
    PROVE  /\ Unbound(c) \in [Uids -> Conns \cup {NONE}]
           /\ \A u \in Uids : Unbound(c)[u] # c
           /\ \A u \in Uids, d \in Conns : d # c => (Unbound(c)[u] = d <=> byUID[u] = d)
BY NoneAssumption DEF IndexInv, ManagerTypeOK, IndexExact, Unbound

\* Every operation of the manager keeps the index exact.
LEMMA NextIndexInv == IndexInv /\ [ManagerNext]_managerVars => IndexInv'
<1> SUFFICES ASSUME IndexInv, [ManagerNext]_managerVars PROVE IndexInv'
    OBVIOUS
<1> USE NoneAssumption
<1> DEFINE Fresh == \A c \in Conns \ accepted : uid[c] = NONE
<1>1. ASSUME NEW c \in Conns, Add(c) PROVE IndexInv'
    <2>1. ManagerTypeOK'
        BY <1>1 DEF Add, IndexInv, ManagerTypeOK
    <2>2. IndexExact'
        BY <1>1 DEF Add, IndexInv, ManagerTypeOK, IndexExact
    <2>3. Fresh'
        BY <1>1 DEF Add, IndexInv, ManagerTypeOK
    <2> QED BY <2>1, <2>2, <2>3 DEF IndexInv
<1>2. ASSUME NEW c \in Conns, Remove(c) PROVE IndexInv'
    <2>1. ManagerTypeOK'
        BY <1>2, UnboundValue DEF Remove, IndexInv, ManagerTypeOK
    <2>2. IndexExact'
        BY <1>2, UnboundValue DEF Remove, IndexInv, ManagerTypeOK, IndexExact
    <2>3. Fresh'
        BY <1>2 DEF Remove, IndexInv, ManagerTypeOK
    <2> QED BY <2>1, <2>2, <2>3 DEF IndexInv
<1>3. ASSUME NEW c \in Conns, NEW u \in Uids, Bind(c, u) PROVE IndexInv'
    <2>1. ManagerTypeOK'
        BY <1>3, UnboundValue DEF Bind, IndexInv, ManagerTypeOK
    <2>2. IndexExact'
        BY <1>3, UnboundValue DEF Bind, IndexInv, ManagerTypeOK, IndexExact
    <2>3. Fresh'
        BY <1>3 DEF Bind, IndexInv, ManagerTypeOK
    <2> QED BY <2>1, <2>2, <2>3 DEF IndexInv
<1>4. CASE UNCHANGED managerVars
    BY <1>4 DEF managerVars, IndexInv, ManagerTypeOK, IndexExact
<1> QED BY <1>1, <1>2, <1>3, <1>4 DEF ManagerNext

\* Bind and Remove keep users and connections one to one, in every reachable state.
THEOREM IndexIsExact == ManagerSpec => []IndexInv
<1> QED BY InitIndexInv, NextIndexInv, PTL DEF ManagerSpec

\* No two live connections ever act for the same user (Bind).
THEOREM UsersAreSeparate == ManagerSpec => []OneConnectionPerUser
<1>1. IndexInv => OneConnectionPerUser
    BY NoneAssumption DEF IndexInv, ManagerTypeOK, IndexExact, OneConnectionPerUser
<1> QED BY <1>1, IndexIsExact, PTL

\* A bound user is released before another connection gets it (Bind).
THEOREM UsersAreNotStolen == ManagerSpec => UidNotStolen
<1> DEFINE Kept == \A u \in Uids : byUID[u] # NONE /\ byUID'[u] # byUID[u] => byUID'[u] = NONE
<1>1. IndexInv /\ [ManagerNext]_managerVars => [Kept]_managerVars
    <2> SUFFICES ASSUME IndexInv, ManagerNext, NEW v \in Uids, byUID[v] # NONE, byUID'[v] # byUID[v]
                 PROVE  byUID'[v] = NONE
        OBVIOUS
    <2>1. CASE \E c \in Conns : Add(c)
        BY <2>1 DEF Add
    <2>2. CASE \E c \in Conns : Remove(c)
        BY <2>2 DEF Remove, Unbound
    <2>3. CASE \E c \in Conns, u \in Uids : Bind(c, u)
        BY <2>3 DEF Bind, Unbound, IndexInv, ManagerTypeOK, IndexExact
    <2> QED BY <2>1, <2>2, <2>3 DEF ManagerNext
<1> QED BY <1>1, IndexIsExact, PTL DEF ManagerSpec, UidNotStolen
-----------------------------------------------------------------------------
ConnectorTypeOK ==
    /\ webSocket \in BOOLEAN /\ stopped \in BOOLEAN /\ running \in BOOLEAN /\ done \in BOOLEAN
    /\ listener \in {"none", "open", "closed"} /\ connChan \in Seq(Conns)
    /\ apc \in {"listen", "start", "loop", "accept", "inChan", "end"}
    /\ ipc \in [Conns -> {"none", "enter", "handoff", "end"}]
    /\ sock \in [Conns -> {"dialing", "open", "closed"}]
    /\ lpc \in {"none", "check", "select", "got", "connect", "end"} /\ dcur \subseteq Conns
    /\ tpc \in {"idle", "running", "done", "listener", "waitHandoff", "waitDispatch",
                "closeQueued", "snapshot", "drain", "end"}
    /\ snapshot \subseteq Conns /\ connections \subseteq Conns

Queued(s) == \E i \in 1..Len(connChan) : connChan[i] = s

\* Every open socket is in somebody's hands: the index, its InChan, the queue or the
\* dispatcher, which holds one at a time and is started once (InChan, dispatch, HandleConn).
Held ==
    /\ \A s \in Conns : sock[s] = "open" =>
          s \in connections \/ ipc[s] \in {"enter", "handoff"} \/ Queued(s) \/ s \in dcur
    /\ \A s, t \in dcur : s = t
    /\ lpc \notin {"got", "connect"} => dcur = {}
    /\ apc \in {"listen", "start"} => lpc = "none"

\* How far Stop is, and what cannot come back behind it: a handoff, a dispatcher,
\* a socket in the queue, a connection outside the snapshot.
HandedOff == tpc \in {"waitDispatch", "closeQueued", "snapshot", "drain", "end"}
Dispatched == tpc \in {"closeQueued", "snapshot", "drain", "end"}
Progress ==
    /\ tpc # "idle" => stopped
    /\ HandedOff => \A s \in Conns : ipc[s] # "handoff"
    /\ Dispatched => lpc \in {"none", "end"}
    /\ Stopped => connChan = <<>>
    /\ tpc = "drain" => connections \subseteq snapshot
    /\ tpc = "end" => connections = {}

ConnectorInv == ConnectorTypeOK /\ Held /\ Progress
\* The server before Listen holds no socket.
LEMMA InitConnectorInv == Init => ConnectorInv
<1> SUFFICES ASSUME Init PROVE ConnectorInv
    OBVIOUS
<1>1. ConnectorTypeOK
    <2>1. connChan \in Seq(Conns)
        BY DEF Init
    <2>2. webSocket \in BOOLEAN /\ stopped \in BOOLEAN /\ running \in BOOLEAN /\ done \in BOOLEAN
        BY DEF Init
    <2> QED BY <2>1, <2>2 DEF Init, ManagerInit, ConnectorTypeOK
<1>2. Held /\ Progress
    BY DEF Init, ManagerInit, Held, Progress, HandedOff, Dispatched, Stopped
<1> QED BY <1>1, <1>2 DEF ConnectorInv

\* The goroutine of Start moves its own program counter, the listener and, unless
\* the server is stopped, the dispatcher (Start, dispatch).
LEMMA StartKeeps == ConnectorInv /\ Start => ConnectorInv'
<1> SUFFICES ASSUME ConnectorInv, Start PROVE ConnectorInv'
    OBVIOUS
<1> USE DEF startFrame, flags, managerVars, ConnectorInv
<1>1. CASE Listen
    BY <1>1 DEF Listen, ConnectorTypeOK, Held, Queued, Progress, HandedOff, Dispatched, Stopped
<1>2. CASE StartDispatch
    <2>1. ConnectorTypeOK'
        BY <1>2 DEF StartDispatch, ConnectorTypeOK
    <2>2. Held'
        BY <1>2 DEF StartDispatch, ConnectorTypeOK, Held, Queued
    <2>3. Progress'
        BY <1>2 DEF StartDispatch, ConnectorTypeOK, Progress, HandedOff, Dispatched, Stopped
    <2> QED BY <2>1, <2>2, <2>3
<1>3. CASE AcceptLoop
    BY <1>3 DEF AcceptLoop, ConnectorTypeOK, Held, Queued, Progress, HandedOff, Dispatched, Stopped
<1>4. CASE AcceptFails
    BY <1>4 DEF AcceptFails, ConnectorTypeOK, Held, Queued, Progress, HandedOff, Dispatched, Stopped
<1> QED BY <1>1, <1>2, <1>3, <1>4 DEF Start

\* A socket is accepted into the hands of its InChan, which closes it once the server
\* is stopped, and otherwise puts it into the queue (Accept, InChan).
LEMMA AcceptKeeps ==
    ASSUME ConnectorInv, NEW s \in Conns, Accept(s) \/ InChan(s) \/ Handoff(s)
    PROVE  ConnectorInv'
<1> USE DEF startFrame, flags, managerVars, ConnectorInv
<1>1. CASE Accept(s)
    <2>1. ConnectorTypeOK'
        BY <1>1 DEF Accept, ConnectorTypeOK
    <2>2. Held'
        BY <1>1 DEF Accept, ConnectorTypeOK, Held, Queued
    <2>3. Progress'
        BY <1>1 DEF Accept, ConnectorTypeOK, Progress, HandedOff, Dispatched, Stopped
    <2> QED BY <2>1, <2>2, <2>3
<1>2. CASE InChan(s)
    <2>1. ConnectorTypeOK'
        BY <1>2 DEF InChan, Return, ConnectorTypeOK
    <2>2. Held'
        BY <1>2 DEF InChan, Return, ConnectorTypeOK, Held, Queued
    <2>3. Progress'
        BY <1>2 DEF InChan, ConnectorTypeOK, Progress, HandedOff, Dispatched, Stopped
    <2> QED BY <2>1, <2>2, <2>3
<1>3. CASE Handoff(s)
    <2>0. connChan' = connChan \/ connChan' = Append(connChan, s)
        BY <1>3 DEF Handoff
    <2>1. ConnectorTypeOK'
        <3>1. connChan' \in Seq(Conns)
            BY <2>0 DEF ConnectorTypeOK
        <3> QED BY <1>3, <3>1 DEF Handoff, Return, ConnectorTypeOK
    <2>2. \A t \in Conns : Queued(t) => Queued(t)'
        BY <2>0 DEF ConnectorTypeOK, Queued
    <2>3. CASE connChan' = Append(connChan, s) /\ UNCHANGED sock
        <3>1. Queued(s)'
            BY <2>3 DEF ConnectorTypeOK, Queued
        <3> QED BY <1>3, <2>1, <2>2, <2>3, <3>1
                DEF Handoff, Return, ConnectorTypeOK, Held, Progress, HandedOff, Dispatched, Stopped
    <2>4. CASE sock' = [sock EXCEPT ![s] = "closed"] /\ UNCHANGED connChan
        BY <1>3, <2>1, <2>2, <2>4
        DEF Handoff, Return, ConnectorTypeOK, Held, Progress, HandedOff, Dispatched, Stopped
    <2> QED BY <1>3, <2>3, <2>4 DEF Handoff
<1> QED BY <1>1, <1>2, <1>3

\* The dispatcher takes one socket at a time from the queue to the index, or closes it
\* (dispatch, HandleConn).
LEMMA DispatchKeeps == ConnectorInv /\ Dispatch => ConnectorInv'
<1> SUFFICES ASSUME ConnectorInv, Dispatch PROVE ConnectorInv'
    OBVIOUS
<1> USE DEF dispatchFrame, flags, managerVars, ConnectorInv
<1>1. CASE DispatchSelect
    <2>1. CASE UNCHANGED <<connChan, dcur>>
        BY <1>1, <2>1 DEF DispatchSelect, ConnectorTypeOK, Held, Queued, Progress, HandedOff, Dispatched, Stopped
    <2>2. CASE /\ lpc = "select" /\ connChan # <<>> /\ lpc' = "got"
               /\ dcur' = {Head(connChan)} /\ connChan' = Tail(connChan)
        <3>1. ConnectorTypeOK'
            BY <1>1, <2>2 DEF DispatchSelect, ConnectorTypeOK
        <3>2. \A t \in Conns : Queued(t) => Queued(t)' \/ t \in dcur'
            <4> SUFFICES ASSUME NEW t \in Conns, NEW i \in 1..Len(connChan), connChan[i] = t
                         PROVE  Queued(t)' \/ t \in dcur'
                BY DEF Queued
            <4>1. CASE i = 1
                BY <2>2, <4>1 DEF ConnectorTypeOK
            <4>2. CASE i # 1
                <5>1. i - 1 \in 1..Len(Tail(connChan)) /\ Tail(connChan)[i - 1] = t
                    BY <2>2, <4>2 DEF ConnectorTypeOK
                <5> QED BY <2>2, <5>1 DEF Queued
            <4> QED BY <4>1, <4>2
        <3>3. dcur = {}
            BY <2>2 DEF Held
        <3>4. Held'
            BY <1>1, <2>2, <3>2, <3>3 DEF DispatchSelect, ConnectorTypeOK, Held
        <3>5. Progress'
            BY <1>1, <2>2 DEF DispatchSelect, ConnectorTypeOK, Progress, HandedOff, Dispatched, Stopped
        <3> QED BY <3>1, <3>4, <3>5
    <2> QED BY <1>1, <2>1, <2>2 DEF DispatchSelect
<1>2. CASE DispatchCheck
    BY <1>2 DEF DispatchCheck, ConnectorTypeOK, Held, Queued, Progress, HandedOff, Dispatched, Stopped
<1>3. CASE HandleConn
    BY <1>3 DEF HandleConn, Add, ConnectorTypeOK, Held, Queued, Progress, HandedOff, Dispatched, Stopped
<1> QED BY <1>1, <1>2, <1>3 DEF Dispatch

\* A connection leaves the index with its socket closed (Close), and Bind moves no socket.
LEMMA ConnKeeps ==
    ASSUME ConnectorInv, NEW s \in Conns,
           CloseConn(s) \/ RemoveConn(s) \/ \E u \in Uids : BindConn(s, u)
    PROVE  ConnectorInv'
<1> USE DEF dispatchFrame, flags, managerVars, ConnectorInv
<1>1. CASE CloseConn(s)
    BY <1>1 DEF CloseConn, ConnectorTypeOK, Held, Queued, Progress, HandedOff, Dispatched, Stopped
<1>2. CASE RemoveConn(s)
    BY <1>2 DEF RemoveConn, Remove, ConnectorTypeOK, Held, Queued, Progress, HandedOff, Dispatched, Stopped
<1>3. CASE \E u \in Uids : BindConn(s, u)
    BY <1>3 DEF BindConn, Bind, ConnectorTypeOK, Held, Queued, Progress, HandedOff, Dispatched, Stopped
<1> QED BY <1>1, <1>2, <1>3

\* Stop goes on only when what it waits for cannot come back (Stop, closeQueued, OnBeforeStop).
LEMMA StopKeeps == ConnectorInv /\ (StopBegin \/ Stop) => ConnectorInv'
<1> SUFFICES ASSUME ConnectorInv, StopBegin \/ Stop PROVE ConnectorInv'
    OBVIOUS
<1> USE DEF stopFrame, flags, managerVars, ConnectorInv
<1>1. CASE StopBegin
    BY <1>1 DEF StopBegin, ConnectorTypeOK, Held, Queued, Progress, HandedOff, Dispatched, Stopped
<1>2. CASE StopFlags
    <2>1. ConnectorTypeOK'
        <3>1. /\ running' \in BOOLEAN /\ done' \in BOOLEAN /\ tpc' \in {"done", "listener"}
            BY <1>2, Zenon DEF StopFlags, ConnectorTypeOK
        <3>2. UNCHANGED <<webSocket, stopped, listener, connChan, apc, ipc, sock, lpc, dcur, snapshot, connections>>
            BY <1>2 DEF StopFlags
        <3> QED
            BY <3>1, <3>2 DEF ConnectorTypeOK
    <2>2. Held'
        BY <1>2 DEF StopFlags, Held, Queued
    <2>3. Progress'
        BY <1>2 DEF StopFlags, Progress, HandedOff, Dispatched, Stopped
    <2> QED
        BY <2>1, <2>2, <2>3
<1>3. CASE StopListener
    <2>1. listener' \in {"none", "open", "closed"}
        BY <1>3 DEF StopListener, ConnectorTypeOK
    <2> QED BY <1>3, <2>1 DEF StopListener, ConnectorTypeOK, Held, Queued, Progress, HandedOff, Dispatched, Stopped
<1>4. CASE StopWaitHandoff
    BY <1>4 DEF StopWaitHandoff, ConnectorTypeOK, Held, Queued, Progress, HandedOff, Dispatched, Stopped
<1>5. CASE StopWaitDispatch
    BY <1>5 DEF StopWaitDispatch, ConnectorTypeOK, Held, Queued, Progress, HandedOff, Dispatched, Stopped
<1>6. CASE CloseQueued
    BY <1>6 DEF CloseQueued, ConnectorTypeOK, Held, Queued, Progress, HandedOff, Dispatched, Stopped
<1>7. CASE Snapshot
    BY <1>7 DEF Snapshot, ConnectorTypeOK, Held, Queued, Progress, HandedOff, Dispatched, Stopped
<1>8. CASE \E s \in Conns : Drain(s)
    BY <1>8 DEF Drain, ConnectorTypeOK, Held, Queued, Progress, HandedOff, Dispatched, Stopped
<1>9. CASE Drained
    BY <1>9 DEF Drained, ConnectorTypeOK, Held, Queued, Progress, HandedOff, Dispatched, Stopped
<1> QED BY <1>1, <1>2, <1>3, <1>4, <1>5, <1>6, <1>7, <1>8, <1>9 DEF Stop

\* ConnectorInv is inductive.
LEMMA NextConnectorInv == ConnectorInv /\ [Next]_vars => ConnectorInv'
<1> SUFFICES ASSUME ConnectorInv, [Next]_vars PROVE ConnectorInv'
    OBVIOUS
<1>1. CASE UNCHANGED vars
    BY <1>1 DEF vars, flags, managerVars, ConnectorInv, ConnectorTypeOK, Held, Queued,
                Progress, HandedOff, Dispatched, Stopped
<1> QED BY <1>1, StartKeeps, AcceptKeeps, DispatchKeeps, ConnKeeps, StopKeeps DEF Next

\* The positions of the server's goroutines and who holds each socket, in every
\* reachable state (Start, InChan, dispatch, HandleConn, Stop).
THEOREM SocketsAreHeld == Spec => []ConnectorInv
<1> QED BY InitConnectorInv, NextConnectorInv, PTL DEF Spec

\* Behind Stop no accepted socket is left to nobody, and behind OnBeforeStop no
\* connection is left at all (Stop, InChan, dispatch, closeQueued, OnBeforeStop).
THEOREM StopLeavesNothing == Spec => []NoStraySocket
<1>1. ConnectorInv => NoStraySocket
    <2> SUFFICES ASSUME ConnectorInv PROVE NoStraySocket
        OBVIOUS
    <2>1. ASSUME Stopped, NEW s \in Conns, sock[s] = "open"
          PROVE  s \in connections \/ ipc[s] = "enter"
        <3>1. ipc[s] # "handoff" /\ dcur = {} /\ connChan = <<>>
            BY <2>1 DEF ConnectorInv, Held, Progress, HandedOff, Dispatched, Stopped
        <3>2. ~Queued(s)
            BY <3>1 DEF Queued
        <3> QED BY <2>1, <3>1, <3>2 DEF ConnectorInv, Held
    <2> QED BY <2>1 DEF NoStraySocket, ConnectorInv, Progress
<1> QED BY <1>1, SocketsAreHeld, PTL

\* The server uses its index only through Add, Remove and Bind: seen through the
\* variables of the index, it behaves as module ConnectionManager says (HandleConn, Close, Bind).
THEOREM ServerImplementsManager == Spec => ManagerSpec
<1>1. Init => ManagerInit
    BY DEF Init
<1>2. ConnectorInv /\ [Next]_vars => [ManagerNext]_managerVars
    <2> SUFFICES ASSUME ConnectorInv, [Next]_vars PROVE [ManagerNext]_managerVars
        OBVIOUS
    <2>1. CASE UNCHANGED vars
        BY <2>1 DEF vars
    <2>2. CASE Start
        BY <2>2 DEF Start, Listen, StartDispatch, AcceptLoop, AcceptFails, startFrame
    <2>3. CASE Dispatch
        <3>1. dcur \subseteq Conns
            BY DEF ConnectorInv, ConnectorTypeOK
        <3> QED BY <2>3, <3>1 DEF Dispatch, DispatchSelect, DispatchCheck, HandleConn, ManagerNext
    <2>4. CASE StopBegin \/ Stop
        BY <2>4 DEF StopBegin, Stop, StopFlags, StopListener, StopWaitHandoff, StopWaitDispatch,
                    CloseQueued, Snapshot, Drain, Drained
    <2>5. ASSUME NEW s \in Conns, Accept(s) \/ InChan(s) \/ Handoff(s)
          PROVE  UNCHANGED managerVars
        BY <2>5 DEF Accept, InChan, Handoff, startFrame
    <2>6. ASSUME NEW s \in Conns, CloseConn(s) \/ RemoveConn(s) \/ \E u \in Uids : BindConn(s, u)
          PROVE  [ManagerNext]_managerVars
        BY <2>6 DEF CloseConn, RemoveConn, BindConn, ManagerNext
    <2> QED BY <2>1, <2>2, <2>3, <2>4, <2>5, <2>6 DEF Next
<1> QED BY <1>1, <1>2, SocketsAreHeld, PTL DEF Spec, ManagerSpec

\* The index stays exact, and no user is taken from a connection, under the whole
\* server with its Stop (HandleConn, Close, Bind).
THEOREM ServerIndexIsExact == Spec => []IndexInv /\ UidNotStolen
<1> QED BY ServerImplementsManager, IndexIsExact, UsersAreNotStolen, PTL
=============================================================================
