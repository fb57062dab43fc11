# A TLA+ development for actorgo

actorgo (`github.com/actorgo-game/actorgo`) is a game-server framework in Go:
Actors with mailboxes, a client protocol (AGP) over TCP and WebSocket, HTTP
ingress, a cluster of nodes that call one another over NATS or RabbitMQ, and the
parts such a server needs (timers, discovery, Redis locks, logs, identifiers).
This directory models the parts of it whose correctness depends on an order: of
goroutines, of packets, of failures, of deadlines. `PROJECT.json` is the index
(components, runs, mutants, map to source lines, findings, hazards, theorems).

Status: every part of the server whose correctness depends on an order is modelled
and checked, and every safety property that a run checks is proved for every value
of the constants, two refinements among them; the liveness properties are checked. Section 5 says what is proved and
what is only model-checked, section 8 what is left out and why, section 9 what to
prove next.

## 1. The system

| Component | State it keeps | Operations | Talks to |
|---|---|---|---|
| Mailbox queue, `net/actor/queue.go` | linked list (head, tail), atomic counter, one-token channel, node pool | Push, Pop, Count, Destroy | every goroutine that posts; `Actor.loop` |
| Actor, `net/actor/actor*.go` | state (Init/Worker/Stop), mail, event and timer queue, close channel, children, timers, subscriptions | run, initialize, loop, onStop, Exit, Invoke, Notify, timers, child create and remove | system, method table, global time wheel |
| Actor system, `net/actor/system.go` | actorMap, actorEventMap, wait group | CreateActor, Invoke*, Notify*, PostEvent, Stop | Actors, method table, cluster |
| Method table, `net/method` | MethodID to descriptor and Actor path | Register, UnregisterTarget, Target, Dispatch | Actors; AGP, HTTP and cluster ingress |
| AGP connection, `net/parser/connection.go` | life-cycle state, in-flight table, write queue, session, closeOnce | Run, process, Notify, Kick, GoAway, Close | transport, method table, manager, user callback OnDisconnect |
| Connection manager, `net/parser/connection_manager.go` | connections by ID, ID by user | Add, Remove, Bind, Get, GetUID, Snapshot, Range | connections, server component, handlers |
| Connectors, `net/connector` | listener, accept queue, stopped/running flags, done channel, two wait groups | Start, InChan, dispatch, Stop | net, http.Serve, server component |
| AGP server component, `net/parser/component.go` | connectors, manager | OnAfterInit, HandleConn, OnBeforeStop, push operations | application, connectors, manager |
| AGP packets, `net/proto/agp_*.go`, `net/parser/*framer*.go` | none | encode, decode, validate, frame | connections |
| Cluster over NATS, `net/cluster/nats_cluster`, `net/nats` | work queue, workers, connection pool, subscriptions | Init, Stop, Publish, Request, process | NATS, actor system, discovery |
| Cluster over RabbitMQ, `net/cluster/rabbitmq_cluster` | connection, channels, pending replies | connect, watch, Request, publish, Stop | broker, actor system |
| Discovery, `net/discovery` | member map, listeners; master's list (NATS); keys (etcd) | AddMember, RemoveMember, register, watch | NATS or etcd, cluster |
| Time wheel, `extend/time_wheel` | buckets, delay queue, current time, overflow wheels | AfterFunc, ScheduleFunc, Stop, advanceClock | Actor timers |
| Redis lock, `components/redis/lock.go` | token, watchdog | TryLock, Lock, Unlock, Renew | Redis |
| Application, `application.go` | component list, running flag, die channel | Register, Startup, Shutdown | every component |
| HTTP ingress, `net/httpactor` | server, options | handler, start, stop | method table |
| Request context and session, `facade/request_context.go`, `net/actor/system.go` | deadline, cancellation, session data, codec, request ID | Clone, newInvokeContext, newNotifyContext, messageContext | every call, local or remote |
| Data configuration, `components/data-config` | loaded version, change function | Init, Load, onChange, Stop | file watcher or Redis |
| Log rotation, `logger/rotatelogs` | open file, generation, files on disk | Write, rotate, cleanup | file system |
| Identifiers, `extend/snowflake`, `extend/base58`, `facade/uid.go` | last time and step | Generate, text forms, parsers | clock |
| Calendar time, `extend/time` | none | Add and Sub of each unit, StartOf, EndOf, DiffIn | Go's `time` |
| Profile, logger set-up, adapters, pools, utilities | see `PROJECT.json` | | |

How they interact. A client's socket is accepted by a connector, queued, dispatched
to `HandleConn`, indexed by the manager and served by a `Connection`; its requests
go through the method table to `System.Invoke`, which posts a message to the mailbox
of an Actor and waits for the result or a deadline; the Actor's single goroutine
pops messages, events and timer expirations from three queues. A call to an Actor of
another node is published through the cluster component, queued there, handled by a
worker and answered on the reply subject of the caller; which nodes there are is
discovery's business. The application starts its components in order and stops them
in the opposite one: the server component stops its connectors and drains its
connections, and later the actor system asks every Actor to exit and waits for all
loops.

What is hard. Everything above runs on goroutines of its own and shares state
through atomics, channels of capacity one and short critical sections; check and
use are often two steps (`post`, `CreateActor`, `process`/`reserve`, `Kick`,
`InChan`, `GetListener`). User code runs in between (OnInit, OnStop, handlers,
OnDisconnect) and may panic. Deadlines race with late answers. The list of
hazards with their lines is in `PROJECT.json`; the properties below are aimed at it.

## 2. Modules

| Module | Models | State and actions |
|---|---|---|
| `Queue` | the operations of `queue.go` on a record | `items` in swap order, `linked` (whose predecessor's `next` is stored), `count`, `C`; Swap, Link, AddCount, Signal, PopItem, Receive, Destroy |
| `QueueSpec` | the queue in use by many producers and one consumer | one action per atomic instruction of Push and Pop; history `popped` |
| `NodeQueue` | `queue.go` with its nodes, pointers and pool | head, tail, next, val, pool; refines `QueueSpec` |
| `Actor` | one Actor, top-level or child, with three queues and the goroutines that post to it | EXTENDS `Queue`; run, loop, onStop; Invoke, Notify, InvokeChild, PostEvent, timer triggers; deadlines, cancellation, Exit, recycling |
| `ActorSystem` | creation, routes, children, stop | actorMap, method table, subscriptions, wait group, childActors; CreateActor in its four steps, onStop in its five, `Child().Create` in its steps on the parent's loop or on a caller's goroutine (OnFindChild), System.Stop |
| `ActorEvents` | event subscriptions and PostEvent | functions of each instance, the system's map of paths, queued events; Register, unregister, create again, onStop |
| `RequestHops` | the request context over local calls, child calls, cluster calls and notifications | one record per call in the chain; ServeHTTP or process, Invoke, Notify, cluster publish, time, return |
| `TimeWheel` | wheels with overflow, buckets under their mutexes, the delay queue | `timer`, `list` and `expiration` of the buckets, `pq`, `currentTime`, a program counter per goroutine; one step per critical section of AfterFunc, add, Flush, Stop, Offer and Poll |
| `ActorTimer` | an Actor's timers | EXTENDS `TimeWheel`; AddTimer, AddTimerInfo, RemoveTimer, InvokeFunc for a timer that is due |
| `Connection` | one AGP connection | reader, writer, request goroutines, Kick/GoAway, Notify, Close step by step |
| `ConnectionManager` | the index of connections and users | Add, Remove, Bind |
| `Connector` | accept, queue, dispatch and Stop, TCP and WebSocket; HandleConn and OnBeforeStop | EXTENDS `ConnectionManager`: the index is the one the server component fills and drains |
| `MethodCall` | the data of one AGP call from packet to answer | the packet in its sizes, limits, table entry, context, message, outcome; ReadPacket, process, Dispatch with InvokeTarget and NotifyTarget, decodePayload, adapt, responsePacket, writeLoop |
| `PacketFraming` | length-prefixed packets over a stream, messages over a WebSocket | packets written, bytes under way, buffer, packets read; short writes, short reads, breaks |
| `ClusterTransport` | one node's end of a NATS or RabbitMQ cluster | work queue, workers, waiters, link, life; enqueue, messageWorker, Request, Stop, watchConnection, restart |
| `Discovery` | the member maps of all nodes over a NATS master or etcd | maps, messages under way, etcd keys and log; Load, register, lists, notices, watch, Stop, crash, lost messages, calls that fail |
| `RedisLock` | Lock objects that compete for a key | tokens, watchdogs, the key with its time to live; TryLock, Unlock, Renew, expiry, failed commands |
| `Application` | component list and life cycle | Register, Remove, Startup in its phases, callbacks that panic or edit the list, Shutdown |
| `HttpActor` | the HTTP ingress as a component | EXTENDS `Application`; listener, request and its handler, method table entry, the mailbox and the run, an Actor that stops and is created again |
| `DataConfig` | one configuration and its source | versions, notices, Init in its steps, reads that fail, change callback, Stop |
| `RotateLogs` | log files by period and generation | open file, files with their last write, lock files, cleanups; Write, rotate, a Rotate that gives up on a lock file, cleanup, failing creation, crash |
| `Numbers` | positional notation | powers, the number that digits stand for, digits in a fixed width; what `PacketFraming` and `Encodings` share |
| `Snowflake`, `Encodings` | IDs and their text forms | per process time, step, IDs; encoders and parsers as operators and recursive functions |
| `Calendar` | the arithmetic of ActorGoTime | a time with its fraction of a second, the move it made; operators for each unit |
| `MCActorSystem`, `MCConnection`, `MCNodeQueue`, `MCActorTimer` | definitions for the instances | node symmetry, the refinement mapping, who asks for which ID, which timers an Actor adds |
| `MCCluster` | the two halves of the cluster layer | a behaviour is one of the transport of a node or one of the discovery of all nodes |
| `MCServices` | parts of a node that share no state | a behaviour chooses one part and takes only its steps |
| `QueueSpec_proofs`, `NodeQueue_proofs`, `Actor_proofs`, `Connection_proofs` | theorems about the module of that name | inductive invariants, lemmas and proofs |
| `ActorSystem_proofs` | theorems about `ActorSystem` and `ActorTimer` | |
| `Transport_proofs` | theorems about `ClusterTransport`, `Discovery`, `ConnectionManager` and `Connector` | |
| `Conversions_proofs` | theorems about `PacketFraming`, `Snowflake`, `Encodings` and `Numbers` | with induction and recursion over the naturals |
| `Services_proofs` | theorems about the other parts of `MCServices` | |

Composition. `Actor` composes the queue with its users, `Connector` the connectors
with the server component and its index, `ActorTimer` the wheel with the Actor,
`HttpActor` the ingress with the application and the method table. `MCCluster` and
`MCServices` put side by side modules that share no variable: an initial choice (`half`
or `part`) selects one of them and the others stay in an initial state, so the
states add up and do not multiply. `Actor` abstracts what a message says to the
outcome of the call; `Connection` reduces a packet to the case it selects in
`process` ("bad" is any packet refused for its content), and `MethodCall` models what
the packet says; `ActorSystem` leaves mailboxes to `Actor`.
Definitions named `X_...` marked as mutants are not part of a specification: each is
a faulty variant of `X` that shows that a property notices the fault.

Choices worth knowing:

* A value in `Queue` is visible to Pop only when its link is stored; the counter is
  an integer of its own because `Actor.loop` decides on it while stopping. A push on
  a destroyed queue panics in the poster, as a send on a closed channel does.
* `enqueue` looks at `done` and then at the queue. In `Connection` both outcomes are
  possible once `done` is closed, because it may be closed between the two selects.
* Timers that may fire at any moment (sendSync, waitDisconnect, read and write
  deadlines, request deadlines, register timeouts) are steps without a guard on time.
* The store of `listener` in `GetListener` is not synchronized with `Stop`. Until
  the lock in `Connector.Start` orders them, `Stop` may read either value.
* Context cancellation is idempotent, so a context is "none", "live" or "ended".
* In `TimeWheel` a bucket's mutex is held exactly as long as in the code: Flush runs
  the reinsertion under it, and resets the expiration behind it. An overflow wheel
  has no time until the first timer that needs it creates it.
* In `Discovery` messages of NATS overtake one another: a subject has a subscription
  and a goroutine of its own and the pool sends over several connections. Events of an
  etcd watch come in order. A member is known by its node and by the life that wrote
  it, so that records of an earlier process can be told from those of the present one.
  What was lost is remembered: `missed` are removals, `unheard` registrations and
  `unsynced` nodes whose second list could not be read. The properties name these as
  the ways in which a view may stay wrong.
* In `ActorSystem` a child is created by its parent's loop or, for a kid in `Finders`, by
  a caller in OnFindChild. `crossed` remembers the parents for which two calls of Create
  passed the check side by side, or one was under way when child.onStop ran.
* In `MethodCall` and `HttpActor` a method's error may carry any status (`InvokeError`),
  also one that the table or the mailbox gives.
* In `ClusterTransport` the rest of the cluster is the environment. A reply may come
  late or never, and after a restart of the node as well.
* `RedisLock` counts time in thirds of the ttl, the period of the watchdog. A command
  fails before redis has carried it out, or after.
* In `PacketFraming` a byte is a digit of base `Radix` and the prefix has
  `PrefixLength` of them, so that a limit that does not fit into the prefix is among the
  configured ones. `FramedPackets` are the packets there are to write and `MaxFramed`
  bounds how many are written. `Snowflake` has the number of values of its two fields as constants
  (1 << NodeBits and 1 << StepBits), `Encodings` its radixes and widths.
* A limit of the codec that is not positive is an unset one, as in `NormalizeLimits`.
* A timer's function runs in a goroutine that is named after the timer, so a periodic
  asynchronous task has at most one goroutine at a time.
* `Calendar` models Go's `time.Date` by day numbers, in a zone without daylight saving: a
  date is put together from a year, a month out of range and a day out of range by the
  number of its day, and taken apart again by `YearAt` and `MonthAt`. `Dates` are the dates
  there are; the years run in both directions without end. A time has a fraction of a
  second, which no operation but Start and End changes.

## 3. What the runs show

| Run | Instance | Result |
|---|---|---|
| `queue` | 2 producers, 3 pushes each | no lost wake-up, FIFO per producer without loss or doubling, delivery |
| `node_queue` | 2 producers, 2 pushes each, 4 nodes (symmetric) | no node in use is recycled, the list implements `QueueSpec` |
| `actor_mail` | Invoke and Notify, or Notify, event and timer; 1 Exit, failing OnInit | a message has one holder and is recycled exactly once unless its mailbox was destroyed, the caller of Invoke hears what happened, a stop with nobody posting drains, Exit completes |
| `actor_drain` | 2 Notifies, 1 Exit | violated: finding 1 |
| `system_reuse` | 2 CreateActor calls for one ID, or for two IDs that claim one MethodID; 2 children, one of them created in OnFindChild, Stop | working Actors are reachable by ID, method and event, children are in their parent's map and are told to exit, Stop completes, unless a creation raced or crossed |
| `connection` | 2 requests with 2 IDs given out in any way, or 1 request and 1 Kick or GoAway, or 1 push; limit 1 or 2, write queue of 1 | in-flight table exact, swept requests end, a well-behaved client is refused only between response and release, Close ends everything with one callback |
| `server` | TCP or WebSocket, 3 sockets, 2 users, queue of 1, Stop at any moment | no stray socket, the index exact in both directions, users not stolen, Stop returns |
| `timers` | 1 Actor, 2 timers, 3 levels of 2 buckets, once or periodic, removals | a timer is in one bucket at most and in the one it points to, runs at most once, not after a successful Stop; it fires unless stranded |
| `timer_lost` | the same | violated: finding 2 |
| `cluster` | 2 calls, 3 deliveries of which one malformed, 2 workers, queue of 1, 1 fault; and 3 nodes (or 2 with etcd), 2 lives each, 1 failure (a stop, crash, lost message, failed call or early timeout) | what is accepted is handled once before Stop returns, answers match, Stop ends; the member maps hold nobody who has stopped and come to hold all who are up, with the exceptions the properties name |
| `cluster_restart` | the transport half, with the restart | violated: finding 3 |
| `services` | see below | one property per part, and `ShutdownEnds` |

The parts of `services`: `lock` (2 locks, one renewed, 3 tokens, 1 failed command),
`LockKept`; `http` (application with the ingress, a component registered late, 1 caller of
Shutdown, 1 HTTP request to an Actor that may stop and be created again, 1 panic or edit), `AllStopped`, `ListenersCovered`,
`SuccessIsReal`, `ShutdownEnds`; `config` (3 versions, one that cannot be loaded, any number of failed reads and lost notices),
`ConfigFresh`; `logs` (5 ticks of time, periods of 2, kept for 2), `Retention`; `call` (bodies of
three sizes around the limits, a context that ends at any moment), `CallIsAnswered`; `framing` (packets around the
limit), `FramesIntact`; `ids` (2 processes, 4 node numbers, 2 steps in a millisecond), `IdsUnique`; `events`
(a plain and a dotted path, 2 instances), `EventsReachActors`; `hops` (3 calls in a
chain), `StateTravels`; `calendar` (the days around the ends of the months in a leap
year, in the year behind it and in the first months of a century without a leap day,
and the zero time, at the first and the last nanosecond of a second), `CalendarAgrees`.

Bounds. Two producers are enough for every race of one push with another, and three
pushes let a producer's later value meet an unlinked earlier one of its own and of
the other; the theorems remove both bounds. Four nodes are the stub plus three in
flight, one less than the pushes need, so nodes are reused. A limit or queue of one
is at its limit whenever it is used; with a limit of two, two requests of one ID are
told apart by the ID alone. A third socket finds a full queue while the dispatcher
holds one. Two calls that compete for one ID, MethodID, request ID or user are the
smallest conflict, and the third connection allows rebinding while the other two
compete. `MaxExits` and `MaxPushes` bound calls by name: a second Exit finds the
close token set or taken and changes nothing else. Three levels of two buckets make a
timer move down twice before it runs, and `MaxNow` reaches the point where a bucket is
used again for a later period. One delivery more than workers and queue can hold is
refused as overloaded. `MaxFaults`, `MaxFailures`, `MaxErrors`, `MaxLogFaults` bound what breaks:
one break at any point is what the code has branches for. In `Discovery` the notice of a
Stop may be lost beside the Stop itself, which has used up the bound, and only the nodes in
`Leavers` stop or crash. `MaxLives` of two lets a node
meet what its earlier process left, `MaxTries` of two lets a registration time out and
be repeated. `MaxTokens` of three is one more than the locks, so a lock is taken again
through an object that held it before. `MaxHops` of three is a call of a call, and the
`MaxTicks` of four end the time of a call within a chain that begins one millisecond after
zero. `Levels` bounds the overflow wheels: a timer that needs a further one does not
occur. `Mixes`, `Casts`, `Plans`, `TimerPlans` and `Limits` let one run cover several
initial situations.

Deadlock checking is off everywhere: each of these systems comes to rest when all
work is done, the bounded inputs are used up, or the part is stopped. That nobody waits
in vain is stated by the liveness properties instead.

## 4. Fairness

Weak fairness is assumed of goroutines that have started an operation, one formula
per goroutine: Go schedules every runnable goroutine, and the operations block only
where the model's guards say so. It is assumed that user callbacks return or panic,
that deadlines pass, and that reads and writes have deadlines (`HandshakeTimeout`,
`IdleTimeout`, `WriteTimeout` are positive in the default options). Nothing is
assumed of callers: nobody has to push, post, cancel, dial, exit or stop.

In `Actor` and `Connection` the choice among ready `select` cases is left open and no
strong fairness is used; the leads-to properties hold nevertheless. In `ActorTimer` the
clock ticks (`Clock`), the two goroutines of the wheel run (`Polling`, `Flushing`), and
so does every goroutine that is inside an operation of the wheel. In
`ClusterTransport` only the workers and Stop are fair: answers and the broker need not
come, since a call ends at its timeout. In `Discovery` the goroutines of each
node are fair (`NodeStep`), and so is the delivery of what is under way (`Deliver`). NATS
keeps nothing for a node that does not listen: a message is dropped with its receiver,
and may be lost to one that is up but whose link is down (`Lose`), as often as
`MaxFailures` allows. In `HttpActor` the application and the server are
fair (`HttpProgress`); of a handler in progress nothing is assumed, since the server waits
five seconds at most for it. The other parts of `MCServices` state
safety only.

## 5. What is proved

Forty-two theorems in eight modules, each for every value of the constants that
satisfies the named ASSUMEs of the modules it is about. These say that sets of
goroutines, jobs and requests are finite where they are counted, that kinds of things
are disjoint, and that sizes and limits are in their range. Four of them are worth knowing:
`RotationAssumption` (a log is kept at least for one period, without which a rotation
may remove the file before), `ComponentsAssumption` (no component is registered
twice, which `Register` sees to), `ClusterAssumption` (at least one worker and one place in the
queue, as the defaults see to), and in `TimeWheelAssumption` that a tick is a positive number,
which follows from the rest but needs the exponent the provers do not know. Bounds such
as `MaxExits` or `MaxFaults` may be any number. `EncodingsAssumption` and `FramingAssumption`
say that a base is at least 2 and a width at least 1, and that the default limit fits into
the prefix; `CalendarAssumption` that the times a run begins with are dates.

Every invariant was checked by TLC on an instance before it was proved. The proof
that a step keeps it has one step per action and under it one per conjunct that the
action can disturb; what the operators on queues, lists, maps and contexts return is
in lemmas.

**Mailbox queue.** `QueueSpec_proofs`, for any finite set of producers and any number of
pushes:

* `Invariance`: `Spec => []IInv`, where IInv is the conjunction of
  `TypeOK`; `CountInv`, the exact value of the counter (length, less the uncounted
  pushes, plus the uncounted pop); `LinkInv`, an unlinked value belongs to a producer
  on its way to the link; `WakeInv`, a positive counter over an empty channel is
  somebody's debt; `OrderInv`, the queue holds exactly the pushed and unpopped values
  of each producer in order.
* `WakeupSafety`: no wake-up is lost. It does not follow from `WakeInv` alone: with an
  empty channel and a waiting consumer, `CountInv` turns "items left" into "counter
  positive or somebody uncounted", and `WakeInv` names the debtor.
* `CountBound`: from `CountInv`, since the uncounted pushes only lower the counter.
* `FifoPerProducer`: the action property that every pop returns the next value of some
  producer, from `OrderInv`: the popped head is the least value of its producer.

`NodeQueue_proofs`: `PoolIsSafe` and the refinement `ListImplementsQueue`, from `NodeInv`:
`chain` is the list in the order of the swaps, through different nodes, with some links
still to be written, and each producer in a push has the node and the predecessor its
position says. The mapping reads the values
off `chain`, so the theorems about `QueueSpec` hold for `queue.go` as it is written.
Recycling is safe because the node that is recycled has left `chain`, and who holds a
predecessor without having written its link keeps that node in it.

**Actor.** `Actor_proofs`, for any finite set of jobs:

* `MessagesAreRecycledOnce` and `AnswersAreTrue` from `ActorInv`: a mail that is not
  recycled has one owner (its poster, the queue it stands in once, or the run goroutine),
  and what its caller has heard fits with what became of it. That a mail nobody holds has
  been recycled, unless the mailbox is closed, is `LeftInv`.
* `QuietStopsDrain` from `DrainInv`: the counter of a queue is what was counted less what
  is gone; the items of a quiet stop are older than all others in the queue; and as long
  as one of them is queued no pop has run ahead of the count of its push. Hence a counter
  of zero means that none of them is left, which fails exactly in finding 1, where a
  push is under way.
* `LoopWakesUp` from `WakeInv`, which carries the argument of `WakeupSafety` over to the Actor
  with its three queues and one loop, and is the safety part of `ExitCompletes`: an item that Pop
  does not see has its push before StorePointer, and a positive counter over an empty
  channel is the debt of a push, or of the loop if it is awake for that queue. A loop that
  stops goes to select only with a counter above zero, and only its own pops lower one.

**Actor system and timers.** `ActorSystem_proofs`: `WorkersAreReachable` and
`ChildrenAreReached` from `SystemInv`: as long as no creation raced there is one Actor of
an ID at a time (`OneAtATime`), each stage of creation and of onStop has its entries in
the three tables, and a child that runs is the one in its parent's map, or its parent is
in `crossed`; of a parent that is not, no Create is under way while child.onStop runs.
`TimersAreConsistent` from `TimersInv`: a timer is in the list of the bucket it points
to, or in the hands of one goroutine, or in neither; a timer that Stop took is not in
anybody's hands, and a one-shot timer that has run is no longer in its Actor's map. Stop
reads the bucket of a timer without its lock; the proof needs the re-check in
`BucketRemove` there.

Two more state what must hold for a wait to end, which the prover cannot say itself.
`StopWaitsForAll` from `StopInv`, the safety part of `StopCompletes`: the wait group is the
number of loops that run, by cardinality of `TopAlive` and `KidsAlive`; unless a
creation raced, Range meets every instance that works, since it is stored under its ID,
so that all of them have the close token when Stop waits, and a child whose parent has
ended has its own unless a Create crossed. `NoBucketIsForgotten` from `DelayInv`, the safety part of
`FiresUnlessStranded`: a bucket whose expiration is set is in the delay queue, or about to
be offered, or with the wheel, or Flush is about to reset it, and a bucket without one
has only timers whose adder has not come to SetExpiration, and those in `stranded`. The
delay queue does not oversleep an entry: of the goroutines that find a new head while
Poll sleeps one wins the flag, and it is the one whose wake-up Poll takes or drains. The
theorem ends at Stop of the wheel, behind which Poll may leave a sender waiting.

**AGP server.** `Connection_proofs`: `TableIsExact`, `SweepEndsRequests` and the action
property `RefusalsAreEarly` from `ConnInv`: before the sweep of Close the table and the
running requests are one to one (which gives the limit, by cardinality), behind it the
contexts that live belong to requests that came later, and the request of a client that
has behaved still has a free place and a free ID among the unanswered ones when it comes
to be reserved. `CloseIsOnce` from `CloseInv` is the safety part of `CloseCompletes`: `closer`
names the one goroutine that runs the body of `closeOnce`, it stays in Close until it
starts the callback, and all others leave Close only behind the close of the socket.
`Transport_proofs`: `IndexIsExact`, `UsersAreSeparate`, `UsersAreNotStolen` for the index on
its own (`IndexExact` alone is not inductive: a connection that is added must come
without a user); `SocketsAreHeld` and `StopLeavesNothing` for the server, where `Held` says
who has each open socket and `Progress` what Stop has already emptied and why it
stays empty (no InChan hands a socket over any more, the dispatcher has left, the queue
was closed and drained); `ServerImplementsManager`, the refinement of the index by the
whole server, and with it `ServerIndexIsExact`.

**Cluster.** `Transport_proofs`: `AcceptedIsHandled` from `WorkInv`: a message that was
accepted is once in the queue or with one worker, and as nothing is accepted once Stop
has begun, a queue that a worker has seen empty behind `stop` stays empty. `CallsGetTheirAnswer` from `CallInv`: a request ID
is given out once, and in one life of the process a MessageId belongs to one call.
`ViewsSettle` from `ViewInv`: what is still under way to a node says how its view will
end. With etcd the last event about a member in its watch says what the store holds, and
without one the view does, unless the pair is in `missed`; with NATS a member that has
stopped is in a map only while the notice of that is under way, or the pair is in `missed`.

**Conversions.** `Conversions_proofs` proves what recursive functions compute, for every
input. The library's induction theorems take an operator and cannot be used with the
installed provers, but `WFMin` takes sets: from it comes the least member of a set of
naturals (`LeastNatural`), and with it induction over the set of the numbers that have a
property (`InductionSet`, `StrongInductionSet`). A recursive function is defined by a
CHOOSE; `RecursiveExists` says that there is exactly one function that satisfies such an
equation when its argument gets smaller, so `Power`, `Number`, `LastFirst`, `EncodeNumber`,
`DecodeNumber` and `BigBytes` have the values their equations say.

* `FramesAreIntact` from `FramingInv`: the bytes written and not yet read, that is the
  reader's buffer, the wire and what `writeFull` still has to write, are the end of
  `Stream(written)` behind the packets that were read; so a full prefix is that of the
  next packet, and the packet it announces is the one that arrives. It rests on
  `FixedDigitsNumber` (a length comes back from its digits) and on `LimitFits`: the framer's
  limit, narrowed as it is, fits into the prefix.
* `IdsAreOrdered` from `SnowflakeInv`, for fields of any size: an ID given is
  `now * TimeUnit + node * StepValues + step` with a time that is not ahead of the
  process's, and quotient and remainder are unique.
* `IdsAreUnique` adds `EveryNumberComesBack`: each number is read back from its text in
  an alphabet or a radix (`TextNumber`), from its bytes (`FixedDigitsNumber`), from JSON
  (`Quoted`), from its node-ID fields (`NodeIdComesBack`) and from base 58, where `Encode`
  converts blocks of ten characters and `Decode` adds block to block: `EncodeNumberIs` says
  that the blocks are the digits of the number without a leading zero, `DecodeNumberIs`
  that the blocks add up to the number of all digits, and `ZerosInFront` that the leading
  zero bytes are told apart from them (`SliceComesBack`).

**Parts of a node.** `Services_proofs`:

* `LockIsKept`, `LockInv`: a token is given out once, and a key that nobody excuses has a
  watchdog that has missed at most one tick since the ttl was set.
* `LinesAreRetained`, `LogInv`: a file set aside for removal has had its last line MaxAge
  ago and is of a period as old as that, so no rotation opens it again.
* `ConfigIsFresh`, `ConfigInv`: what was read is the newest version, or a notice or a read
  of it is still to come, or it is in `missed`.
* `SuccessIsRead`, `HttpInv`: per position of a handler, which Actors its look-ups have seen,
  where its message is and what has run for it; a message is queued only while its Actor
  has not ended.
* `LifecycleIsComplete`, `AppInv`: for a list that nobody edits, the callbacks that each
  component has had, by the phase and the position of the loop.
  `ListenersAreCovered`, `ListenInv`: the actor system comes first in the list, and the
  listener is open only between the callbacks of the server behind it.
* `EventsReachTheirActors`, `EventsInv`: only the current instance registers; unless it was
  created early nobody of its path is in onStop, and the table holds what it registered last.
* `ContextsTravel`, `HopsInv`: each context has a cell of its own for the session data, and its
  deadline, codec and request ID are bounded by or equal to its caller's, also those of a
  message on the wire, where the deadline is in milliseconds.
* `AnswersPassTheCodec`, `AnswerInv`: what is known of packet, method, message and result at
  each position, that a code other than the end of the context is final (`Settled`), and
  that normalised limits are positive.
* `CalendarIsRight`, `CalendarInv`: what the last move did. The lemmas say that dates and day
  numbers are one to one (`CivilIs`: `YearExists` finds the year of a day in a cycle of
  146097 days, `MonthExists` the month in the year, `SameDate` that there is no other), what
  `Date` makes of a month or a day out of range (`DateIs`, `DateShifted`), what each period's
  start and end are (`AllEnclose`), and that quotients of quotients are quotients
  (`DivTwice`, `QuotientTwice`), which the differences in minutes and weeks need.

Only model-checked:

* All liveness (`Delivered`, `ExitCompletes`, `StopCompletes`, `CloseCompletes`, `StopReturns`,
  `FiresUnlessStranded`, `StopEnds`, `MembersConverge`, `ShutdownEnds`): the prover has no
  fairness reasoning. `WakeupSafety`, `LoopWakesUp`, `StopWaitsForAll`, `CloseIsOnce` and
  `NoBucketIsForgotten` prove the safety part of those they are named with above.
* The compositions `MCCluster` and `MCServices`: the theorems are about the specification
  of each part, and those modules run one part at a time.

## 6. Findings

1. `DrainOnExit` (`net/actor/actor.go:89`): a message posted before Exit can be
   dropped. Push A is linked and not counted, push B is complete; popping A brings
   the counter to zero with B queued, and the stopping loop ends.
2. `AfterFuncCalls` (`extend/time_wheel/bucket.go:80`): a timer put into a bucket between
   the unlock of Flush and its reset of the expiration is not offered to the delay
   queue, and nobody flushes it until another timer lands in the bucket.
3. `CorrelationValidated` (`net/nats/connect.go:158`): request IDs and message IDs begin
   at zero in every process and the reply subject is the node's, so a late answer to a
   request of the process before is returned to one of the process after.

`PROJECT.json` quotes the comments these contradict. The passing runs state what
remains true: `QuietStopDrains`, `FiresUnlessStranded`, `AnswersMatch`.

More behaviours are in the models, and the properties are stated so that they show
where the edge is. In the Actor core:

* A second CreateActor for an ID may return an Actor whose OnInit has not yet
  succeeded (`net/actor/system.go:128`), and one that is stored behind the range of
  System.Stop is not asked to exit (`system.go:60`); `WorkerReachable` and `StopCompletes`
  except a creation that raced (`raced`).
* InvokeChild pushes to the child without looking at its state
  (`net/actor/actor.go:258`), and `post` pushes behind its look at the state
  (`net/actor/system.go:454`). The final consumer of a message "must call Recycle exactly
  once" (`facade/message.go:14`), but onStop destroys the mailbox and drops what is still
  queued there, and a push that comes later panics: neither recycles the message, nor ends
  the context of a Notify that goes with it. `RecycledOnce` says that this is the only way
  in which a message is not recycled, and that none is recycled twice.
* `Child().Create` looks for the child, stores the new one and starts it
  (`net/actor/actor_child.go:43`), on the parent's loop or, through OnFindChild, on the
  goroutine of any caller (`net/actor/system.go:185`, `actor.go:221`, `251`). Two of them may
  pass the check side by side: the second store overwrites the first child, which nobody
  finds or tells to exit any more. One that is under way while the parent stops may store
  its child behind the range of child.onStop. In both cases the child runs on and
  System.Stop waits for it for ever, where `_docs/design.md:448` has child.onStop close all
  children. `ChildNotOrphaned` and `StopCompletes` say that nothing else leaves a child
  behind (`crossed`).
* Events miss an Actor whose ID has a dot in it (`facade/message.go:85`), a second unique
  ID of a subscriber replaces the first (`net/actor/system.go:539`), and an Actor created
  while its predecessor is in onStop loses its subscriptions
  (`net/actor/actor_event.go:97`).
* Flush runs the reinsertion under the mutex of its bucket
  (`extend/time_wheel/bucket.go:75`): a periodic timer of a bucket that the clock has
  overtaken may land in the same bucket, and the wheel waits for itself. `SelfLocked` in
  `ActorTimer` is that state.

In the client protocol:

* The response is queued before the request ID is released
  (`net/parser/connection.go:241`, `260`), so a client that reuses the ID as soon as it
  has the response may be disconnected. `RefusedBeforeRelease` says that this is
  the only reason for which a client that keeps to the limit is refused.
* A request reserved behind the sweep of Close keeps a live context until its deadline
  (`connection.go:171`); `SweptRequestsEnd` is about the others.
* `handleHandshake` stores Ready over a Draining or Closed it has not seen
  (`connection.go:217`); Kick and GoAway overwrite Closed (411, 426). Close
  follows, and `CloseCompletes` holds.
* A WebSocket connector that is stopped before it listens serves on for ever
  (`net/connector/connector.go:129`); its sockets are closed, as `NoStraySocket` says.
* An answer that breaks a limit of the codec is not sent and closes the connection
  (`connection.go:386`); an InvokeError of code 0 is reported as OK
  (`net/method/invoker.go:49`); packet limits of 2^32 and more are narrowed
  (`net/parser/packet_transport.go:86`).

In the cluster:

* A client registers while the master is missing from its map, so one whose master
  crashed and came back does not register again (`net/discovery/discovery_nats.go:263`).
  Unregister notices are keyed by node, and one of an earlier life removes the later one.
* A client looks for the master only (`discovery_nats.go:263`), so an addMember that was
  not published or was lost while its link was down is not made up for: it does not come
  to know that node. A lost unregister, or one that could not be published (304), leaves a
  node that has stopped in the maps.
* With etcd a first or second Get, a Put or a Delete that fails is logged and Load or Stop
  goes on (`discovery_etcd.go:200`, `211`). A failed second Get leaves out what was
  registered between the first list and the watch, a failed Put leaves the node unknown.
* etcd keys are written without the lease that is kept alive
  (`net/discovery/discovery_etcd.go:199`): a crashed node stays listed.

In the rest:

* A watchdog that ends leaves `watching` set (`components/redis/lock.go:240`), and a lock
  taken again through the same object without Unlock is not renewed.
* A call of Shutdown before Startup waits, or a second one, blocks for ever
  (`application.go:266`). Remove in a callback makes the loop skip a component
  (`application.go:128`). A panic in Init leaves the components before it running.
* Between the second look at the table and the mailbox an Actor may be replaced by
  one whose method is of the other type: the mailbox compares none, and a notification
  can be answered with 200. A notification answered with 202 is lost when its Actor stops
  before the run, and a push into a destroyed mailbox leaves its client without an answer.
* A configuration that is edited between Init's reading and OnChange, or that cannot be
  read when its notice comes, or whose notice is lost, is not loaded until the next edit
  (`components/data-config/source_file.go:107`, `source_redis.go:91`, `component.go:64`); Stop of the redis source waits for a
  goroutine that may not be listening (`source_redis.go:118`).
* Two processes may hash to one snowflake node number
  (`extend/snowflake/snowflake_default.go:15`), and `ParseBase58` and `ParseBase32` take the
  characters of no digit for digits (`snowflake.go:66`); `IdsUnique` is about different
  numbers and valid texts.
* EndOfYear to EndOfMinute are the beginning of the last second of their period
  (`extend/time/time_get.go:201`): a time within that second lies behind its own end.
  `CalendarAgrees` says so, and that it is only that second.
* The zero time has Year and Day 0 in `extend/time`, so the NoOverflow operations send it
  to a year too early. Not in the model, and seen while reading: `WeekOfMonth`
  (`time_get.go:81`) takes the remainder where it should divide, `Microsecond`
  (`time_get.go:176`) divides by 1e9, `GetAbsValue` shifts by 31 bits.

## 7. Running

`tlc -config X.cfg M` for the pairs listed in `PROJECT.json`. With two workers the
longest runs, `cluster`, `actor_mail` and `services`, take two to three minutes, the others
between a second and one minute. `tlapm M.tla` for each of the eight modules M whose name
ends in `_proofs` checks the proofs, in one to ten minutes each.

## 8. Not modelled

* Encodings of payloads (protobuf, JSON), reflection over handlers and field syntax:
  the libraries' business. `MethodCall` knows sizes, types and which of them fail.
* Memory reclamation of `sync.Pool` under the garbage collector: the pool hands out
  any node that was put back.
* Children of children (the code has one level) and more than one child per Actor.
* `Notify`, `Kick` and `Broadcast` of the server component: a lookup followed by an
  operation of one connection. A push to a user found before a rebinding goes to
  the connection it was found on.
* Discovery from the profile (`DiscoveryDefault.Load`, which stops at a duplicate node
  ID) and the listener callbacks; they keep no state that another goroutine changes. A
  watch of etcd whose channel ends (`discovery_etcd.go:231`), after which a node hears of
  nothing more.
* The round robin over the NATS connection pool: one connection stands for it, and the
  order of messages is open because of it.
* `logger.go`, which builds zap loggers; its `Flush` ranges over a map that `NewLogger`
  writes, without a lock.
* Global offset, setters, formats and comparisons with the clock in `extend/time`.
* Profile and node settings, read once at start-up; generic queues and pools that no
  modelled code uses; adapters to gin, gorm, mongo, cron and gops; stateless helpers.
* Generated protobuf code and the vendored mapstructure package.

## 9. Plan

What to prove next, in this order:

1. `Actor`: that each of its queues implements `QueueSpec` while it runs, step by step, so that
   `FifoPerProducer` holds for it as well; `LoopWakesUp` proves the wake-ups.
