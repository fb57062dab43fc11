------------------------------ MODULE Discovery ------------------------------
(***************************************************************************)
(* The member map of every node (net/discovery), kept through a NATS       *)
(* master or through etcd.  A member record is known by its node and by    *)
(* the life (process) that wrote it; the map is keyed by node only.        *)
(*                                                                         *)
(* NATS: subjects have a subscription and a goroutine each and the pool    *)
(* sends over several connections, so messages overtake one another.       *)
(* etcd: the watch delivers what was committed after it began, in order.   *)
(***************************************************************************)
EXTENDS Naturals, Sequences

CONSTANTS Master, Clients,
          EtcdNodes,                      \* the nodes that are started in etcd mode
          Leavers,                        \* the nodes that may stop or crash (bound)
          MaxLives, MaxTries, MaxFailures \* bounds: lives of a node; attempts to register that are
                                          \* told apart; stops, crashes, early timeouts, lost
                                          \* messages and failed calls

Nodes == {Master} \cup Clients

VARIABLES
    dmode,      \* discovery->mode of the profile
    dpc,        \* a node: "down", a step of Load, or "up"
    life,       \* the number of its processes so far
    memberMap,  \* memberMap[n][m]: the life of the record of m at n, 0 for none
    register,   \* registerToMaster: the attempt and whether it waits
    wire,       \* NATS messages under way
    store,      \* etcd: the life whose record is under a node's key, 0 for none
    events,     \* etcd: what a node's watch has still to deliver
    synced,     \* the answer to the last Get of forceSync
    left,       \* stops, crashes, early timeouts, losses and failed calls so far
    crashed,    \* the nodes whose last process ended without a notice of it
    outOfOrder, \* history: a register overtook the unregister of an earlier life
    missed,     \* history: <<n, m>> when n missed, or undid, the removal of m
    unheard,    \* history: <<n, m>> when the notice that m has registered was lost for n
    unsynced    \* history: the nodes whose process failed to read the store after register

natsVars == <<register, wire, outOfOrder, unheard>>
etcdVars == <<store, events, synced, unsynced>>
discoveryVars == <<dmode, dpc, life, memberMap, natsVars, etcdVars, left, crashed, missed>>

NoMembers == [m \in Nodes |-> 0]
Idle == [try |-> 0, waits |-> FALSE]

DiscoveryInit ==
    /\ dmode \in {"nats", "etcd"}
    /\ dpc = [n \in Nodes |-> "down"] /\ life = [n \in Nodes |-> 0]
    /\ memberMap = [n \in Nodes |-> NoMembers]
    /\ register = [n \in Nodes |-> Idle] /\ wire = {}
    /\ store = NoMembers /\ events = [n \in Nodes |-> <<>>]
    /\ synced = [n \in Nodes |-> NoMembers]
    /\ left = 0 /\ crashed = {} /\ outOfOrder = {} /\ missed = {} /\ unheard = {} /\ unsynced = {}
-----------------------------------------------------------------------------
(* The map (discovery_default.go). *)

\* LoadOrStore: a record that is there is kept, with a warning.
AddMember(map, m, l) == [map EXCEPT ![m] = IF map[m] = 0 THEN l ELSE map[m]]
AddMembers(map, list) == [m \in Nodes |-> IF map[m] = 0 THEN list[m] ELSE map[m]]
RemoveMember(map, m) == [map EXCEPT ![m] = 0]
GetMember(n, m) == memberMap[n][m] # 0

Up(n) == dpc[n] = "up"
\* What was noted of the other nodes.
Others(pairs, n) == {x \in pairs : x[1] # n}
\* One more of the things that go wrong.
Fails == left < MaxFailures /\ left' = left + 1
Message(kind, to, m, l) == [kind |-> kind, to |-> to, node |-> m, life |-> l]
\* n is about to add members that have stopped, and no notice of that will follow.
LateAdd(n, list) ==
    missed \cup {<<n, m>> : m \in {m \in Nodes \ crashed :
        /\ list[m] # 0 /\ ~Up(m)
        /\ \A u \in wire : ~(u.kind = "unregister" /\ u.to = n /\ u.node = m)}}
PublishTo(kind, n, l, to) == {Message(kind, m, n, l) : m \in to}
-----------------------------------------------------------------------------
(* NATS (discovery_nats.go). *)

\* Load: the map starts empty; the master adds itself before it subscribes.
NatsLoad(n) ==
    /\ dmode = "nats" /\ dpc[n] = "down" /\ life[n] < MaxLives
    /\ dpc' = [dpc EXCEPT ![n] = "up"] /\ life' = [life EXCEPT ![n] = @ + 1]
    /\ memberMap' = [memberMap EXCEPT ![n] =
                       IF n = Master THEN AddMember(NoMembers, n, life'[n]) ELSE NoMembers]
    /\ register' = [register EXCEPT ![n] = Idle]
    /\ crashed' = crashed \ {n}
    /\ unheard' = Others(unheard, n) /\ missed' = Others(missed, n)
    /\ UNCHANGED <<dmode, wire, outOfOrder, etcdVars, left>>

\* Mutant: the loop ends once it has tried.
CheckMaster_Once(n) ==
    /\ dmode = "nats" /\ n # Master /\ Up(n) /\ ~register[n].waits /\ ~GetMember(n, Master) /\ Up(Master)
    /\ register[n].try = 0
    /\ register' = [register EXCEPT ![n] = [try |-> @.try + 1, waits |-> TRUE]]
    /\ wire' = wire \cup {[kind |-> "register", to |-> Master, node |-> n, life |-> life[n],
                           try |-> register'[n].try]}
    /\ UNCHANGED <<dmode, dpc, life, memberMap, outOfOrder, unheard, etcdVars, left, crashed, missed>>

\* checkMaster: registers whenever the master is not in the map.  A request that
\* nobody subscribes to fails and changes nothing.
CheckMaster(n) ==
    /\ dmode = "nats" /\ n # Master /\ Up(n) /\ ~register[n].waits /\ ~GetMember(n, Master) /\ Up(Master)
    /\ register' = [register EXCEPT ![n] =
                      [try |-> IF @.try < MaxTries THEN @.try + 1 ELSE @.try, waits |-> TRUE]]
    /\ wire' = wire \cup {[kind |-> "register", to |-> Master, node |-> n, life |-> life[n],
                           try |-> register'[n].try]}
    /\ UNCHANGED <<dmode, dpc, life, memberMap, outOfOrder, unheard, etcdVars, left, crashed, missed>>

\* The master's handler: AddMember, the list without the new node as the response,
\* and the new node to every client.  A response that cannot be sent ends it, and a
\* publish that fails is not repeated.
ServeRegister(msg) ==
    /\ msg \in wire /\ msg.kind = "register" /\ Up(Master)
    /\ memberMap' = [memberMap EXCEPT ![Master] = AddMember(@, msg.node, msg.life)]
    /\ LET answer == {[kind |-> "list", to |-> msg.node, life |-> msg.life, try |-> msg.try,
                       list |-> RemoveMember(memberMap'[Master], msg.node)]
                         : i \in IF Up(msg.node) THEN {1} ELSE {}}
           others == {c \in Clients : Up(c)} IN
       \/ /\ wire' = (wire \ {msg}) \cup answer \cup PublishTo("add", msg.node, msg.life, others)
          /\ unheard' = unheard \ (others \X {msg.node}) /\ UNCHANGED left
       \/ /\ wire' = wire \ {msg} /\ Fails /\ UNCHANGED unheard
       \/ /\ wire' = (wire \ {msg}) \cup answer /\ Fails
          /\ unheard' = unheard \cup (others \X {msg.node})
    /\ outOfOrder' = IF \E u \in wire : u.kind = "unregister" /\ u.node = msg.node /\ u.life < msg.life
                     THEN outOfOrder \cup {msg.node} ELSE outOfOrder
    /\ missed' = LateAdd(Master, [NoMembers EXCEPT ![msg.node] = msg.life])
    /\ UNCHANGED <<dmode, dpc, life, register, etcdVars, crashed>>

\* The response: every member of the list is added.  One that comes after its
\* request has timed out is dropped.
ApplyList(msg) ==
    LET n == msg.to
        awaited == register[n].waits /\ register[n].try = msg.try IN
    /\ msg.kind = "list" /\ msg \in wire /\ wire' = wire \ {msg}
    /\ memberMap' = IF awaited THEN [memberMap EXCEPT ![n] = AddMembers(@, msg.list)] ELSE memberMap
    /\ register' = IF awaited THEN [register EXCEPT ![n].waits = FALSE] ELSE register
    /\ missed' = IF awaited THEN LateAdd(n, msg.list) ELSE missed
    /\ UNCHANGED <<dmode, dpc, life, outOfOrder, unheard, etcdVars, left, crashed>>

\* The request times out: with its answer still to come, or when neither is under way.
RegisterTimeout(n) ==
    /\ register[n].waits
    /\ \/ register[n].try < MaxTries /\ Fails
       \/ /\ \A msg \in wire : ~(msg.kind = "register" /\ msg.node = n)
                               /\ ~(msg.kind = "list" /\ msg.to = n)
          /\ UNCHANGED left
    /\ register' = [register EXCEPT ![n].waits = FALSE]
    /\ UNCHANGED <<dmode, dpc, life, memberMap, wire, outOfOrder, unheard, etcdVars, crashed, missed>>

\* addMember at a client.
HandleAdd(msg) ==
    /\ msg.kind = "add" /\ msg \in wire /\ wire' = wire \ {msg}
    /\ memberMap' = [memberMap EXCEPT ![msg.to] = AddMember(@, msg.node, msg.life)]
    /\ missed' = LateAdd(msg.to, [NoMembers EXCEPT ![msg.node] = msg.life])
    /\ UNCHANGED <<dmode, dpc, life, register, outOfOrder, unheard, etcdVars, left, crashed>>

\* unregister at every node but the one it is about: by node, whatever its life.
HandleUnregister(msg) ==
    /\ msg.kind = "unregister" /\ msg \in wire /\ wire' = wire \ {msg}
    /\ memberMap' = [memberMap EXCEPT ![msg.to] = IF msg.to = msg.node THEN @ ELSE RemoveMember(@, msg.node)]
    /\ UNCHANGED <<dmode, dpc, life, register, outOfOrder, unheard, etcdVars, left, crashed, missed>>

\* NATS keeps nothing for a node whose connection is down: what is under way to it then
\* is lost, and its subscriptions are back when it has reconnected.  The notice of a
\* Stop may be the one failure beyond the bound, which the Stop has used up.
Lose(msg) ==
    /\ msg \in wire /\ wire' = wire \ {msg}
    /\ left' = left + 1 /\ (left < MaxFailures \/ (msg.kind = "unregister" /\ left = MaxFailures))
    /\ unheard' = IF msg.kind = "add" THEN unheard \cup {<<msg.to, msg.node>>} ELSE unheard
    /\ missed' = IF msg.kind = "unregister" THEN missed \cup {<<msg.to, msg.node>>} ELSE missed
    /\ UNCHANGED <<dmode, dpc, life, memberMap, register, outOfOrder, etcdVars, crashed>>

\* The process of n ends: what was under way to it is lost.
Gone(n, published) ==
    /\ Fails /\ n \in Leavers
    /\ dpc' = [dpc EXCEPT ![n] = "down"]
    /\ memberMap' = [memberMap EXCEPT ![n] = NoMembers]
    /\ register' = [register EXCEPT ![n] = Idle]
    /\ wire' = {msg \in wire \cup published : msg.to # n}
    /\ events' = [events EXCEPT ![n] = <<>>]
    /\ synced' = [synced EXCEPT ![n] = NoMembers]
    /\ UNCHANGED <<dmode, life, outOfOrder, unheard, store, unsynced, missed>>

\* Stop: unregister goes to everyone, or the publish fails and the node is gone anyway.
NatsStop(n) ==
    /\ dmode = "nats" /\ Up(n)
    /\ \/ /\ Gone(n, PublishTo("unregister", n, life[n], {m \in Nodes : Up(m)}))
          /\ UNCHANGED crashed
       \/ Gone(n, {}) /\ crashed' = crashed \cup {n}

DiscoveryCrash(n) ==
    /\ dpc[n] # "down" /\ Gone(n, {}) /\ crashed' = crashed \cup {n}
-----------------------------------------------------------------------------
(* etcd (discovery_etcd.go).  The lease code is not called: keys have none. *)

Watching(n) == dpc[n] \in {"register", "sync", "apply", "up"}
Commit(event) == [n \in Nodes |-> IF Watching(n) THEN Append(events[n], event) ELSE events[n]]

\* Load: forceSync(true) before the watch, then register, then forceSync(false).  Every
\* one of these calls may fail: the error is logged and Load goes on.
EtcdLoad(n) ==
    /\ dmode = "etcd" /\ n \in EtcdNodes /\ dpc[n] = "down" /\ life[n] < MaxLives
    /\ life' = [life EXCEPT ![n] = @ + 1] /\ dpc' = [dpc EXCEPT ![n] = "watch"]
    /\ \/ memberMap' = [memberMap EXCEPT ![n] = AddMembers(NoMembers, store)] /\ UNCHANGED left
       \/ memberMap' = [memberMap EXCEPT ![n] = NoMembers] /\ Fails
    /\ unsynced' = unsynced \ {n} /\ missed' = Others(missed, n) /\ crashed' = crashed \ {n}
    /\ UNCHANGED <<dmode, natsVars, store, events, synced>>

Watch(n) ==
    /\ dpc[n] = "watch" /\ dpc' = [dpc EXCEPT ![n] = "register"]
    /\ UNCHANGED <<dmode, life, memberMap, natsVars, etcdVars, left, crashed, missed>>

Register(n) ==
    /\ dpc[n] = "register" /\ dpc' = [dpc EXCEPT ![n] = "sync"]
    /\ \/ /\ store' = [store EXCEPT ![n] = life[n]]
          /\ events' = Commit([type |-> "PUT", node |-> n, life |-> life[n]]) /\ UNCHANGED left
       \/ Fails /\ UNCHANGED <<store, events>>
    /\ UNCHANGED <<dmode, life, memberMap, natsVars, synced, unsynced, crashed, missed>>

\* Mutant: the list is not read again after register.
ForceSync_Skip(n) ==
    /\ dpc[n] = "sync" /\ dpc' = [dpc EXCEPT ![n] = "up"]
    /\ UNCHANGED <<dmode, life, memberMap, natsVars, etcdVars, left, crashed, missed>>

\* forceSync: the Get and, with the watch running beside it, the additions; a Get that
\* fails ends it.
ForceSync(n) ==
    /\ \/ /\ dpc[n] = "sync" /\ dpc' = [dpc EXCEPT ![n] = "apply"]
          /\ synced' = [synced EXCEPT ![n] = store] /\ UNCHANGED <<memberMap, unsynced, left>>
       \/ /\ dpc[n] = "sync" /\ dpc' = [dpc EXCEPT ![n] = "up"]
          /\ unsynced' = unsynced \cup {n} /\ Fails /\ UNCHANGED <<memberMap, synced>>
       \/ /\ dpc[n] = "apply" /\ dpc' = [dpc EXCEPT ![n] = "up"]
          /\ memberMap' = [memberMap EXCEPT ![n] = AddMembers(@, synced[n])]
          /\ synced' = [synced EXCEPT ![n] = NoMembers] /\ UNCHANGED <<unsynced, left>>
    /\ UNCHANGED <<dmode, life, natsVars, store, events, crashed, missed>>

\* A watch event; a DELETE that comes between the Get and the additions is undone.
HandleEvent(n) ==
    /\ events[n] # <<>> /\ events' = [events EXCEPT ![n] = Tail(@)]
    /\ LET e == Head(events[n]) IN
       IF e.type = "PUT"
       THEN /\ memberMap' = [memberMap EXCEPT ![n] = AddMember(@, e.node, e.life)]
            /\ UNCHANGED missed
       ELSE /\ memberMap' = [memberMap EXCEPT ![n] = RemoveMember(@, e.node)]
            /\ missed' = IF synced[n][e.node] # 0 THEN missed \cup {<<n, e.node>>} ELSE missed
    /\ UNCHANGED <<dmode, dpc, life, natsVars, store, synced, unsynced, left, crashed>>

\* Stop deletes the key: a node between its first Get and its watch never hears of it.
\* A Delete that fails leaves the key, and the node is gone all the same.
EtcdStop(n) ==
    /\ dmode = "etcd" /\ Up(n) /\ Fails /\ n \in Leavers
    /\ dpc' = [dpc EXCEPT ![n] = "down"] /\ memberMap' = [memberMap EXCEPT ![n] = NoMembers]
    /\ \/ /\ store' = [store EXCEPT ![n] = 0]
          /\ events' = [Commit([type |-> "DELETE", node |-> n, life |-> 0]) EXCEPT ![n] = <<>>]
          /\ missed' = missed \cup {<<m, n>> : m \in {m \in Nodes : dpc[m] = "watch"}}
       \/ events' = [events EXCEPT ![n] = <<>>] /\ UNCHANGED <<store, missed>>
    /\ UNCHANGED <<dmode, life, natsVars, synced, unsynced, crashed>>
-----------------------------------------------------------------------------
NatsStep(n) == CheckMaster(n) \/ RegisterTimeout(n)
Deliver == \E msg \in wire : ServeRegister(msg) \/ ApplyList(msg) \/ HandleAdd(msg) \/ HandleUnregister(msg)
EtcdStep(n) == Watch(n) \/ Register(n) \/ ForceSync(n) \/ HandleEvent(n)
\* The goroutines of a node; those of the one mode or of the other.
NodeStep(n) == NatsStep(n) \/ EtcdStep(n)
DiscoveryNext ==
    \/ Deliver
    \/ \E msg \in wire : Lose(msg)
    \/ \E n \in Nodes : NodeStep(n) \/ NatsLoad(n) \/ NatsStop(n) \/ DiscoveryCrash(n)
                        \/ EtcdLoad(n) \/ EtcdStop(n)

DiscoveryFairness ==
    /\ \A n \in Nodes : WF_discoveryVars(NodeStep(n))
    /\ WF_discoveryVars(Deliver)
DiscoverySpec == DiscoveryInit /\ [][DiscoveryNext]_discoveryVars /\ DiscoveryFairness
-----------------------------------------------------------------------------
(* Properties. *)

\* The master b knows is a process that has ended: b will not register again.
Forgotten(b) == b # Master /\ memberMap[b][Master] \notin {0, life[Master]}

\* With the NATS master, two nodes that stay up come to know each other, and for
\* good, whatever was lost of requests and answers and whoever else came and went.
\* The exceptions are what checkMaster, which only looks for the master, and the
\* node-keyed unregister handler leave open: the second node registered with a
\* master whose end it was not told of, it came back before the notice of its last
\* Stop had been handled everywhere, or the one addMember that told the first node
\* of it was not published or was lost while the link was down.
MembersConverge ==
    \A a, b \in Nodes :
        <>[](dmode = "nats" /\ Up(a) /\ Up(b) /\ Up(Master))
            => <>[](GetMember(a, b) \/ Forgotten(b) \/ b \in outOfOrder \/ <<a, b>> \in unheard)

\* When nothing is under way, nobody keeps a node that has stopped.  With etcd the
\* view is what the store holds: forceSync after register makes up for what was
\* registered between the first list and the watch, and for a first list that could
\* not be read, unless its own Get fails.  Removals can be missed: one committed in
\* that gap, one undone by the second forceSync and, with NATS, one whose notice was
\* lost and one that a list, an addMember or a register that was already under way
\* undoes.  A node that crashed, or could not publish or delete, stays listed: its
\* key has no lease, and no one checks the master's members.
ViewSettles ==
    \A a, b \in Nodes :
        Up(a) /\ wire = {} /\ events[a] = <<>>
            => /\ GetMember(a, b) /\ <<a, b>> \notin missed => Up(b) \/ b \in crashed \/ store[b] # 0
               /\ dmode = "etcd" =>
                     /\ GetMember(a, b) /\ <<a, b>> \notin missed => store[b] # 0
                     /\ store[b] # 0 /\ a \notin unsynced => GetMember(a, b)
==============================================================================
