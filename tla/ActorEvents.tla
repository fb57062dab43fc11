---------------------------- MODULE ActorEvents ----------------------------
(***************************************************************************)
(* Event subscriptions: actorEvent of an Actor, the map of System from an  *)
(* event name to the paths that subscribe to it, and PostEvent, which      *)
(* finds the Actors by parsing those paths again.  One name, one path, and *)
(* the Actors that live under it one after the other.                      *)
(***************************************************************************)
EXTENDS Naturals, Sequences

CONSTANTS Paths,        \* the paths, with the child <<>> for a top-level Actor
          Instances,    \* the Actors: 1..n, created in this order
          UniqueIDs,    \* the positive unique IDs; 0 is none
          MaxFuncs, MaxEvents

\* An ID is the sequence of its segments between dots.
ASSUME EventsAssumption ==
    /\ Paths \subseteq [node : Seq(STRING), actor : Seq(STRING), child : Seq(STRING)]
    /\ Instances \subseteq Nat \ {0} /\ 0 \notin UniqueIDs /\ {MaxFuncs, MaxEvents} \subseteq Nat

VARIABLES
    path,       \* the ActorPath of the Actors
    current,    \* the Actor in actorMap (or in its parent's children), 0 if none
    life,       \* "none", "init", "work", "stopping" or "ended"
    funcMap,    \* the functions of each Actor, as the unique IDs they were registered with
    actorEventMap, \* the unique ID of the path, if it is there
    events,     \* the event queue of each Actor, as unique IDs
    posted,     \* bound: the events posted so far
    calls,      \* history: <<Actor, unique ID of the function, of the event>>
    given,      \* history: the unique IDs each Actor has registered with
    early       \* history: the Actors created while another one was in its onStop

eventVars == <<path, current, life, funcMap, actorEventMap, events, posted, calls, given, early>>
-----------------------------------------------------------------------------
\* ActorPath.String, NewChildPath and NewPath.
NewChildPath(p) == p.node \o p.actor \o p.child

\* Mutant: only short node IDs are parsed.
ToActorPath_Short(s) ==
    CASE Len(s) \in {2, 3} -> {[node |-> SubSeq(s, 1, 1), actor |-> SubSeq(s, 2, 2), child |-> SubSeq(s, 3, Len(s))]}
      [] OTHER -> {}

\* ToActorPath: a node ID of one segment or of four, an actor and perhaps a child.
ToActorPath(s) ==
    CASE Len(s) \in {2, 3} -> {[node |-> SubSeq(s, 1, 1), actor |-> SubSeq(s, 2, 2), child |-> SubSeq(s, 3, Len(s))]}
      [] Len(s) \in {5, 6} -> {[node |-> SubSeq(s, 1, 4), actor |-> SubSeq(s, 5, 5), child |-> SubSeq(s, 6, Len(s))]}
      [] OTHER -> {}

\* GetActorWithPath, GetChildActor and GetActor: by the IDs, whatever the node.
GetActorWithPath(s) ==
    {i \in {current} \ {0} : \E p \in ToActorPath(s) : p.actor = path.actor /\ p.child = path.child}
-----------------------------------------------------------------------------
EventsInit ==
    /\ path \in Paths
    /\ current = 0 /\ life = [i \in Instances |-> "none"]
    /\ funcMap = [i \in Instances |-> <<>>] /\ actorEventMap = {}
    /\ events = [i \in Instances |-> <<>>] /\ posted = 0
    /\ calls = {} /\ given = [i \in Instances |-> {}] /\ early = {}

\* An Actor is created, and its OnInit returns.
CreateUnderPath(i) ==
    /\ current = 0 /\ life[i] = "none" /\ \A j \in Instances : j < i => life[j] # "none"
    /\ current' = i /\ life' = [life EXCEPT ![i] = "init"]
    /\ early' = IF \E j \in Instances : life[j] = "stopping" THEN early \cup {i} ELSE early
    /\ UNCHANGED <<path, funcMap, actorEventMap, events, posted, calls, given>>
StartsWork(i) ==
    /\ life[i] = "init" /\ life' = [life EXCEPT ![i] = "work"]
    /\ UNCHANGED <<path, current, funcMap, actorEventMap, events, posted, calls, given, early>>

\* addActorEvent: one unique ID per path, that of the last registration.
addActorEvent(u) == actorEventMap' = {u}

\* actorEvent.Register and Unregister, on the goroutine of the Actor.
RegisterEvent(i, u) ==
    /\ life[i] \in {"init", "work"} /\ Len(funcMap[i]) < MaxFuncs
    /\ addActorEvent(u) /\ funcMap' = [funcMap EXCEPT ![i] = Append(@, u)]
    /\ given' = [given EXCEPT ![i] = @ \cup {u}]
    /\ UNCHANGED <<path, current, life, events, posted, calls, early>>

removeActorEvent == actorEventMap' = {}
UnregisterEvent(i) ==
    /\ life[i] = "work" /\ funcMap[i] # <<>>
    /\ removeActorEvent /\ funcMap' = [funcMap EXCEPT ![i] = <<>>]
    /\ UNCHANGED <<path, current, life, events, posted, calls, given, early>>

\* PostEvent: without a unique ID every event, with one the events that have it.
Matches(u) == actorEventMap \cap {0, u} # {}
PostEvent(u) ==
    /\ posted < MaxEvents /\ posted' = posted + 1
    /\ events' = [i \in Instances |->
          IF i \in GetActorWithPath(NewChildPath(path)) /\ life[i] = "work" /\ Matches(u)
          THEN Append(events[i], u) ELSE events[i]]
    /\ UNCHANGED <<path, current, life, funcMap, actorEventMap, calls, given, early>>

\* invokeFunc: the functions in order; one that panics takes the others with it.
InvokeFuncs(i) ==
    /\ life[i] = "work" /\ events[i] # <<>>
    /\ events' = [events EXCEPT ![i] = Tail(@)]
    /\ \E n \in 0..Len(funcMap[i]) :
          /\ funcMap[i] # <<>> => n > 0
          /\ calls' = calls \cup {<<i, funcMap[i][k], Head(events[i])>> : k \in 1..n}
    /\ UNCHANGED <<path, current, life, funcMap, actorEventMap, posted, given, early>>

\* onStop of the Actor: removeActor (or the parent's child.Remove), then OnStop of the
\* handler, then actorEvent.onStop, which removes the names of this Actor.
LeaveMap(i) ==
    /\ life[i] = "work" /\ current = i /\ current' = 0
    /\ life' = [life EXCEPT ![i] = "stopping"]
    /\ UNCHANGED <<path, funcMap, actorEventMap, events, posted, calls, given, early>>
EventOnStop(i) ==
    /\ life[i] = "stopping" /\ life' = [life EXCEPT ![i] = "ended"]
    /\ IF funcMap[i] # <<>> THEN removeActorEvent ELSE UNCHANGED actorEventMap
    /\ funcMap' = [funcMap EXCEPT ![i] = <<>>] /\ events' = [events EXCEPT ![i] = <<>>]
    /\ UNCHANGED <<path, current, posted, calls, given, early>>
-----------------------------------------------------------------------------
EventsNext ==
    \/ \E i \in Instances : \/ CreateUnderPath(i) \/ StartsWork(i) \/ UnregisterEvent(i)
                            \/ InvokeFuncs(i) \/ LeaveMap(i) \/ EventOnStop(i)
                            \/ \E u \in {0} \cup UniqueIDs : RegisterEvent(i, u)
    \/ \E u \in UniqueIDs : PostEvent(u)

EventsSpec == EventsInit /\ [][EventsNext]_eventVars
-----------------------------------------------------------------------------
NoDots == Len(path.node) \in {1, 4} /\ Len(path.actor) = 1 /\ Len(path.child) <= 1

\* A working Actor is found under its path and subscribed with what it registered, and
\* its functions see the events they asked for.  It holds but for three uses: an ID
\* with a dot in it, a second unique ID for one name (it counts for the functions and the
\* queued events of the first one as well), and an
\* Actor created while its predecessor is still in OnStop (PostEvent, addActorEvent,
\* removeActorEvent, ToActorPath).
EventsReachActors ==
    /\ NoDots => \A i \in Instances \ early :
          life[i] = "work" /\ funcMap[i] # <<>> =>
             /\ i \in GetActorWithPath(NewChildPath(path))
             /\ actorEventMap = {funcMap[i][Len(funcMap[i])]}
    /\ \A c \in calls : given[c[1]] # {c[2]} \/ c[1] \in early \/ c[2] \in {0, c[3]}
=============================================================================
