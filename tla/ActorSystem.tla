---------------------------- MODULE ActorSystem ----------------------------
(***************************************************************************)
(* The registry of net/actor: System.CreateActor, actorMap, the method     *)
(* table, event subscriptions, dynamic children, and System.Stop with its  *)
(* wait group.  Everything in it is keyed by Actor ID or path, while the   *)
(* run goroutines that enter and leave it are Actor instances: here an     *)
(* instance is named after the CreateActor call that made it, and a child  *)
(* after the Child().Create call that made it.  The calls for the children *)
(* of one instance ask for one child ID.  Mailboxes are the business of    *)
(* module Actor.                                                           *)
(***************************************************************************)
EXTENDS Integers, FiniteSets

CONSTANTS Creators,  \* CreateActor calls, each on a goroutine of its own
          Ids,       \* Actor IDs
          Plans,     \* which calls may be made, and for which IDs
          Kids,      \* Child().Create calls of the handlers
          ParentOf,  \* the instance whose child each of them asks for
          Finders,   \* those OnFindChild makes on the goroutine of a caller
          Methods,   \* MethodIDs
          MethodOf,  \* the MethodID registered by the handler of an ID
          NONE

ASSUME PlansAssumption ==
    /\ IsFiniteSet(Creators) /\ IsFiniteSet(Kids) /\ ParentOf \in [Kids -> Creators] /\ Finders \subseteq Kids
    /\ Plans \subseteq [ids : [Creators -> Ids], calls : SUBSET (Creators \cup Kids)]
    /\ MethodOf \in [Ids -> Methods]
    /\ NONE \notin Creators \cup Ids \cup Kids

VARIABLES
    actorMap,   \* System.actorMap: the instance stored under each ID
    routes,     \* method table: the ID (path) each MethodID leads to
    subs,       \* the IDs whose path is in actorEventMap
    wg,         \* System.wg
    cpc, got,   \* where each CreateActor is, and the instance it returned
    initDone,   \* each instance's initDone channel
    tph,        \* phase of each top-level instance
    kcpc,       \* where each Child().Create call is
    kph,        \* phase of the child it starts
    childMap,   \* the child in each instance's childActors
    tclose, kclose,   \* close tokens of instance and child
    idOf,             \* the ID each call asks for
    spc, visited,     \* System.Stop, and the IDs its Range has visited
    raced,      \* history: a creation overlapped another one of the same ID,
                \* the end of an older instance, or Stop
    crossed     \* history: the instances for which a Child().Create crossed
                \* another one's, or was under way in their own child.onStop

createVars == <<cpc, got>>
regVars == <<actorMap, routes, subs>>
childVars == <<kcpc, kph, childMap, kclose>>
stopVars == <<spc, visited, idOf>>
raceVars == <<raced, crossed>>
vars == <<regVars, wg, createVars, initDone, tph, childVars, tclose, stopVars, raceVars>>

Init ==
    /\ actorMap = [id \in Ids |-> NONE]
    /\ routes = [m \in Methods |-> NONE]
    /\ subs = {} /\ wg = 0
    /\ \E plan \in Plans :
          /\ idOf = plan.ids
          /\ cpc = [c \in Creators |-> IF c \in plan.calls THEN "idle" ELSE "never"]
          /\ kcpc = [k \in Kids |-> IF k \in plan.calls THEN "idle" ELSE "over"]
    /\ got = [c \in Creators |-> NONE]
    /\ initDone = [c \in Creators |-> "none"]
    /\ tph = [c \in Creators |-> "none"]
    /\ kph = [k \in Kids |-> "none"]
    /\ childMap = [c \in Creators |-> NONE]
    /\ tclose = [c \in Creators |-> FALSE] /\ kclose = [k \in Kids |-> FALSE]
    /\ spc = "idle" /\ visited = {} /\ raced = FALSE /\ crossed = {}

Creating(c) == cpc[c] \in {"store", "wgAdd"}
KidsOf(c) == {k \in Kids : ParentOf[k] = c}
\* A Child().Create call that has not started its child yet.
Entering(k) == kcpc[k] \in {"check", "store", "run"}
KidAlive(k) == kph[k] \notin {"none", "dead"}
Alive(c) == tph[c] \notin {"none", "dead"} \/ \E k \in KidsOf(c) : Entering(k) \/ KidAlive(k)
-----------------------------------------------------------------------------
\* CreateActor: look up, then (not atomically with it) store and start.
CreateCheck(c) ==
    /\ cpc[c] = "idle"
    /\ IF actorMap[idOf[c]] # NONE
       THEN /\ got' = [got EXCEPT ![c] = actorMap[idOf[c]]]
            /\ cpc' = [cpc EXCEPT ![c] = "ok"]
            /\ UNCHANGED raced
       ELSE /\ cpc' = [cpc EXCEPT ![c] = "store"]
            /\ raced' = (raced \/ spc # "idle" \/ \E d \in Creators \ {c} :
                            idOf[d] = idOf[c] /\ (Creating(d) \/ Alive(d)))
            /\ UNCHANGED got
    /\ UNCHANGED <<regVars, wg, initDone, tph, childVars, tclose, stopVars, crossed>>

CreateStore(c) ==
    /\ cpc[c] = "store"
    /\ actorMap' = [actorMap EXCEPT ![idOf[c]] = c]
    /\ cpc' = [cpc EXCEPT ![c] = "wgAdd"]
    /\ UNCHANGED <<routes, subs, wg, got, initDone, tph, childVars, tclose, stopVars, raceVars>>

\* wg.Add(1); go run().
CreateRun(c) ==
    /\ cpc[c] = "wgAdd"
    /\ wg' = wg + 1
    /\ tph' = [tph EXCEPT ![c] = "init"]
    /\ cpc' = [cpc EXCEPT ![c] = "wait"]
    /\ UNCHANGED <<regVars, got, initDone, childVars, tclose, stopVars, raceVars>>

CreateReturn(c) ==
    /\ cpc[c] = "wait" /\ initDone[c] # "none"
    /\ cpc' = [cpc EXCEPT ![c] = initDone[c]]
    /\ got' = IF initDone[c] = "ok" THEN [got EXCEPT ![c] = c] ELSE got
    /\ UNCHANGED <<regVars, wg, initDone, tph, childVars, tclose, stopVars, raceVars>>
-----------------------------------------------------------------------------
topFrame == <<createVars, stopVars, raceVars>>

\* OnInit: Methods().Register panics on a MethodID that is already taken.
OnInit(c) ==
    /\ tph[c] = "init"
    /\ LET m == MethodOf[idOf[c]] IN
       IF routes[m] = NONE
       THEN /\ routes' = [routes EXCEPT ![m] = idOf[c]]
            /\ subs' = subs \cup {idOf[c]}
            /\ tph' = [tph EXCEPT ![c] = "ready"]
       ELSE /\ tph' = [tph EXCEPT ![c] = "unroute"]
            /\ UNCHANGED <<routes, subs>>
    /\ UNCHANGED <<topFrame, actorMap, wg, initDone, childVars, tclose>>

\* OnInit goes on after its registrations: it returns or it panics.
InitDone(c) ==
    /\ tph[c] = "ready"
    /\ \/ /\ tph' = [tph EXCEPT ![c] = "worker"]
          /\ initDone' = [initDone EXCEPT ![c] = "ok"]
       \/ /\ tph' = [tph EXCEPT ![c] = "unroute"]
          /\ UNCHANGED initDone
    /\ UNCHANGED <<topFrame, regVars, wg, childVars, tclose>>

\* Exit, by whoever holds the Actor.
Exit(c) ==
    /\ tph[c] \in {"init", "ready", "worker", "creating"} /\ ~tclose[c]
    /\ tclose' = [tclose EXCEPT ![c] = TRUE]
    /\ UNCHANGED <<topFrame, regVars, wg, initDone, tph, childVars>>

\* The loop ends once the close token is taken and the queues are drained.
LoopEnds(c) ==
    /\ tph[c] = "worker" /\ tclose[c]
    /\ tph' = [tph EXCEPT ![c] = "unroute"]
    /\ tclose' = [tclose EXCEPT ![c] = FALSE]
    /\ UNCHANGED <<topFrame, regVars, wg, initDone, childVars>>

\* Mutant: the stopping Actor takes out the MethodIDs of its handler, also when
\* another Actor owns them.
StopUnroute_ByMethod(c) ==
    /\ tph[c] = "unroute"
    /\ routes' = [routes EXCEPT ![MethodOf[idOf[c]]] = NONE]
    /\ tph' = [tph EXCEPT ![c] = "remove"]
    /\ UNCHANGED <<topFrame, actorMap, subs, wg, initDone, childVars, tclose>>

\* onStop: UnregisterTarget and removeActor go by path and ID.
StopUnroute(c) ==
    /\ tph[c] = "unroute"
    /\ routes' = [m \in Methods |-> IF routes[m] = idOf[c] THEN NONE ELSE routes[m]]
    /\ tph' = [tph EXCEPT ![c] = "remove"]
    /\ UNCHANGED <<topFrame, actorMap, subs, wg, initDone, childVars, tclose>>

StopRemove(c) ==
    /\ tph[c] = "remove"
    /\ actorMap' = [actorMap EXCEPT ![idOf[c]] = NONE]
    /\ tph' = [tph EXCEPT ![c] = "children"]
    /\ UNCHANGED <<topFrame, routes, subs, wg, initDone, childVars, tclose>>

\* Mutant: a stopping parent leaves its children running.
StopChildren_Skips(c) ==
    /\ tph[c] = "children"
    /\ tph' = [tph EXCEPT ![c] = "clean"]
    /\ UNCHANGED <<topFrame, regVars, wg, initDone, childVars, tclose>>

\* child.onStop: the child in childActors is asked to exit, and thisActor is
\* set to nil, whatever another goroutine is doing in Create.
StopChildren(c) ==
    /\ tph[c] = "children"
    /\ kclose' = [k \in Kids |-> kclose[k] \/ childMap[c] = k]
    /\ tph' = [tph EXCEPT ![c] = "clean"]
    /\ crossed' = crossed \cup {d \in {c} : \E k \in KidsOf(c) : Entering(k)}
    /\ UNCHANGED <<createVars, stopVars, raced, regVars, wg, initDone, kcpc, kph, childMap, tclose>>

\* handler.OnStop and the clean-up behind it, which its panic skips.
StopClean(c) ==
    /\ tph[c] = "clean"
    /\ subs' \in {subs, subs \ {idOf[c]}}
    /\ tph' = [tph EXCEPT ![c] = "done"]
    /\ UNCHANGED <<topFrame, actorMap, routes, wg, initDone, childVars, tclose>>

\* wg.Done; an instance whose initialization failed then reports it.
StopDone(c) ==
    /\ tph[c] = "done"
    /\ wg' = wg - 1
    /\ initDone' = [initDone EXCEPT ![c] = IF @ = "none" THEN "err" ELSE @]
    /\ tph' = [tph EXCEPT ![c] = "dead"]
    /\ UNCHANGED <<topFrame, regVars, childVars, tclose>>
-----------------------------------------------------------------------------
kidFrame == <<createVars, stopVars, raced, regVars, initDone, tclose>>

\* The parent's own loop creates a child, in a handler that waits for it; or
\* InvokeTarget and NotifyTarget look the parent up and go to its OnFindChild
\* on the goroutine of the caller, whatever the parent does meanwhile.
ChildBegin(k) ==
    LET p == ParentOf[k] IN
    /\ kcpc[k] = "idle"
    /\ IF k \in Finders
       THEN actorMap[idOf[p]] = p /\ UNCHANGED tph
       ELSE tph[p] = "worker" /\ tph' = [tph EXCEPT ![p] = "creating"]
    /\ kcpc' = [kcpc EXCEPT ![k] = "check"]
    /\ UNCHANGED <<kidFrame, wg, kph, childMap, kclose, crossed>>

\* Create returns, to the caller or to the parent's loop.
ReturnCreate(k) ==
    /\ kcpc' = [kcpc EXCEPT ![k] = "over"]
    /\ tph' = IF k \in Finders THEN tph ELSE [tph EXCEPT ![ParentOf[k]] = "worker"]

\* Create: a child that is there already is returned; one that another call is
\* about to store is not seen.
ChildCheck(k) ==
    LET p == ParentOf[k] IN
    /\ kcpc[k] = "check"
    /\ IF childMap[p] # NONE
       THEN ReturnCreate(k) /\ UNCHANGED crossed
       ELSE /\ kcpc' = [kcpc EXCEPT ![k] = "store"]
            /\ crossed' = crossed \cup {c \in {p} : \E j \in KidsOf(p) : kcpc[j] = "store"}
            /\ UNCHANGED tph
    /\ UNCHANGED <<kidFrame, wg, kph, childMap, kclose>>

\* Mutant: the child is started but not stored in childActors.
ChildStore_Skips(k) ==
    /\ kcpc[k] = "store"
    /\ kcpc' = [kcpc EXCEPT ![k] = "run"]
    /\ UNCHANGED <<kidFrame, wg, tph, kph, childMap, kclose, crossed>>

ChildStore(k) ==
    /\ kcpc[k] = "store"
    /\ childMap' = [childMap EXCEPT ![ParentOf[k]] = k]
    /\ kcpc' = [kcpc EXCEPT ![k] = "run"]
    /\ UNCHANGED <<kidFrame, wg, tph, kph, kclose, crossed>>

\* wg.Add(1); go run(); and the wait for initDone.
ChildRun(k) ==
    /\ kcpc[k] = "run"
    /\ wg' = wg + 1
    /\ kph' = [kph EXCEPT ![k] = "init"]
    /\ kcpc' = [kcpc EXCEPT ![k] = "wait"]
    /\ UNCHANGED <<kidFrame, tph, childMap, kclose, crossed>>

\* Create uses thisActor in each of its steps: one behind child.onStop panics,
\* unless it still reads the old value, for nothing orders the two.
ChildPanics(k) ==
    /\ Entering(k) /\ tph[ParentOf[k]] \in {"clean", "done", "dead"}
    /\ kcpc' = [kcpc EXCEPT ![k] = "over"]
    /\ UNCHANGED <<kidFrame, wg, tph, kph, childMap, kclose, crossed>>

\* Exit, by whoever holds the child.
KidExit(k) ==
    /\ kcpc[k] = "run" \/ kph[k] \in {"init", "worker"}
    /\ ~kclose[k]
    /\ kclose' = [kclose EXCEPT ![k] = TRUE]
    /\ UNCHANGED <<kidFrame, wg, tph, kcpc, kph, childMap, crossed>>

\* The child's OnInit returns and releases who waits, or it panics.
KidInit(k) ==
    /\ kph[k] = "init"
    /\ \/ kph' = [kph EXCEPT ![k] = "worker"] /\ ReturnCreate(k)
       \/ kph' = [kph EXCEPT ![k] = "remove"] /\ UNCHANGED <<tph, kcpc>>
    /\ UNCHANGED <<kidFrame, wg, childMap, kclose, crossed>>

KidLoopEnds(k) ==
    /\ kph[k] = "worker" /\ kclose[k]
    /\ kph' = [kph EXCEPT ![k] = "remove"]
    /\ kclose' = [kclose EXCEPT ![k] = FALSE]
    /\ UNCHANGED <<kidFrame, wg, tph, kcpc, childMap, crossed>>

\* onStop of a child forgets its child ID in whatever instance the parent's ID
\* denotes.
KidRemove(k) ==
    /\ kph[k] = "remove"
    /\ LET p == actorMap[idOf[ParentOf[k]]] IN
       childMap' = IF p # NONE THEN [childMap EXCEPT ![p] = NONE] ELSE childMap
    /\ kph' = [kph EXCEPT ![k] = "done"]
    /\ UNCHANGED <<kidFrame, wg, tph, kcpc, kclose, crossed>>

\* handler.OnStop, wg.Done, and initDone <- err if the creator still waits.
KidDone(k) ==
    /\ kph[k] = "done"
    /\ wg' = wg - 1
    /\ kph' = [kph EXCEPT ![k] = "dead"]
    /\ IF kcpc[k] = "wait" THEN ReturnCreate(k) ELSE UNCHANGED <<tph, kcpc>>
    /\ UNCHANGED <<kidFrame, childMap, kclose, crossed>>
-----------------------------------------------------------------------------
stopFrame == <<regVars, wg, createVars, initDone, tph, childVars, idOf, crossed>>

\* Stop: actorMap.Range visits the IDs one by one and calls Exit ...
StopBegin ==
    /\ spc = "idle" /\ spc' = "range"
    /\ raced' = (raced \/ \E c \in Creators : Creating(c))
    /\ UNCHANGED <<stopFrame, visited, tclose>>

StopVisit(id) ==
    /\ spc = "range" /\ id \notin visited
    /\ visited' = visited \cup {id}
    /\ tclose' = IF actorMap[id] # NONE
                 THEN [tclose EXCEPT ![actorMap[id]] = TRUE] ELSE tclose
    /\ spc' = IF visited' = Ids THEN "wait" ELSE "range"
    /\ UNCHANGED <<stopFrame, raced>>

\* ... then wg.Wait.
StopReturn ==
    /\ spc = "wait" /\ wg = 0
    /\ spc' = "stopped"
    /\ UNCHANGED <<stopFrame, visited, tclose, raced>>
-----------------------------------------------------------------------------
Create(c) == CreateStore(c) \/ CreateRun(c) \/ CreateReturn(c)
TopRun(c) == \/ OnInit(c) \/ InitDone(c) \/ LoopEnds(c) \/ StopUnroute(c)
             \/ StopRemove(c) \/ StopChildren(c) \/ StopClean(c) \/ StopDone(c)
ChildCreate(k) == ChildCheck(k) \/ ChildStore(k) \/ ChildRun(k) \/ ChildPanics(k)
KidRun(k) == KidInit(k) \/ KidLoopEnds(k) \/ KidRemove(k) \/ KidDone(k)
Stop == (\E id \in Ids : StopVisit(id)) \/ StopReturn

TopNext(c) == CreateCheck(c) \/ Create(c) \/ TopRun(c) \/ Exit(c)
KidNext(k) == ChildBegin(k) \/ ChildCreate(k) \/ KidRun(k) \/ KidExit(k)
Next == (\E c \in Creators : TopNext(c)) \/ (\E k \in Kids : KidNext(k)) \/ StopBegin \/ Stop

Spec == Init /\ [][Next]_vars

\* Goroutines run on and OnInit/OnStop return; nobody has to create or exit.
Fairness == /\ \A c \in Creators : WF_vars(Create(c)) /\ WF_vars(TopRun(c))
            /\ \A k \in Kids : WF_vars(ChildCreate(k)) /\ WF_vars(KidRun(k))
            /\ WF_vars(Stop)
FairSpec == Spec /\ Fairness
-----------------------------------------------------------------------------
TopAlive == {c \in Creators : tph[c] \notin {"none", "dead"}}
KidsAlive == {k \in Kids : KidAlive(k)}

\* A working Actor can be reached: by its ID, by its MethodIDs and by events,
\* unless a creation raced (CreateActor, onStop).  In particular the failed
\* creation of an Actor with a taken MethodID leaves the owner's routes alone.
WorkerReachable ==
    ~raced => \A c \in Creators : tph[c] \in {"worker", "creating"} =>
        /\ actorMap[idOf[c]] = c
        /\ routes[MethodOf[idOf[c]]] = idOf[c]
        /\ idOf[c] \in subs

\* A child that runs, created by its parent's loop or by a caller in OnFindChild,
\* is the one in its parent's childActors, and has been told to exit once the
\* parent is through with child.onStop (Create, child.onStop, Remove).  It is
\* not so in two cases, both named by crossed: two calls of Create that pass
\* the check side by side, and one under way while the parent stops.
ChildNotOrphaned ==
    ~raced => \A k \in Kids : LET p == ParentOf[k] IN
        kph[k] \in {"init", "worker"} /\ p \notin crossed =>
            /\ childMap[p] = k
            /\ tph[p] \in {"clean", "done", "dead"} => kclose[k]

\* System.Stop returns, with every loop ended, the children's too, unless a
\* creation raced with it or a child's creation crossed the end of its parent
\* or another one (Stop, wg, actorChild.onStop).
StopCompletes ==
    (spc = "range") ~> (raced \/ crossed # {} \/ (spc = "stopped" /\ TopAlive = {} /\ KidsAlive = {}))
=============================================================================
