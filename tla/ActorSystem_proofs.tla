------------------------- MODULE ActorSystem_proofs -------------------------
(***************************************************************************)
(* Theorems about the registry of Actors, for any CreateActor calls, IDs,  *)
(* methods and parents (about what happens as long as no creation has      *)
(* raced), and about the timers that the actors of a system keep in its    *)
(* one wheel, for any wheel, actors and calls.                             *)
(***************************************************************************)
EXTENDS ActorSystem, ActorTimer, FiniteSetTheorems, SequenceTheorems, TLAPS

CallPlaces == {"idle", "never", "store", "wgAdd", "wait", "ok", "err"}
TopPhases == {"none", "init", "ready", "worker", "creating", "unroute", "remove", "children", "clean", "done", "dead"}
KidPlaces == {"idle", "check", "store", "run", "wait", "over"}
KidPhases == {"none", "init", "worker", "remove", "done", "dead"}

\* The top-level half of the types, and all of them.
TopTypeOK ==
    /\ actorMap \in [Ids -> Creators \cup {NONE}] /\ routes \in [Methods -> Ids \cup {NONE}]
    /\ cpc \in [Creators -> CallPlaces] /\ initDone \in [Creators -> {"none", "ok", "err"}]
    /\ tph \in [Creators -> TopPhases]
SystemTypeOK ==
    /\ actorMap \in [Ids -> Creators \cup {NONE}] /\ routes \in [Methods -> Ids \cup {NONE}]
    /\ idOf \in [Creators -> Ids]
    /\ cpc \in [Creators -> CallPlaces] /\ initDone \in [Creators -> {"none", "ok", "err"}]
    /\ tph \in [Creators -> TopPhases] /\ kcpc \in [Kids -> KidPlaces] /\ kph \in [Kids -> KidPhases]
    /\ childMap \in [Creators -> Kids \cup {NONE}] /\ kclose \in [Kids -> BOOLEAN] /\ crossed \subseteq Creators

\* An instance is stored from CreateActor to removeActor, and where it is stored if not.
Stored(c) == cpc[c] = "wgAdd" \/ tph[c] \in {"init", "ready", "worker", "creating", "unroute", "remove"}
\* Its child.onStop is not through.
Holding(c) == cpc[c] = "wgAdd" \/ tph[c] \in {"init", "ready", "worker", "creating", "unroute", "remove", "children"}
\* A call of Create that has not returned.
InCreate(k) == kcpc[k] \in {"check", "store", "run", "wait"}

\* An ID leads to an instance that was created for it and is stored.  An instance starts when
\* its CreateActor has stored it.
StagesOK ==
    /\ \A id \in Ids : actorMap[id] # NONE => idOf[actorMap[id]] = id /\ Stored(actorMap[id])
    /\ \A c \in Creators : cpc[c] \in {"idle", "never", "store", "wgAdd"} => tph[c] = "none"

\* A child runs once its creation has started it.  The parent's loop waits in the one creation
\* of its own; one under way behind child.onStop has crossed it.
KidStagesOK ==
    /\ \A k \in Kids : kcpc[k] \in {"idle", "check", "store", "run"} => kph[k] = "none"
    /\ \A k \in Kids : kph[k] = "init" => kcpc[k] = "wait"
    /\ \A k \in Kids \ Finders : InCreate(k) => tph[ParentOf[k]] = "creating"
    /\ \A k, j \in Kids \ Finders : InCreate(k) /\ InCreate(j) /\ ParentOf[k] = ParentOf[j] => k = j
    /\ \A k \in Kids : Entering(k) => ParentOf[k] \in crossed \/ Holding(ParentOf[k])

\* A call is creating, or its instance or a child of it has not ended.
Active(c) == Creating(c) \/ Alive(c)

\* An ID belongs to one instance at a time.
OneAtATime == \A c, d \in Creators : c # d /\ idOf[c] = idOf[d] => ~Active(c) \/ ~Active(d)

StoredOK == \A c \in Creators : Stored(c) => actorMap[idOf[c]] = c
\* Its routes and its subscription lead to it from OnInit to UnregisterTarget.
RoutedOK ==
    \A c \in Creators : tph[c] \in {"ready", "worker", "creating"}
        => routes[MethodOf[idOf[c]]] = idOf[c] /\ idOf[c] \in subs

\* A child is stored, and nothing else is, from Create to its own Remove; a Create that has not
\* found a child finds none to overwrite, and no other is at the same point.
Kept(k) == kcpc[k] = "run" \/ kph[k] \in {"init", "worker", "remove"}
Told(k) == kph[k] \in {"init", "worker"} /\ tph[ParentOf[k]] \in {"clean", "done", "dead"} => kclose[k] = TRUE
ChildOK ==
    \A k \in Kids : ParentOf[k] \notin crossed =>
        /\ Kept(k) => childMap[ParentOf[k]] = k
        /\ kcpc[k] = "store" => childMap[ParentOf[k]] = NONE
        /\ \A j \in Kids : ParentOf[j] = ParentOf[k] /\ kcpc[k] = "store" /\ kcpc[j] = "store" => j = k
        /\ Told(k)

SystemInv == SystemTypeOK /\ StagesOK /\ KidStagesOK /\ (~raced => OneAtATime /\ StoredOK /\ RoutedOK /\ ChildOK)

\* A race is not forgotten.
LEMMA RaceStays ==
    ASSUME [Next]_vars
    PROVE  (raced => raced') /\ crossed \subseteq crossed'
<1>1. ASSUME raced PROVE raced'
    <2>1. CASE StopBegin \/ \E c \in Creators : CreateCheck(c)
        BY <1>1, <2>1 DEF StopBegin, CreateCheck
    <2>2. CASE ~StopBegin /\ ~\E c \in Creators : CreateCheck(c)
        <3>1. raced' = raced
            BY <2>2 DEF Next, TopNext, Create, TopRun, CreateStore, CreateRun, CreateReturn, OnInit, InitDone,
               Exit, LoopEnds, StopUnroute, StopRemove, StopChildren, StopClean, StopDone, topFrame, raceVars,
               KidNext, ChildCreate, KidRun, ChildBegin, ChildCheck, ChildStore, ChildRun, ChildPanics, KidExit, KidInit,
               KidLoopEnds, KidRemove, KidDone, kidFrame, Stop, StopVisit, StopReturn, stopFrame, vars
        <3> QED
            BY <1>1, <3>1
    <2> QED
        BY <2>1, <2>2
<1>2. crossed \subseteq crossed'
    <2>1. CASE \E c \in Creators : TopNext(c)
        BY <2>1 DEF TopNext, Create, TopRun, CreateCheck, CreateStore, CreateRun, CreateReturn, OnInit, InitDone,
           Exit, LoopEnds, StopUnroute, StopRemove, StopChildren, StopClean, StopDone, topFrame, raceVars
    <2>2. CASE \E k \in Kids : KidNext(k)
        BY <2>2 DEF KidNext, ChildCreate, KidRun, ChildBegin, ChildCheck, ChildStore, ChildRun, ChildPanics, KidExit, KidInit,
           KidLoopEnds, KidRemove, KidDone
    <2>3. CASE StopBegin \/ Stop \/ UNCHANGED vars
        BY <2>3 DEF StopBegin, Stop, StopVisit, StopReturn, stopFrame, vars, raceVars
    <2> QED
        BY <2>1, <2>2, <2>3 DEF Next
<1> QED
    BY <1>1, <1>2

\* The steps of System.Stop only touch close tokens.
LEMMA StopSteps ==
    ASSUME SystemInv, StopBegin \/ Stop \/ UNCHANGED vars, raced => raced'
    PROVE  SystemInv'
<1>1. UNCHANGED <<actorMap, routes, subs, idOf, cpc, initDone, tph, kcpc, kph, childMap, kclose, crossed>>
    BY DEF StopBegin, Stop, StopVisit, StopReturn, stopFrame, regVars, createVars, childVars, vars, stopVars, raceVars
<1> QED
    BY <1>1 DEF SystemInv, SystemTypeOK, StagesOK, KidStagesOK, OneAtATime, StoredOK, RoutedOK, ChildOK, Active, Creating, Alive,
                Entering, KidAlive, KidsOf, Stored, Holding, InCreate, Kept, Told

\* What CreateActor and the run goroutines do: an instance goes through its phases in order,
\* only CreateActor's check makes it active, and no child's call or phase moves.
LEMMA TopStep ==
    ASSUME SystemTypeOK, StagesOK, NEW c \in Creators, TopNext(c)
    PROVE  /\ SystemTypeOK' /\ UNCHANGED <<idOf, kcpc, kph, childMap, spc, visited>>
           /\ \A d \in Creators : d # c => cpc'[d] = cpc[d] /\ tph'[d] = tph[d]
           /\ cpc'[c] \in {"idle", "never", "store", "wgAdd"} => tph'[c] = "none"
           /\ tph[c] = "creating" <=> tph'[c] = "creating"
           /\ Stored(c)' => Stored(c) \/ CreateStore(c)
           /\ Holding(c) => Holding(c)' \/ StopChildren(c)
           /\ Holding(c)' => Holding(c) \/ CreateStore(c)
           /\ StopChildren(c) \/ UNCHANGED <<crossed, kclose>>
<1>1. UNCHANGED <<idOf, kcpc, kph, childMap, spc, visited>> /\ idOf[c] \in Ids /\ (StopChildren(c) \/ UNCHANGED <<crossed, kclose>>)
    BY DEF SystemTypeOK, TopNext, Create, TopRun, CreateCheck, CreateStore, CreateRun, CreateReturn, OnInit, InitDone,
       Exit, LoopEnds, StopUnroute, StopRemove, StopChildren, StopClean, StopDone, topFrame, stopVars, childVars, raceVars
<1>a. TopTypeOK
    BY DEF SystemTypeOK, TopTypeOK
<1>b. ASSUME TopTypeOK', UNCHANGED <<crossed, kclose>> PROVE SystemTypeOK'
    BY <1>1, <1>b DEF SystemTypeOK, TopTypeOK
<1>2. CASE CreateCheck(c) \/ Create(c)
    <2>1. CASE CreateCheck(c)
        <3>1. SystemTypeOK'
            <4>1. TopTypeOK'
                BY <1>1, <1>a, <2>1 DEF TopTypeOK, CreateCheck, regVars, CallPlaces, TopPhases
            <4> QED
                BY <1>b, <4>1, <2>1 DEF CreateCheck, childVars, raceVars
        <3>2. /\ \A d \in Creators : d # c => cpc'[d] = cpc[d] /\ tph'[d] = tph[d]
              /\ cpc'[c] \in {"idle", "never", "store", "wgAdd"} => tph'[c] = "none"
              /\ tph[c] = "creating" <=> tph'[c] = "creating"
            BY <1>1, <2>1 DEF SystemTypeOK, StagesOK, CreateCheck, regVars
        <3>3. /\ Stored(c)' => Stored(c) \/ CreateStore(c)
              /\ Holding(c) => Holding(c)' \/ StopChildren(c)
              /\ Holding(c)' => Holding(c) \/ CreateStore(c)
            BY <1>1, <2>1 DEF SystemTypeOK, StagesOK, CreateCheck, regVars, Stored, Holding
        <3> QED
            BY <1>1, <3>1, <3>2, <3>3
    <2>2. CASE CreateStore(c)
        <3>1. SystemTypeOK'
            <4>1. TopTypeOK'
                BY <1>1, <1>a, <2>2 DEF TopTypeOK, CreateStore, regVars, CallPlaces, TopPhases
            <4> QED
                BY <1>b, <4>1, <2>2 DEF CreateStore, childVars, raceVars
        <3>2. /\ \A d \in Creators : d # c => cpc'[d] = cpc[d] /\ tph'[d] = tph[d]
              /\ cpc'[c] \in {"idle", "never", "store", "wgAdd"} => tph'[c] = "none"
              /\ tph[c] = "creating" <=> tph'[c] = "creating"
            BY <1>1, <2>2 DEF SystemTypeOK, StagesOK, CreateStore, regVars
        <3>3. /\ Stored(c)' => Stored(c) \/ CreateStore(c)
              /\ Holding(c) => Holding(c)' \/ StopChildren(c)
              /\ Holding(c)' => Holding(c) \/ CreateStore(c)
            BY <1>1, <2>2 DEF SystemTypeOK, StagesOK, CreateStore, regVars, Stored, Holding
        <3> QED
            BY <1>1, <3>1, <3>2, <3>3
    <2>3. CASE CreateRun(c)
        <3>1. SystemTypeOK'
            <4>1. TopTypeOK'
                BY <1>1, <1>a, <2>3 DEF TopTypeOK, CreateRun, regVars, CallPlaces, TopPhases
            <4> QED
                BY <1>b, <4>1, <2>3 DEF CreateRun, childVars, raceVars
        <3>2. /\ \A d \in Creators : d # c => cpc'[d] = cpc[d] /\ tph'[d] = tph[d]
              /\ cpc'[c] \in {"idle", "never", "store", "wgAdd"} => tph'[c] = "none"
              /\ tph[c] = "creating" <=> tph'[c] = "creating"
            BY <1>1, <2>3 DEF SystemTypeOK, StagesOK, CreateRun, regVars
        <3>3. /\ Stored(c)' => Stored(c) \/ CreateStore(c)
              /\ Holding(c) => Holding(c)' \/ StopChildren(c)
              /\ Holding(c)' => Holding(c) \/ CreateStore(c)
            BY <1>1, <2>3 DEF SystemTypeOK, StagesOK, CreateRun, regVars, Stored, Holding
        <3> QED
            BY <1>1, <3>1, <3>2, <3>3
    <2>4. CASE CreateReturn(c)
        <3>1. SystemTypeOK'
            <4>1. TopTypeOK'
                BY <1>1, <1>a, <2>4 DEF TopTypeOK, CreateReturn, regVars, CallPlaces, TopPhases
            <4> QED
                BY <1>b, <4>1, <2>4 DEF CreateReturn, childVars, raceVars
        <3>2. /\ \A d \in Creators : d # c => cpc'[d] = cpc[d] /\ tph'[d] = tph[d]
              /\ cpc'[c] \in {"idle", "never", "store", "wgAdd"} => tph'[c] = "none"
              /\ tph[c] = "creating" <=> tph'[c] = "creating"
            BY <1>1, <2>4 DEF SystemTypeOK, StagesOK, CreateReturn, regVars
        <3>3. /\ Stored(c)' => Stored(c) \/ CreateStore(c)
              /\ Holding(c) => Holding(c)' \/ StopChildren(c)
              /\ Holding(c)' => Holding(c) \/ CreateStore(c)
            BY <1>1, <2>4 DEF SystemTypeOK, StagesOK, CreateReturn, regVars, Stored, Holding
        <3> QED
            BY <1>1, <3>1, <3>2, <3>3
    <2> QED
        BY <1>2, <2>1, <2>2, <2>3, <2>4 DEF Create
<1>3. CASE OnInit(c) \/ InitDone(c) \/ LoopEnds(c) \/ Exit(c)
    <2>1. CASE OnInit(c)
        <3>1. SystemTypeOK'
            <4>1. TopTypeOK'
                BY <1>1, <1>a, <2>1 DEF TopTypeOK, OnInit, topFrame, createVars, regVars, TopPhases
            <4> QED
                BY <1>b, <4>1, <2>1 DEF OnInit, topFrame, childVars, raceVars
        <3>2. /\ \A d \in Creators : d # c => cpc'[d] = cpc[d] /\ tph'[d] = tph[d]
              /\ cpc'[c] \in {"idle", "never", "store", "wgAdd"} => tph'[c] = "none"
              /\ tph[c] = "creating" <=> tph'[c] = "creating"
            BY <1>1, <2>1 DEF SystemTypeOK, StagesOK, OnInit, topFrame, createVars, regVars
        <3>3. /\ Stored(c)' => Stored(c) \/ CreateStore(c)
              /\ Holding(c) => Holding(c)' \/ StopChildren(c)
              /\ Holding(c)' => Holding(c) \/ CreateStore(c)
            BY <1>1, <2>1 DEF SystemTypeOK, StagesOK, OnInit, topFrame, createVars, regVars, Stored, Holding
        <3> QED
            BY <1>1, <3>1, <3>2, <3>3
    <2>2. CASE InitDone(c)
        <3>1. SystemTypeOK'
            <4>1. TopTypeOK'
                BY <1>1, <1>a, <2>2 DEF TopTypeOK, InitDone, topFrame, createVars, regVars, TopPhases
            <4> QED
                BY <1>b, <4>1, <2>2 DEF InitDone, topFrame, childVars, raceVars
        <3>2. /\ \A d \in Creators : d # c => cpc'[d] = cpc[d] /\ tph'[d] = tph[d]
              /\ cpc'[c] \in {"idle", "never", "store", "wgAdd"} => tph'[c] = "none"
              /\ tph[c] = "creating" <=> tph'[c] = "creating"
            BY <1>1, <2>2 DEF SystemTypeOK, StagesOK, InitDone, topFrame, createVars, regVars
        <3>3. /\ Stored(c)' => Stored(c) \/ CreateStore(c)
              /\ Holding(c) => Holding(c)' \/ StopChildren(c)
              /\ Holding(c)' => Holding(c) \/ CreateStore(c)
            BY <1>1, <2>2 DEF SystemTypeOK, StagesOK, InitDone, topFrame, createVars, regVars, Stored, Holding
        <3> QED
            BY <1>1, <3>1, <3>2, <3>3
    <2>3. CASE LoopEnds(c)
        <3>1. SystemTypeOK'
            <4>1. TopTypeOK'
                BY <1>1, <1>a, <2>3 DEF TopTypeOK, LoopEnds, topFrame, createVars, regVars, TopPhases
            <4> QED
                BY <1>b, <4>1, <2>3 DEF LoopEnds, topFrame, childVars, raceVars
        <3>2. /\ \A d \in Creators : d # c => cpc'[d] = cpc[d] /\ tph'[d] = tph[d]
              /\ cpc'[c] \in {"idle", "never", "store", "wgAdd"} => tph'[c] = "none"
              /\ tph[c] = "creating" <=> tph'[c] = "creating"
            BY <1>1, <2>3 DEF SystemTypeOK, StagesOK, LoopEnds, topFrame, createVars, regVars
        <3>3. /\ Stored(c)' => Stored(c) \/ CreateStore(c)
              /\ Holding(c) => Holding(c)' \/ StopChildren(c)
              /\ Holding(c)' => Holding(c) \/ CreateStore(c)
            BY <1>1, <2>3 DEF SystemTypeOK, StagesOK, LoopEnds, topFrame, createVars, regVars, Stored, Holding
        <3> QED
            BY <1>1, <3>1, <3>2, <3>3
    <2>4. CASE Exit(c)
        <3>1. SystemTypeOK'
            <4>1. TopTypeOK'
                BY <1>1, <1>a, <2>4 DEF TopTypeOK, Exit, topFrame, createVars, regVars, TopPhases
            <4> QED
                BY <1>b, <4>1, <2>4 DEF Exit, topFrame, childVars, raceVars
        <3>2. /\ \A d \in Creators : d # c => cpc'[d] = cpc[d] /\ tph'[d] = tph[d]
              /\ cpc'[c] \in {"idle", "never", "store", "wgAdd"} => tph'[c] = "none"
              /\ tph[c] = "creating" <=> tph'[c] = "creating"
            BY <1>1, <2>4 DEF SystemTypeOK, StagesOK, Exit, topFrame, createVars, regVars
        <3>3. /\ Stored(c)' => Stored(c) \/ CreateStore(c)
              /\ Holding(c) => Holding(c)' \/ StopChildren(c)
              /\ Holding(c)' => Holding(c) \/ CreateStore(c)
            BY <1>1, <2>4 DEF SystemTypeOK, StagesOK, Exit, topFrame, createVars, regVars, Stored, Holding
        <3> QED
            BY <1>1, <3>1, <3>2, <3>3
    <2> QED
        BY <1>3, <2>1, <2>2, <2>3, <2>4
<1>4. CASE StopUnroute(c) \/ StopRemove(c) \/ StopClean(c) \/ StopDone(c)
    <2>1. CASE StopUnroute(c)
        <3>1. SystemTypeOK'
            <4>1. TopTypeOK'
                BY <1>1, <1>a, <2>1 DEF TopTypeOK, StopUnroute, topFrame, createVars, regVars, TopPhases
            <4> QED
                BY <1>b, <4>1, <2>1 DEF StopUnroute, topFrame, childVars, raceVars
        <3>2. /\ \A d \in Creators : d # c => cpc'[d] = cpc[d] /\ tph'[d] = tph[d]
              /\ cpc'[c] \in {"idle", "never", "store", "wgAdd"} => tph'[c] = "none"
              /\ tph[c] = "creating" <=> tph'[c] = "creating"
            BY <1>1, <2>1 DEF SystemTypeOK, StagesOK, StopUnroute, topFrame, createVars, regVars
        <3>3. /\ Stored(c)' => Stored(c) \/ CreateStore(c)
              /\ Holding(c) => Holding(c)' \/ StopChildren(c)
              /\ Holding(c)' => Holding(c) \/ CreateStore(c)
            BY <1>1, <2>1 DEF SystemTypeOK, StagesOK, StopUnroute, topFrame, createVars, regVars, Stored, Holding
        <3> QED
            BY <1>1, <3>1, <3>2, <3>3
    <2>2. CASE StopRemove(c)
        <3>1. SystemTypeOK'
            <4>1. TopTypeOK'
                BY <1>1, <1>a, <2>2 DEF TopTypeOK, StopRemove, topFrame, createVars, regVars, TopPhases
            <4> QED
                BY <1>b, <4>1, <2>2 DEF StopRemove, topFrame, childVars, raceVars
        <3>2. /\ \A d \in Creators : d # c => cpc'[d] = cpc[d] /\ tph'[d] = tph[d]
              /\ cpc'[c] \in {"idle", "never", "store", "wgAdd"} => tph'[c] = "none"
              /\ tph[c] = "creating" <=> tph'[c] = "creating"
            BY <1>1, <2>2 DEF SystemTypeOK, StagesOK, StopRemove, topFrame, createVars, regVars
        <3>3. /\ Stored(c)' => Stored(c) \/ CreateStore(c)
              /\ Holding(c) => Holding(c)' \/ StopChildren(c)
              /\ Holding(c)' => Holding(c) \/ CreateStore(c)
            BY <1>1, <2>2 DEF SystemTypeOK, StagesOK, StopRemove, topFrame, createVars, regVars, Stored, Holding
        <3> QED
            BY <1>1, <3>1, <3>2, <3>3
    <2>3. CASE StopClean(c)
        <3>1. SystemTypeOK'
            <4>1. TopTypeOK'
                BY <1>1, <1>a, <2>3 DEF TopTypeOK, StopClean, topFrame, createVars, regVars, TopPhases
            <4> QED
                BY <1>b, <4>1, <2>3 DEF StopClean, topFrame, childVars, raceVars
        <3>2. /\ \A d \in Creators : d # c => cpc'[d] = cpc[d] /\ tph'[d] = tph[d]
              /\ cpc'[c] \in {"idle", "never", "store", "wgAdd"} => tph'[c] = "none"
              /\ tph[c] = "creating" <=> tph'[c] = "creating"
            BY <1>1, <2>3 DEF SystemTypeOK, StagesOK, StopClean, topFrame, createVars, regVars
        <3>3. /\ Stored(c)' => Stored(c) \/ CreateStore(c)
              /\ Holding(c) => Holding(c)' \/ StopChildren(c)
              /\ Holding(c)' => Holding(c) \/ CreateStore(c)
            BY <1>1, <2>3 DEF SystemTypeOK, StagesOK, StopClean, topFrame, createVars, regVars, Stored, Holding
        <3> QED
            BY <1>1, <3>1, <3>2, <3>3
    <2>4. CASE StopDone(c)
        <3>1. SystemTypeOK'
            <4>1. TopTypeOK'
                BY <1>1, <1>a, <2>4 DEF TopTypeOK, StopDone, topFrame, createVars, regVars, TopPhases
            <4> QED
                BY <1>b, <4>1, <2>4 DEF StopDone, topFrame, childVars, raceVars
        <3>2. /\ \A d \in Creators : d # c => cpc'[d] = cpc[d] /\ tph'[d] = tph[d]
              /\ cpc'[c] \in {"idle", "never", "store", "wgAdd"} => tph'[c] = "none"
              /\ tph[c] = "creating" <=> tph'[c] = "creating"
            BY <1>1, <2>4 DEF SystemTypeOK, StagesOK, StopDone, topFrame, createVars, regVars
        <3>3. /\ Stored(c)' => Stored(c) \/ CreateStore(c)
              /\ Holding(c) => Holding(c)' \/ StopChildren(c)
              /\ Holding(c)' => Holding(c) \/ CreateStore(c)
            BY <1>1, <2>4 DEF SystemTypeOK, StagesOK, StopDone, topFrame, createVars, regVars, Stored, Holding
        <3> QED
            BY <1>1, <3>1, <3>2, <3>3
    <2> QED
        BY <1>4, <2>1, <2>2, <2>3, <2>4
<1>5. CASE StopChildren(c)
    <2>1. kclose' \in [Kids -> BOOLEAN] /\ crossed' \subseteq Creators
        <3>1. crossed' \subseteq crossed \cup {c} /\ kclose' = [k \in Kids |-> kclose[k] \/ childMap[c] = k]
            BY <1>5 DEF StopChildren
        <3>2. \A k \in Kids : (kclose[k] \/ childMap[c] = k) \in BOOLEAN
            OBVIOUS
        <3> QED
            BY <3>1, <3>2 DEF SystemTypeOK
    <2> QED
        BY <1>1, <1>5, <2>1 DEF SystemTypeOK, StagesOK, StopChildren, createVars, regVars, TopPhases, Stored, Holding
<1> QED
    BY <1>2, <1>3, <1>4, <1>5 DEF TopNext, TopRun

\* What a creation of a child and the child's goroutine do: only the phase of the parent whose
\* loop creates it moves, between its handler and the wait in it.
LEMMA KidStep ==
    ASSUME SystemTypeOK, StagesOK, KidStagesOK, NEW k \in Kids, KidNext(k)
    PROVE  /\ SystemTypeOK' /\ UNCHANGED <<createVars, stopVars, raced, regVars, initDone, tclose>>
           /\ \A j \in Kids : j # k => kcpc'[j] = kcpc[j] /\ kph'[j] = kph[j] /\ kclose'[j] = kclose[j]
           /\ \/ tph' = tph
              \/ k \notin Finders /\ tph[ParentOf[k]] = "worker" /\ tph' = [tph EXCEPT ![ParentOf[k]] = "creating"] /\ ChildBegin(k)
              \/ k \notin Finders /\ tph[ParentOf[k]] = "creating" /\ tph' = [tph EXCEPT ![ParentOf[k]] = "worker"]
                 /\ kcpc' = [kcpc EXCEPT ![k] = "over"]
           /\ \A c \in Creators : (Stored(c)' <=> Stored(c)) /\ (Holding(c)' <=> Holding(c))
           /\ StagesOK'
<1> DEFINE p == ParentOf[k]
<1>1. p \in Creators /\ UNCHANGED <<createVars, stopVars, raced, regVars, initDone, tclose>>
    BY PlansAssumption DEF KidNext, ChildCreate, KidRun, ChildBegin, ChildCheck, ChildStore, ChildRun, ChildPanics, KidExit,
       KidInit, KidLoopEnds, KidRemove, KidDone, kidFrame
<1>2. UNCHANGED <<actorMap, routes, subs, idOf, cpc, initDone>>
    BY <1>1 DEF createVars, stopVars, regVars
<1>3. ASSUME ReturnCreate(k), InCreate(k)
      PROVE  /\ kcpc' \in [Kids -> KidPlaces] /\ tph' \in [Creators -> TopPhases] /\ kcpc' = [kcpc EXCEPT ![k] = "over"]
             /\ tph' = tph \/ (k \notin Finders /\ tph[p] = "creating" /\ tph' = [tph EXCEPT ![p] = "worker"])
    BY <1>1, <1>3 DEF ReturnCreate, SystemTypeOK, KidStagesOK, KidPlaces, TopPhases
<1> DEFINE Moved == \/ tph' = tph
                    \/ k \notin Finders /\ tph[p] = "worker" /\ tph' = [tph EXCEPT ![p] = "creating"] /\ ChildBegin(k)
                    \/ k \notin Finders /\ tph[p] = "creating" /\ tph' = [tph EXCEPT ![p] = "worker"]
                       /\ kcpc' = [kcpc EXCEPT ![k] = "over"]
           Others == \A j \in Kids : j # k => kcpc'[j] = kcpc[j] /\ kph'[j] = kph[j] /\ kclose'[j] = kclose[j]
<1>4. SystemTypeOK' /\ Moved /\ Others
    <2>1. CASE ChildBegin(k)
        <3>1. UNCHANGED <<kph, childMap, kclose, crossed>> /\ kcpc' = [kcpc EXCEPT ![k] = "check"]
            BY <2>1 DEF ChildBegin
        <3>2. tph' = tph \/ (k \notin Finders /\ tph[p] = "worker" /\ tph' = [tph EXCEPT ![p] = "creating"])
            BY <2>1 DEF ChildBegin
        <3> QED
            BY <1>1, <1>2, <2>1, <3>1, <3>2 DEF SystemTypeOK, KidPlaces, TopPhases
    <2>2. CASE ChildCheck(k)
        <3>1. UNCHANGED <<kph, childMap, kclose>> /\ InCreate(k)
            BY <2>2 DEF ChildCheck, InCreate
        <3>2. CASE ReturnCreate(k) /\ UNCHANGED crossed
            BY <1>1, <1>2, <1>3, <3>1, <3>2 DEF SystemTypeOK
        <3>3. CASE kcpc' = [kcpc EXCEPT ![k] = "store"] /\ crossed' \subseteq crossed \cup {p} /\ UNCHANGED tph
            BY <1>1, <1>2, <3>1, <3>3 DEF SystemTypeOK, KidPlaces
        <3> QED
            BY <2>2, <3>2, <3>3 DEF ChildCheck
    <2>3. CASE ChildStore(k) \/ ChildRun(k) \/ ChildPanics(k) \/ KidExit(k)
        BY <1>1, <1>2, <2>3 DEF ChildStore, ChildRun, ChildPanics, KidExit, SystemTypeOK, KidPlaces, KidPhases
    <2>4. CASE KidInit(k) /\ ReturnCreate(k)
        <3>1. InCreate(k) /\ kph' \in [Kids -> KidPhases] /\ UNCHANGED <<childMap, kclose, crossed>>
              /\ \A j \in Kids : j # k => kph'[j] = kph[j]
            BY <2>4 DEF KidInit, InCreate, SystemTypeOK, KidStagesOK, KidPhases
        <3> QED
            BY <1>1, <1>2, <1>3, <2>4, <3>1 DEF SystemTypeOK
    <2>5. CASE KidInit(k) /\ UNCHANGED <<tph, kcpc>>
        BY <1>1, <1>2, <2>5 DEF KidInit, SystemTypeOK, KidPhases
    <2>6. CASE KidLoopEnds(k) \/ KidRemove(k)
        BY <1>1, <1>2, <2>6 DEF KidLoopEnds, KidRemove, SystemTypeOK, KidPhases
    <2>7. CASE KidDone(k) /\ kcpc[k] = "wait"
        <3>1. InCreate(k) /\ ReturnCreate(k) /\ kph' \in [Kids -> KidPhases] /\ UNCHANGED <<childMap, kclose, crossed>>
              /\ \A j \in Kids : j # k => kph'[j] = kph[j]
            BY <2>7 DEF KidDone, InCreate, SystemTypeOK, KidPhases
        <3> QED
            BY <1>1, <1>2, <1>3, <3>1 DEF SystemTypeOK
    <2>8. CASE KidDone(k) /\ kcpc[k] # "wait"
        BY <1>1, <1>2, <2>8 DEF KidDone, SystemTypeOK, KidPhases
    <2> QED
        BY <2>1, <2>2, <2>3, <2>4, <2>5, <2>6, <2>7, <2>8 DEF KidNext, ChildCreate, KidRun, KidInit
<1>5. tph = tph' \/ \E x, y \in {"worker", "creating"} : tph[p] = x /\ tph' = [tph EXCEPT ![p] = y]
    BY <1>4
<1>6. \A c \in Creators : (Stored(c)' <=> Stored(c)) /\ (Holding(c)' <=> Holding(c))
    BY <1>1, <1>2, <1>5 DEF Stored, Holding, SystemTypeOK
<1>7. StagesOK'
    <2>1. \A id \in Ids : actorMap'[id] # NONE => idOf'[actorMap'[id]] = id /\ actorMap'[id] \in Creators /\ Stored(actorMap'[id])
        BY <1>2 DEF StagesOK, SystemTypeOK
    <2>2. \A c \in Creators : tph[c] = "none" => tph'[c] = "none"
        BY <1>1, <1>5 DEF SystemTypeOK
    <2>3. \A id \in Ids : actorMap'[id] # NONE => Stored(actorMap[id])'
        BY <1>2, <1>6, <2>1
    <2> QED
        BY <1>2, <2>1, <2>2, <2>3 DEF StagesOK
<1> QED
    BY <1>1, <1>4, <1>6, <1>7

\* CreateActor stores an instance under its own ID, and its end takes out nothing else.
LEMMA StagesStep ==
    ASSUME SystemTypeOK, StagesOK, NEW c \in Creators, TopNext(c)
    PROVE  StagesOK'
<1>1. idOf' = idOf /\ idOf[c] \in Ids /\ NONE \notin Creators
    BY TopStep, PlansAssumption DEF SystemTypeOK
<1>2. \A d \in Creators : cpc'[d] \in {"idle", "never", "store", "wgAdd"} => tph'[d] = "none"
    BY TopStep DEF StagesOK
<1>3. ASSUME NEW id \in Ids, actorMap'[id] # NONE PROVE idOf'[actorMap'[id]] = id /\ Stored(actorMap[id])'
    <2>1. CASE CreateStore(c) /\ id = idOf[c]
        BY <1>1, <2>1 DEF CreateStore, SystemTypeOK, Stored
    <2>2. CASE ~(CreateStore(c) /\ id = idOf[c])
        <3>1. actorMap'[id] = actorMap[id] /\ (id = idOf[c] => ~StopRemove(c))
            BY <1>1, <1>3, <2>2 DEF SystemTypeOK, TopNext, Create, TopRun, CreateCheck, CreateStore, CreateRun, CreateReturn, OnInit, InitDone,
               Exit, LoopEnds, StopUnroute, StopRemove, StopChildren, StopClean, StopDone, regVars
        <3> DEFINE d == actorMap[id]
        <3>2. d \in Creators /\ idOf[d] = id /\ Stored(d)
            BY <1>3, <3>1 DEF StagesOK, SystemTypeOK
        <3>3. CASE d # c
            <4>1. cpc'[d] = cpc[d] /\ tph'[d] = tph[d]
                BY <3>2, <3>3, TopStep
            <4> QED
                BY <1>1, <3>1, <3>2, <4>1 DEF Stored
        <3>4. CASE d = c
            <4>1. ~StopRemove(c) /\ Stored(c)
                BY <3>1, <3>2, <3>4
            <4>2. Stored(c)'
                BY <4>1 DEF Stored, StagesOK, SystemTypeOK, TopNext, Create, TopRun, CreateCheck, CreateStore, CreateRun, CreateReturn, OnInit, InitDone,
               Exit, LoopEnds, StopUnroute, StopChildren, StopClean, StopDone, topFrame, createVars
            <4>3. actorMap'[id] = c
                BY <3>1, <3>4
            <4> QED
                BY <1>1, <3>2, <3>4, <4>2, <4>3 DEF Stored
        <3> QED
            BY <3>3, <3>4
    <2> QED
        BY <2>1, <2>2
<1> QED
    BY <1>2, <1>3 DEF StagesOK

\* The loop of a parent that creates a child does nothing else, and an instance that ends its
\* child.onStop marks the creations that are under way.
LEMMA KidStagesStep ==
    ASSUME SystemTypeOK, StagesOK, KidStagesOK, NEW c \in Creators, TopNext(c)
    PROVE  KidStagesOK'
<1>1. UNCHANGED <<kcpc, kph>> /\ ParentOf \in [Kids -> Creators]
    BY TopStep, PlansAssumption
<1>2. \A d \in Creators : tph[d] = "creating" => tph'[d] = "creating"
    BY TopStep
<1>3. ASSUME NEW k \in Kids, Entering(k) PROVE ParentOf[k] \in crossed' \/ Holding(ParentOf[k])'
    <2>1. CASE StopChildren(c)
        <3>1. \A d \in Creators : d # c => (Holding(d) => Holding(d)')
            BY TopStep DEF Holding
        <3>2. ParentOf[k] = c => c \in crossed'
            BY <1>3, <2>1 DEF StopChildren, KidsOf
        <3>3. crossed \subseteq crossed'
            BY <2>1 DEF StopChildren
        <3> QED
            BY <1>1, <1>3, <3>1, <3>2, <3>3 DEF KidStagesOK
    <2>2. CASE ~StopChildren(c)
        <3>1. crossed' = crossed /\ \A d \in Creators : Holding(d) => Holding(d)'
            BY <2>2, TopStep DEF Holding
        <3> QED
            BY <1>1, <1>3, <3>1 DEF KidStagesOK
    <2> QED
        BY <2>1, <2>2
<1>4. \A k \in Kids : Entering(k)' <=> Entering(k)
    BY <1>1 DEF Entering
<1>5. \A k \in Kids : InCreate(k)' <=> InCreate(k)
    BY <1>1 DEF InCreate
<1> QED
    BY <1>1, <1>2, <1>3, <1>4, <1>5 DEF KidStagesOK

\* A creation goes through its steps in order, and so does the child.
LEMMA KidStagesKept ==
    ASSUME SystemTypeOK, StagesOK, KidStagesOK, NEW k \in Kids, KidNext(k)
    PROVE  KidStagesOK'
<1> DEFINE p == ParentOf[k]
<1>1. /\ p \in Creators /\ ParentOf \in [Kids -> Creators]
      /\ \A j \in Kids : j # k => kcpc'[j] = kcpc[j] /\ kph'[j] = kph[j]
      /\ \A c \in Creators : Holding(c)' <=> Holding(c)
    BY KidStep, PlansAssumption
<1>2. crossed \subseteq crossed'
    BY DEF KidNext, ChildCreate, KidRun, ChildBegin, ChildCheck, ChildStore, ChildRun, ChildPanics, KidExit,
       KidInit, KidLoopEnds, KidRemove, KidDone
<1>3. /\ kcpc'[k] \in {"idle", "check", "store", "run"} => kph'[k] = "none"
      /\ kph'[k] = "init" => kcpc'[k] = "wait"
      /\ Entering(k)' => Entering(k) \/ ChildBegin(k)
      /\ InCreate(k)' => InCreate(k) \/ ChildBegin(k)
    <2>1. CASE ChildBegin(k) \/ KidExit(k)
        BY <2>1 DEF ChildBegin, KidExit, SystemTypeOK, KidStagesOK, Entering, InCreate
    <2>2. CASE ChildCreate(k)
        BY <2>2 DEF ChildCreate, ChildCheck, ReturnCreate, ChildStore, ChildRun, ChildPanics, SystemTypeOK, KidStagesOK, Entering, InCreate
    <2>3. CASE KidRun(k)
        BY <2>3 DEF KidRun, KidInit, ReturnCreate, KidLoopEnds, KidRemove, KidDone, SystemTypeOK, KidStagesOK, Entering, InCreate
    <2> QED
        BY <2>1, <2>2, <2>3 DEF KidNext
<1>4. ASSUME NEW j \in Kids, Entering(j)' PROVE ParentOf[j] \in crossed' \/ Holding(ParentOf[j])'
    <2>1. CASE j = k /\ ChildBegin(k)
        <3>1. CASE k \in Finders
            <4>1. idOf[p] \in Ids /\ actorMap[idOf[p]] = p /\ p # NONE
                BY <1>1, <2>1, <3>1, PlansAssumption DEF ChildBegin, SystemTypeOK
            <4> QED
                BY <1>1, <2>1, <4>1 DEF StagesOK, Stored, Holding
        <3>2. CASE k \notin Finders
            BY <1>1, <2>1, <3>2 DEF ChildBegin, Holding
        <3> QED
            BY <3>1, <3>2
    <2>2. CASE ~(j = k /\ ChildBegin(k))
        <3>1. Entering(j)
            BY <1>1, <1>3, <1>4, <2>2 DEF Entering
        <3> QED
            BY <1>1, <1>2, <3>1 DEF KidStagesOK
    <2> QED
        BY <2>1, <2>2
<1>5. /\ \A j \in Kids \ Finders : InCreate(j)' => tph'[ParentOf[j]] = "creating"
      /\ \A i, j \in Kids \ Finders : InCreate(i)' /\ InCreate(j)' /\ ParentOf[i] = ParentOf[j] => i = j
    <2>1. \A j \in Kids : j # k => (InCreate(j)' <=> InCreate(j))
        BY <1>1 DEF InCreate
    <2>2. CASE tph' = tph
        <3>1. k \notin Finders => ~ChildBegin(k)
            BY <1>1, <2>2 DEF ChildBegin, SystemTypeOK
        <3> QED
            BY <1>1, <1>3, <2>1, <2>2, <3>1 DEF KidStagesOK
    <2>3. CASE k \notin Finders /\ tph[p] = "worker" /\ tph' = [tph EXCEPT ![p] = "creating"] /\ ChildBegin(k)
        <3>1. \A j \in Kids \ Finders : j # k /\ InCreate(j) => ParentOf[j] # p
            BY <1>1, <2>3 DEF KidStagesOK
        <3> QED
            BY <1>1, <2>1, <2>3, <3>1 DEF KidStagesOK, SystemTypeOK
    <2>4. CASE k \notin Finders /\ tph[p] = "creating" /\ tph' = [tph EXCEPT ![p] = "worker"] /\ kcpc' = [kcpc EXCEPT ![k] = "over"]
        <3>1. ~InCreate(k)'
            BY <2>4 DEF InCreate, SystemTypeOK
        <3>2. CASE InCreate(k)
            <4>1. \A j \in Kids \ Finders : j # k /\ InCreate(j) => ParentOf[j] # p
                BY <2>4, <3>2 DEF KidStagesOK
            <4> QED
                BY <1>1, <2>1, <2>4, <3>1, <4>1 DEF KidStagesOK, SystemTypeOK
        <3>3. CASE ~InCreate(k)
            <4>1. kcpc[k] # "wait" /\ kcpc[k] # "check" /\ kph[k] # "init"
                BY <3>3 DEF InCreate, KidStagesOK
            <4>2. tph' = tph
                BY <2>4, <3>3, <4>1 DEF KidNext, ChildCreate, KidRun, ChildBegin, ChildCheck, ChildStore, ChildRun, ChildPanics, KidExit,
                   KidInit, KidLoopEnds, KidRemove, KidDone, InCreate
            <4> QED
                BY <1>1, <2>4, <4>2 DEF SystemTypeOK
        <3> QED
            BY <3>2, <3>3
    <2> QED
        BY <2>2, <2>3, <2>4, KidStep
<1> QED
    BY <1>1, <1>3, <1>4, <1>5 DEF KidStagesOK

\* CreateActor leaves a second call of an active ID a race, so an ID stays with one instance.
LEMMA OneAtATimeStep ==
    ASSUME SystemInv, ~raced, ~raced', NEW c \in Creators, TopNext(c)
    PROVE  OneAtATime'
<1>1. SystemTypeOK /\ StagesOK /\ OneAtATime /\ UNCHANGED <<idOf, kcpc, kph>>
    BY TopStep DEF SystemInv
<1>2. \A d \in Creators : d # c => (Active(d)' <=> Active(d))
    BY <1>1, TopStep DEF Active, Creating, Alive, KidsOf, Entering, KidAlive
<1>3. Active(c)' => Active(c) \/ CreateCheck(c)
    <2>1. CASE CreateCheck(c)
        BY <2>1
    <2>2. CASE ~CreateCheck(c)
        <3>1. tph'[c] \notin {"none", "dead"} \/ Creating(c)' => tph[c] \notin {"none", "dead"} \/ Creating(c)
            BY <1>1, <2>2 DEF SystemTypeOK, StagesOK, Creating, TopNext, Create, TopRun, CreateStore, CreateRun, CreateReturn, OnInit, InitDone,
               Exit, LoopEnds, StopUnroute, StopRemove, StopChildren, StopClean, StopDone, topFrame, createVars
        <3> QED
            BY <1>1, <3>1 DEF Active, Alive, KidsOf, Entering, KidAlive
    <2> QED
        BY <2>1, <2>2
<1>4. ASSUME NEW d \in Creators, d # c, idOf[d] = idOf[c], Active(c)', Active(d) PROVE FALSE
    <2>1. CreateCheck(c) /\ ~Active(c)
        BY <1>1, <1>3, <1>4 DEF OneAtATime
    <2>2. actorMap[idOf[c]] = NONE
        BY <1>1, <1>4, <2>1 DEF CreateCheck, Active, Creating, Alive, SystemTypeOK, KidsOf, Entering, KidAlive
    <2>3. raced' = (raced \/ spc # "idle" \/ \E e \in Creators \ {c} : idOf[e] = idOf[c] /\ (Creating(e) \/ Alive(e)))
        BY <2>1, <2>2 DEF CreateCheck
    <2> QED
        BY <1>4, <2>3 DEF Active
<1> QED
    BY <1>1, <1>2, <1>4 DEF OneAtATime

\* The creation of a child belongs to an instance that is active, and stays with it.
LEMMA OneAtATimeKept ==
    ASSUME SystemInv, ~raced, NEW k \in Kids, KidNext(k)
    PROVE  OneAtATime' /\ Active(ParentOf[k])
<1> DEFINE p == ParentOf[k]
<1>1. /\ SystemTypeOK /\ StagesOK /\ KidStagesOK /\ OneAtATime /\ p \in Creators /\ UNCHANGED <<idOf, cpc>>
      /\ \A j \in Kids : j # k => kcpc'[j] = kcpc[j] /\ kph'[j] = kph[j]
    BY KidStep, PlansAssumption DEF SystemInv, stopVars, createVars
<1>2. tph' = tph \/ \E x, y \in {"worker", "creating"} : tph[p] = x /\ tph' = [tph EXCEPT ![p] = y]
    BY <1>1, KidStep
<1>3. Active(p)
    <2>1. CASE ChildBegin(k) /\ k \in Finders
        <3>1. idOf[p] \in Ids /\ actorMap[idOf[p]] = p /\ p # NONE
            BY <1>1, <2>1, PlansAssumption DEF ChildBegin, SystemTypeOK
        <3> QED
            BY <1>1, <3>1 DEF StagesOK, Stored, Active, Creating, Alive
    <2>2. CASE ChildBegin(k) /\ k \notin Finders
        BY <2>2 DEF ChildBegin, Active, Alive
    <2>3. CASE ~ChildBegin(k)
        <3>1. Entering(k) \/ KidAlive(k)
            BY <2>3 DEF KidNext, ChildCreate, KidRun, ChildCheck, ChildStore, ChildRun, ChildPanics, KidExit,
               KidInit, KidLoopEnds, KidRemove, KidDone, Entering, KidAlive
        <3> QED
            BY <3>1 DEF Active, Alive, KidsOf
    <2> QED
        BY <2>1, <2>2, <2>3
<1>4. \A d \in Creators : d # p => (Active(d)' => Active(d))
    <2>1. \A d \in Creators : d # p => tph'[d] = tph[d]
        BY <1>1, <1>2 DEF SystemTypeOK
    <2> QED
        BY <1>1, <2>1 DEF Active, Creating, Alive, KidsOf, Entering, KidAlive
<1> QED
    BY <1>1, <1>3, <1>4 DEF OneAtATime

\* The registry under an ID is written only by steps of its active instance.
LEMMA StoredStep ==
    ASSUME SystemInv, ~raced, ~raced', NEW c \in Creators, TopNext(c)
    PROVE  StoredOK'
<1>1. SystemTypeOK /\ StagesOK /\ OneAtATime /\ StoredOK /\ idOf' = idOf /\ idOf[c] \in Ids
    BY TopStep DEF SystemInv, SystemTypeOK
<1>2. \A d \in Creators : d # c => (Stored(d)' <=> Stored(d))
    BY <1>1, TopStep DEF Stored
<1>3. \A d \in Creators : Stored(d) => Active(d)
    BY DEF Stored, Active, Creating, Alive
<1>4. CASE CreateStore(c)
    <2>1. actorMap' = [actorMap EXCEPT ![idOf[c]] = c] /\ Active(c)
        BY <1>4 DEF CreateStore, Active, Creating
    <2> QED
        BY <1>1, <1>2, <1>3, <2>1 DEF SystemTypeOK, OneAtATime, StoredOK
<1>5. CASE StopRemove(c)
    <2>1. actorMap' = [actorMap EXCEPT ![idOf[c]] = NONE] /\ Active(c) /\ ~Stored(c)'
        BY <1>1, <1>5 DEF StopRemove, Active, Alive, Stored, SystemTypeOK, StagesOK, topFrame, createVars
    <2> QED
        BY <1>1, <1>2, <1>3, <2>1 DEF SystemTypeOK, OneAtATime, StoredOK
<1>6. CASE ~CreateStore(c) /\ ~StopRemove(c)
    <2>1. actorMap' = actorMap
        BY <1>6 DEF TopNext, Create, TopRun, CreateCheck, CreateRun, CreateReturn, OnInit, InitDone,
           Exit, LoopEnds, StopUnroute, StopChildren, StopClean, StopDone, regVars
    <2>2. Stored(c)' => Stored(c)
        BY <1>1, <1>6, TopStep
    <2> QED
        BY <1>1, <1>2, <2>1, <2>2 DEF StoredOK
<1> QED
    BY <1>4, <1>5, <1>6

\* Register refuses a MethodID that is taken, UnregisterTarget takes out routes of its own ID
\* only, and a stopping instance drops the subscription of its own ID only.
LEMMA RoutedStep ==
    ASSUME SystemInv, ~raced, ~raced', NEW c \in Creators, TopNext(c)
    PROVE  RoutedOK'
<1>1. SystemTypeOK /\ StagesOK /\ OneAtATime /\ RoutedOK /\ idOf' = idOf /\ idOf[c] \in Ids
    BY TopStep DEF SystemInv, SystemTypeOK
<1>2. \A d \in Creators : MethodOf[idOf[d]] \in Methods /\ idOf[d] \in Ids /\ idOf[d] # NONE
    BY <1>1, PlansAssumption DEF SystemTypeOK
<1>3. CASE OnInit(c)
    BY <1>1, <1>2, <1>3 DEF OnInit, SystemTypeOK, RoutedOK
<1>4. CASE StopUnroute(c)
    BY <1>1, <1>2, <1>4 DEF StopUnroute, SystemTypeOK, OneAtATime, RoutedOK, Active, Alive
<1>5. CASE StopClean(c)
    BY <1>1, <1>2, <1>5 DEF StopClean, SystemTypeOK, OneAtATime, RoutedOK, Active, Alive
<1>6. CASE ~OnInit(c) /\ ~StopUnroute(c) /\ ~StopClean(c)
    <2>1. UNCHANGED <<routes, subs>>
        BY <1>6 DEF TopNext, Create, TopRun, CreateCheck, CreateStore, CreateRun, CreateReturn, InitDone,
           Exit, LoopEnds, StopRemove, StopChildren, StopDone, regVars
    <2>2. tph'[c] \in {"ready", "worker", "creating"} => tph[c] \in {"ready", "worker", "creating"}
        BY <1>1, <1>6 DEF SystemTypeOK, StagesOK, TopNext, Create, TopRun, CreateCheck, CreateStore, CreateRun, CreateReturn, InitDone,
           Exit, LoopEnds, StopRemove, StopChildren, StopDone
    <2>3. \A d \in Creators : d # c => tph'[d] = tph[d]
        BY <1>1, TopStep
    <2> QED
        BY <1>1, <2>1, <2>2, <2>3 DEF RoutedOK
<1> QED
    BY <1>3, <1>4, <1>5, <1>6

\* The children leave the registry alone.
LEMMA RoutesKept ==
    ASSUME SystemInv, ~raced, NEW k \in Kids, KidNext(k)
    PROVE  StoredOK' /\ RoutedOK'
<1> DEFINE p == ParentOf[k]
<1>1. /\ SystemTypeOK /\ StagesOK /\ KidStagesOK /\ StoredOK /\ RoutedOK /\ p \in Creators /\ UNCHANGED <<idOf, actorMap, routes, subs>>
      /\ \A c \in Creators : (Stored(c)' <=> Stored(c))
    BY KidStep, PlansAssumption DEF SystemInv, stopVars, regVars
<1>2. tph' = tph \/ \E x, y \in {"worker", "creating"} : tph[p] = x /\ tph' = [tph EXCEPT ![p] = y]
    BY <1>1, KidStep
<1>3. \A c \in Creators : tph'[c] \in {"ready", "worker", "creating"} => tph[c] \in {"ready", "worker", "creating"}
    BY <1>1, <1>2 DEF SystemTypeOK
<1> QED
    BY <1>1, <1>3 DEF StoredOK, RoutedOK

\* A parent that stops tells the child that it has to exit; the other steps of instances do not
\* touch the children.
LEMMA ChildStep ==
    ASSUME SystemInv, ~raced, NEW c \in Creators, TopNext(c)
    PROVE  ChildOK'
<1>1. /\ SystemTypeOK /\ StagesOK /\ KidStagesOK /\ ChildOK /\ UNCHANGED <<kcpc, kph, childMap>>
      /\ ParentOf \in [Kids -> Creators] /\ \A d \in Creators : d # c => tph'[d] = tph[d]
    BY TopStep, PlansAssumption DEF SystemInv
<1>2. crossed \subseteq crossed' /\ \A k \in Kids : kclose[k] = TRUE => kclose'[k] = TRUE
    <2>1. CASE StopChildren(c)
        BY <2>1 DEF StopChildren
    <2>2. CASE ~StopChildren(c)
        BY <2>2, TopStep DEF SystemInv
    <2> QED
        BY <2>1, <2>2
<1>3. ASSUME NEW k \in Kids, ParentOf[k] \notin crossed', kph[k] \in {"init", "worker"}, tph'[ParentOf[k]] \in {"clean", "done", "dead"}
      PROVE  kclose'[k] = TRUE
    <2> DEFINE p == ParentOf[k]
    <2>1. p \in Creators /\ p \notin crossed
        BY <1>1, <1>2, <1>3
    <2>2. CASE tph[p] \in {"clean", "done", "dead"}
        BY <1>1, <1>2, <1>3, <2>1, <2>2 DEF ChildOK, Told
    <2>3. CASE tph[p] \notin {"clean", "done", "dead"}
        <3>1. p = c
            BY <1>1, <1>3, <2>1, <2>3
        <3>2. StopChildren(c)
            BY <1>1, <1>3, <2>3, <3>1 DEF SystemTypeOK, StagesOK, TopNext, Create, TopRun, CreateCheck, CreateStore, CreateRun, CreateReturn,
               OnInit, InitDone, Exit, LoopEnds, StopUnroute, StopRemove, StopClean, StopDone
        <3>3. childMap[c] = k
            BY <1>1, <1>3, <2>1, <3>1 DEF ChildOK, Kept
        <3> QED
            BY <3>2, <3>3 DEF StopChildren
    <2> QED
        BY <2>2, <2>3
<1>4. ASSUME NEW k \in Kids, ParentOf[k] \notin crossed'
      PROVE  /\ Kept(k)' => childMap'[ParentOf[k]] = k
             /\ kcpc'[k] = "store" => childMap'[ParentOf[k]] = NONE
             /\ \A j \in Kids : ParentOf[j] = ParentOf[k] /\ kcpc'[k] = "store" /\ kcpc'[j] = "store" => j = k
    <2>1. ParentOf[k] \notin crossed
        BY <1>2, <1>4
    <2> QED
        BY <1>1, <2>1 DEF ChildOK, Kept
<1>5. \A k \in Kids : ParentOf[k] \notin crossed' => Told(k)'
    BY <1>1, <1>3 DEF Told
<1> QED
    BY <1>4, <1>5 DEF ChildOK

\* Create stores its child over nothing, and the end of a child takes out itself, unless the
\* parent is crossed.
LEMMA ChildKept ==
    ASSUME SystemInv, ~raced, NEW k \in Kids, KidNext(k)
    PROVE  ChildOK'
<1> DEFINE p == ParentOf[k]
<1>1. /\ SystemTypeOK /\ StagesOK /\ KidStagesOK /\ StoredOK /\ OneAtATime /\ ChildOK /\ p \in Creators /\ ParentOf \in [Kids -> Creators]
      /\ \A j \in Kids : j # k => kcpc'[j] = kcpc[j] /\ kph'[j] = kph[j] /\ kclose'[j] = kclose[j]
      /\ UNCHANGED <<actorMap, idOf>>
    BY KidStep, PlansAssumption DEF SystemInv, regVars, stopVars
<1>2. crossed \subseteq crossed'
    BY DEF KidNext, ChildCreate, KidRun, ChildBegin, ChildCheck, ChildStore, ChildRun, ChildPanics, KidExit,
       KidInit, KidLoopEnds, KidRemove, KidDone
<1>3. /\ Kept(k)' => Kept(k) \/ ChildStore(k)
      /\ kcpc'[k] = "store" => ChildCheck(k) \/ kcpc[k] = "store"
      /\ kph'[k] \in {"init", "worker"} => kph[k] \in {"init", "worker"} \/ ChildRun(k)
    <2>1. CASE ChildBegin(k) \/ KidExit(k)
        <3>1. kph' = kph /\ (kcpc' = [kcpc EXCEPT ![k] = "check"] \/ kcpc' = kcpc)
            BY <2>1 DEF ChildBegin, KidExit
        <3> QED
            BY <1>1, <3>1 DEF SystemTypeOK, Kept
    <2>2. CASE ChildCreate(k)
        BY <1>1, <2>2 DEF ChildCreate, ChildCheck, ReturnCreate, ChildStore, ChildRun, ChildPanics, SystemTypeOK, KidStagesOK, Kept, Entering
    <2>3. CASE KidRun(k)
        BY <1>1, <2>3 DEF KidRun, KidInit, ReturnCreate, KidLoopEnds, KidRemove, KidDone, SystemTypeOK, Kept
    <2> QED
        BY <1>1, <2>1, <2>2, <2>3 DEF KidNext
<1>4. \A c \in Creators : c # p => childMap'[c] = childMap[c]
    <2>1. CASE KidRemove(k)
        <3> DEFINE q == actorMap[idOf[p]]
        <3>1. CASE q = NONE
            BY <2>1, <3>1 DEF KidRemove
        <3>2. CASE q # NONE
            <4>1. q \in Creators /\ idOf[q] = idOf[p] /\ Stored(q)
                BY <1>1, <3>2 DEF StagesOK, SystemTypeOK
            <4>2. Active(q) /\ Active(p)
                BY <1>1, <4>1, OneAtATimeKept DEF Stored, Active, Creating, Alive
            <4>3. q = p
                BY <1>1, <4>1, <4>2 DEF OneAtATime
            <4>4. childMap' = [childMap EXCEPT ![p] = NONE]
                BY <2>1, <3>2, <4>3 DEF KidRemove
            <4> QED
                BY <1>1, <4>4 DEF SystemTypeOK
        <3> QED
            BY <3>1, <3>2
    <2>2. CASE ~KidRemove(k)
        <3>1. childMap' = childMap \/ childMap' = [childMap EXCEPT ![p] = k]
            BY <2>2 DEF KidNext, ChildCreate, KidRun, ChildBegin, ChildCheck, ChildStore, ChildRun, ChildPanics, KidExit,
               KidInit, KidLoopEnds, KidDone
        <3> QED
            BY <1>1, <3>1 DEF SystemTypeOK
    <2> QED
        BY <2>1, <2>2
<1>5. tph' = tph \/ \E x, y \in {"worker", "creating"} : tph[p] = x /\ tph' = [tph EXCEPT ![p] = y]
    BY <1>1, KidStep
<1>6. \A c \in Creators : tph'[c] \in {"clean", "done", "dead"} => tph[c] \in {"clean", "done", "dead"}
    BY <1>1, <1>5 DEF SystemTypeOK
<1>7. \A j \in Kids : j # k => (Kept(j)' => Kept(j))
    BY <1>1 DEF Kept
<1> DEFINE Child(j) == /\ Kept(j) => childMap[ParentOf[j]] = j
                       /\ kcpc[j] = "store" => childMap[ParentOf[j]] = NONE
                       /\ \A i \in Kids : ParentOf[i] = ParentOf[j] /\ kcpc[j] = "store" /\ kcpc[i] = "store" => i = j
<1>8. ASSUME NEW j \in Kids, ParentOf[j] # p, ParentOf[j] \notin crossed' PROVE Child(j)' /\ Told(j)'
    <2>1. ParentOf[j] \in Creators /\ ParentOf[j] \notin crossed /\ j # k
        BY <1>1, <1>2, <1>8
    <2>2. Child(j) /\ Told(j)
        BY <1>1, <2>1 DEF ChildOK
    <2>3. Child(j)'
        BY <1>1, <1>4, <1>7, <1>8, <2>1, <2>2
    <2>4. Told(j)'
        BY <1>1, <1>6, <2>1, <2>2 DEF Told
    <2> QED
        BY <2>3, <2>4
<1>9. ASSUME NEW j \in Kids, ParentOf[j] = p, p \notin crossed' PROVE Child(j)' /\ Told(j)'
    <2>1. p \notin crossed /\ \A i \in Kids : ParentOf[i] = p => Child(i) /\ Told(i)
        BY <1>1, <1>2, <1>9 DEF ChildOK
    <2>2. NONE \notin Kids
        BY PlansAssumption
    <2>3. CASE ChildStore(k)
        <3>1. childMap[p] = NONE /\ childMap' = [childMap EXCEPT ![p] = k] /\ kcpc'[k] = "run" /\ kph' = kph
            BY <1>1, <2>1, <2>3 DEF ChildStore, SystemTypeOK
        <3>2. \A i \in Kids : ParentOf[i] = p => ~Kept(i)
            BY <2>1, <2>2, <3>1
        <3>3. \A i \in Kids : ParentOf[i] = p /\ i # k => kcpc'[i] # "store"
            BY <1>1, <2>1, <2>3 DEF ChildStore
        <3>4. Child(j)'
            BY <1>1, <1>7, <1>9, <3>1, <3>2, <3>3 DEF SystemTypeOK
        <3>5. Told(j)'
            BY <1>9, <3>1, <3>2 DEF Told, Kept
        <3> QED
            BY <3>4, <3>5
    <2>4. CASE KidRemove(k)
        <3>1. Kept(k) /\ childMap[p] = k /\ kph'[k] = "done" /\ kcpc' = kcpc
            BY <1>1, <2>1, <2>4 DEF KidRemove, Kept, SystemTypeOK
        <3>2. \A i \in Kids : ParentOf[i] = p => (Kept(i) => i = k) /\ kcpc[i] # "store"
            BY <2>1, <2>2, <3>1
        <3>3. ~Kept(k)'
            BY <1>1, <2>4, <3>1 DEF KidRemove, Kept, KidStagesOK
        <3>4. ~Kept(j)' /\ kcpc'[j] # "store"
            BY <1>7, <1>9, <3>1, <3>2, <3>3
        <3> QED
            BY <3>4 DEF Told, Kept
    <2>5. CASE ChildCheck(k)
        <3>1. kph' = kph /\ childMap' = childMap /\ kclose' = kclose /\ (Kept(k)' => Kept(k))
            BY <1>3, <2>5 DEF ChildCheck, ChildStore
        <3>4. Told(j)'
            <4>1. p \in Creators /\ Told(j)
                BY <1>1, <1>9, <2>1
            <4> QED
                BY <1>6, <1>9, <3>1, <4>1 DEF Told
        <3>2. CASE childMap[p] # NONE
            <4>1. \A i \in Kids : ParentOf[i] = p => (kcpc'[i] = "store" => kcpc[i] = "store")
                BY <1>1, <2>5, <3>2 DEF ChildCheck, ReturnCreate, SystemTypeOK
            <4>2. Child(j)'
                BY <1>7, <1>9, <2>1, <3>1, <4>1
            <4> QED
                BY <4>2, <3>4
        <3>3. CASE childMap[p] = NONE
            <4>1. crossed' = crossed \cup {c \in {p} : \E i \in KidsOf(p) : kcpc[i] = "store"}
                BY <2>5, <3>3 DEF ChildCheck
            <4>2. \A i \in Kids : ParentOf[i] = p => kcpc[i] # "store"
                BY <1>9, <4>1 DEF KidsOf
            <4>3. \A i \in Kids : ParentOf[i] = p /\ kcpc'[i] = "store" => i = k
                BY <1>1, <4>2
            <4>4. Child(j)'
                BY <1>7, <1>9, <2>1, <3>1, <3>3, <4>3
            <4> QED
                BY <4>4, <3>4
        <3> QED
            BY <3>2, <3>3
    <2>6. CASE ~ChildStore(k) /\ ~KidRemove(k) /\ ~ChildCheck(k)
        <3>1. childMap' = childMap
            BY <2>6 DEF KidNext, ChildCreate, KidRun, ChildBegin, ChildRun, ChildPanics, KidExit, KidInit, KidLoopEnds, KidDone
        <3>2. \A i \in Kids : (kcpc'[i] = "store" => kcpc[i] = "store") /\ (Kept(i)' => Kept(i))
            BY <1>1, <1>3, <1>7, <2>6
        <3>3. Child(j)'
            BY <1>9, <2>1, <3>1, <3>2
        <3>4. Told(j)'
            <4>1. CASE j # k
                BY <1>1, <1>6, <1>9, <2>1, <4>1 DEF Told
            <4>2. CASE j = k /\ ChildRun(k)
                <5>1. Entering(k) /\ tph' = tph
                    BY <4>2 DEF ChildRun, Entering
                <5>2. Holding(p)
                    BY <2>1, <5>1 DEF SystemInv, KidStagesOK
                <5>3. tph[p] \notin {"clean", "done", "dead"}
                    BY <1>1, <5>2 DEF Holding, StagesOK
                <5> QED
                    BY <1>9, <5>1, <5>3 DEF Told
            <4>3. CASE j = k /\ ~ChildRun(k)
                <5>1. kph'[k] \in {"init", "worker"} => kph[k] \in {"init", "worker"} /\ (kclose[k] = TRUE => kclose'[k] = TRUE)
                    BY <1>1, <1>3, <4>3 DEF KidNext, ChildCreate, KidRun, ChildBegin, ChildCheck, ChildStore, ChildPanics, KidExit,
                       KidInit, KidLoopEnds, KidRemove, KidDone, SystemTypeOK
                <5>2. Told(k)'
                    BY <1>6, <1>1, <2>1, <5>1 DEF Told
                <5> QED
                    BY <4>3, <5>2
            <4> QED
                BY <4>1, <4>2, <4>3
        <3> QED
            BY <3>3, <3>4
    <2> QED
        BY <2>3, <2>4, <2>5, <2>6
<1> QED
    BY <1>8, <1>9 DEF ChildOK

\* Every behaviour of the system stays within SystemInv.
LEMMA SystemInvariant == Spec => []SystemInv
<1>1. Init => SystemInv
    <2> SUFFICES ASSUME Init PROVE SystemInv
        OBVIOUS
    <2>1. SystemTypeOK
        BY PlansAssumption DEF Init, SystemTypeOK, CallPlaces, TopPhases, KidPlaces, KidPhases
    <2>2. \A k \in Kids : kcpc[k] \in {"idle", "over"} /\ kph[k] = "none"
        BY DEF Init
    <2>3. \A c \in Creators : cpc[c] \in {"idle", "never"} /\ tph[c] = "none"
        BY DEF Init
    <2>4. StagesOK /\ KidStagesOK
        BY <2>2, <2>3 DEF Init, StagesOK, KidStagesOK, InCreate, Entering
    <2>5. OneAtATime /\ StoredOK /\ RoutedOK /\ ChildOK
        BY <2>2, <2>3 DEF OneAtATime, StoredOK, Stored, RoutedOK, ChildOK, Kept, Told, Active, Creating, Alive, KidsOf, Entering, KidAlive
    <2> QED
        BY <2>1, <2>4, <2>5 DEF SystemInv
<1>2. SystemInv /\ [Next]_vars => SystemInv'
    <2> SUFFICES ASSUME SystemInv, [Next]_vars PROVE SystemInv'
        OBVIOUS
    <2>1. ~raced' => ~raced
        BY RaceStays
    <2>2. CASE StopBegin \/ Stop \/ UNCHANGED vars
        BY <2>1, <2>2, StopSteps
    <2>3. ASSUME NEW c \in Creators, TopNext(c) PROVE SystemInv'
        <3>1. SystemTypeOK' /\ StagesOK' /\ KidStagesOK'
            BY <2>3, TopStep, StagesStep, KidStagesStep DEF SystemInv
        <3>2. ~raced' => OneAtATime' /\ StoredOK' /\ RoutedOK' /\ ChildOK'
            BY <2>1, <2>3, OneAtATimeStep, StoredStep, RoutedStep, ChildStep
        <3> QED
            BY <3>1, <3>2 DEF SystemInv
    <2>4. ASSUME NEW k \in Kids, KidNext(k) PROVE SystemInv'
        <3>1. SystemTypeOK' /\ StagesOK' /\ KidStagesOK'
            BY <2>4, KidStep, KidStagesKept DEF SystemInv
        <3>2. ~raced' => OneAtATime' /\ StoredOK' /\ RoutedOK' /\ ChildOK'
            BY <2>1, <2>4, OneAtATimeKept, RoutesKept, ChildKept
        <3> QED
            BY <3>1, <3>2 DEF SystemInv
    <2> QED
        BY <2>2, <2>3, <2>4 DEF Next
<1> QED
    BY <1>1, <1>2, PTL DEF Spec

\* A working Actor is reached by its ID, its MethodID and its events, however many others are
\* created, fail in OnInit, claim its MethodID, end, or are stopped (CreateActor, onStop).
THEOREM WorkersAreReachable == Spec => []WorkerReachable
<1>1. SystemInv => WorkerReachable
    BY DEF SystemInv, StoredOK, Stored, RoutedOK, WorkerReachable
<1> QED
    BY <1>1, SystemInvariant, PTL

\* A running child, created by the parent's loop or by a caller in OnFindChild, is the one that
\* its parent's childActors has, and it has its close token when the parent is through with
\* child.onStop, unless its creation crossed that or another one (actorChild.Create, onStop).
THEOREM ChildrenAreReached == Spec => []ChildNotOrphaned
<1>1. SystemInv => ChildNotOrphaned
    <2> SUFFICES ASSUME SystemInv, ~raced, NEW k \in Kids, kph[k] \in {"init", "worker"}, ParentOf[k] \notin crossed
                 PROVE  /\ childMap[ParentOf[k]] = k
                        /\ tph[ParentOf[k]] \in {"clean", "done", "dead"} => kclose[k]
        BY DEF ChildNotOrphaned
    <2>1. Kept(k) /\ (Kept(k) => childMap[ParentOf[k]] = k) /\ Told(k)
        BY DEF SystemInv, ChildOK, Kept
    <2> QED
        BY <2>1 DEF Told
<1> QED
    BY <1>1, SystemInvariant, PTL
-----------------------------------------------------------------------------
(***************************************************************************)
(* System.Stop and its wait group.                                         *)
(***************************************************************************)

\* The wait group is what runs: instances and children.
CountOK == wg = Cardinality(TopAlive) + Cardinality(KidsAlive)

\* An instance whose loop has not been told to end, or has not looked yet.
Working == {"init", "ready", "worker", "creating"}

StopPlacesOK ==
    /\ spc \in {"idle", "range", "wait", "stopped"} /\ tclose \in [Creators -> BOOLEAN]
    /\ spc = "idle" => visited = {}
    /\ spc \in {"wait", "stopped"} => visited = Ids

\* Behind the start of Stop no instance is created; who was visited has its close token; and
\* when Stop has returned, nobody runs or will.
NobodyStarts == spc # "idle" => \A c \in Creators : ~Creating(c)
VisitedOK == \A c \in Creators : idOf[c] \in visited /\ tph[c] \in Working => tclose[c] = TRUE
NobodyLeft == spc = "stopped" /\ crossed = {} => TopAlive = {} /\ KidsAlive = {}

StopInv == StopPlacesOK /\ CountOK /\ (~raced => NobodyStarts /\ VisitedOK /\ NobodyLeft)

\* What StopCompletes promises, without the promise that it comes: the wait group counts what
\* runs, the children too, whoever created them; when Stop waits, it has asked every instance
\* that has not begun to end, and a parent that has ended has asked its child; when Stop has
\* returned, nobody runs, unless a child's creation was crossed.
StopLeavesNobody ==
    /\ wg = Cardinality(TopAlive) + Cardinality(KidsAlive)
    /\ ~raced /\ spc \in {"wait", "stopped"} =>
          /\ \A c \in Creators : tph[c] \in Working => tclose[c] = TRUE
          /\ \A k \in Kids : kph[k] \in {"init", "worker"} /\ tph[ParentOf[k]] \in {"clean", "done", "dead"}
                => ParentOf[k] \in crossed \/ kclose[k] = TRUE
    /\ ~raced /\ crossed = {} /\ spc = "stopped" => TopAlive = {} /\ KidsAlive = {}

\* Whatever runs is finite: every instance comes from a call, and so does every child.
LEMMA SubsetsAreFinite ==
    /\ \A S \in SUBSET Creators : IsFiniteSet(S) /\ Cardinality(S) \in Nat
    /\ \A S \in SUBSET Kids : IsFiniteSet(S) /\ Cardinality(S) \in Nat
BY FS_Subset, FS_CardinalityType, PlansAssumption

\* wg.Add(1) and wg.Done bracket the run of each instance.
LEMMA CountStep ==
    ASSUME SystemTypeOK, StagesOK, CountOK, NEW c \in Creators, TopNext(c)
    PROVE  CountOK'
<1>1. IsFiniteSet(TopAlive) /\ Cardinality(TopAlive) \in Nat /\ Cardinality(KidsAlive) \in Nat
    BY SubsetsAreFinite DEF TopAlive, KidsAlive
<1>2. KidsAlive' = KidsAlive
    BY TopStep DEF KidsAlive, KidAlive
<1>3. CASE CreateRun(c)
    <2>1. c \notin TopAlive /\ TopAlive' = TopAlive \cup {c} /\ wg' = wg + 1
        BY <1>3 DEF CreateRun, SystemTypeOK, StagesOK, TopAlive
    <2>2. Cardinality(TopAlive \cup {c}) = Cardinality(TopAlive) + 1
        BY <1>1, <2>1, FS_AddElement
    <2> QED
        BY <1>1, <1>2, <2>1, <2>2 DEF CountOK
<1>4. CASE StopDone(c)
    <2>1. c \in TopAlive /\ TopAlive' = TopAlive \ {c} /\ wg' = wg - 1
        BY <1>4 DEF StopDone, SystemTypeOK, TopAlive
    <2>2. Cardinality(TopAlive \ {c}) = Cardinality(TopAlive) - 1
        BY <1>1, <2>1, FS_RemoveElement
    <2> QED
        BY <1>1, <1>2, <2>1, <2>2 DEF CountOK
<1>5. CASE ~CreateRun(c) /\ ~StopDone(c)
    <2>1. CASE CreateCheck(c) \/ Create(c) \/ Exit(c)
        BY <1>2, <1>5, <2>1 DEF CreateCheck, Create, CreateStore, CreateReturn, Exit, CountOK, TopAlive
    <2>2. CASE TopRun(c)
        BY <1>2, <1>5, <2>2 DEF SystemTypeOK, TopRun, OnInit, InitDone, LoopEnds, StopUnroute, StopRemove, StopChildren, StopClean,
                          CountOK, TopAlive
    <2> QED
        BY <2>1, <2>2 DEF TopNext
<1> QED
    BY <1>3, <1>4, <1>5

\* wg.Add(1) and wg.Done bracket the run of each child, whoever creates it.
LEMMA CountKept ==
    ASSUME SystemTypeOK, StagesOK, KidStagesOK, CountOK, NEW k \in Kids, KidNext(k)
    PROVE  CountOK'
<1> DEFINE p == ParentOf[k]
<1>1. IsFiniteSet(KidsAlive) /\ Cardinality(TopAlive) \in Nat /\ Cardinality(KidsAlive) \in Nat /\ p \in Creators
    BY SubsetsAreFinite, PlansAssumption DEF TopAlive, KidsAlive
<1>2. TopAlive' = TopAlive
    <2>1. tph' = tph \/ \E x, y \in {"worker", "creating"} : tph[p] = x /\ tph' = [tph EXCEPT ![p] = y]
        BY KidStep
    <2> QED
        BY <1>1, <2>1 DEF TopAlive, SystemTypeOK
<1>3. \A j \in Kids : j # k => kph'[j] = kph[j]
    BY KidStep
<1>4. CASE ChildRun(k)
    <2>1. kph[k] = "none" /\ kph'[k] = "init" /\ wg' = wg + 1
        BY <1>4 DEF ChildRun, SystemTypeOK, KidStagesOK
    <2>2. k \notin KidsAlive /\ KidsAlive' = KidsAlive \cup {k}
        BY <1>3, <2>1 DEF KidsAlive, KidAlive
    <2>3. Cardinality(KidsAlive \cup {k}) = Cardinality(KidsAlive) + 1
        BY <1>1, <2>2, FS_AddElement
    <2> QED
        BY <1>1, <1>2, <2>1, <2>2, <2>3 DEF CountOK
<1>5. CASE KidDone(k)
    <2>1. kph[k] = "done" /\ kph'[k] = "dead" /\ wg' = wg - 1
        BY <1>5 DEF KidDone, SystemTypeOK
    <2>2. k \in KidsAlive /\ KidsAlive' = KidsAlive \ {k}
        BY <1>3, <2>1 DEF KidsAlive, KidAlive
    <2>3. Cardinality(KidsAlive \ {k}) = Cardinality(KidsAlive) - 1
        BY <1>1, <2>2, FS_RemoveElement
    <2> QED
        BY <1>1, <1>2, <2>1, <2>2, <2>3 DEF CountOK
<1>6. CASE ~ChildRun(k) /\ ~KidDone(k)
    <2>1. wg' = wg /\ (KidAlive(k)' <=> KidAlive(k))
        BY <1>6 DEF SystemTypeOK, KidAlive, KidNext, ChildCreate, KidRun, ChildBegin, ChildCheck, ChildStore, ChildPanics, KidExit, KidInit,
           KidLoopEnds, KidRemove
    <2>2. KidsAlive' = KidsAlive
        BY <1>3, <2>1 DEF KidsAlive, KidAlive
    <2> QED
        BY <1>2, <2>1, <2>2 DEF CountOK
<1> QED
    BY <1>4, <1>5, <1>6

\* The steps of calls and instances keep what Stop has established.
LEMMA AskedStep ==
    ASSUME SystemInv, StopPlacesOK, NEW c \in Creators, TopNext(c)
    PROVE  /\ StopPlacesOK'
           /\ ~raced /\ ~raced' /\ NobodyStarts /\ VisitedOK /\ NobodyLeft => NobodyStarts' /\ VisitedOK' /\ NobodyLeft'
<1>1. /\ SystemTypeOK /\ StagesOK /\ UNCHANGED <<spc, visited, idOf, kph>>
      /\ \A d \in Creators : d # c => cpc'[d] = cpc[d] /\ tph'[d] = tph[d]
    BY TopStep DEF SystemInv
<1>2. /\ tclose' \in [Creators -> BOOLEAN] /\ \A d \in Creators : d # c => tclose'[d] = tclose[d]
      /\ tclose'[c] = tclose[c] \/ tclose'[c] = TRUE \/ LoopEnds(c)
    <2>1. CASE Exit(c) \/ LoopEnds(c)
        BY <2>1 DEF Exit, LoopEnds, StopPlacesOK
    <2>2. CASE ~Exit(c) /\ ~LoopEnds(c)
        BY <2>2 DEF StopPlacesOK, TopNext, Create, TopRun, CreateCheck, CreateStore, CreateRun, CreateReturn, OnInit, InitDone,
           StopUnroute, StopRemove, StopChildren, StopClean, StopDone
    <2> QED
        BY <2>1, <2>2
<1>3. StopPlacesOK'
    BY <1>1, <1>2 DEF StopPlacesOK
<1>4. SUFFICES ASSUME ~raced, ~raced', NobodyStarts, VisitedOK, NobodyLeft
               PROVE  NobodyStarts' /\ VisitedOK' /\ NobodyLeft'
    BY <1>3
<1>5. CreateRun(c) => spc = "idle"
    BY <1>4 DEF CreateRun, NobodyStarts, Creating
<1>6. NobodyStarts'
    <2>1. Creating(c)' => Creating(c) \/ spc = "idle"
        BY <1>1, <1>4 DEF Creating, SystemTypeOK, TopNext, Create, TopRun, CreateCheck, CreateStore, CreateRun, CreateReturn, OnInit, InitDone,
           Exit, LoopEnds, StopUnroute, StopRemove, StopChildren, StopClean, StopDone, topFrame, createVars
    <2> QED
        BY <1>1, <1>4, <2>1 DEF NobodyStarts, Creating
<1>7. VisitedOK'
    <2>1. ASSUME idOf[c] \in visited, tph'[c] \in Working PROVE tclose'[c] = TRUE
        <3>1. CreateRun(c) \/ tph[c] \in Working
            BY <1>1, <2>1 DEF SystemTypeOK, Working, TopNext, Create, TopRun, CreateCheck, CreateStore, CreateRun, CreateReturn, OnInit, InitDone,
               Exit, LoopEnds, StopUnroute, StopRemove, StopChildren, StopClean, StopDone
        <3>2. tph[c] \in Working /\ ~LoopEnds(c)
            BY <1>1, <1>5, <2>1, <3>1 DEF StopPlacesOK, LoopEnds, Working, SystemTypeOK
        <3> QED
            BY <1>2, <1>4, <2>1, <3>2 DEF VisitedOK
    <2> QED
        BY <1>1, <1>2, <1>4, <2>1 DEF VisitedOK
<1>8. NobodyLeft'
    <2> SUFFICES ASSUME spc' = "stopped", crossed' = {} PROVE TopAlive' = {} /\ KidsAlive' = {}
        BY DEF NobodyLeft
    <2>1. crossed = {}
        BY RaceStays DEF Next
    <2>2. TopAlive = {} /\ KidsAlive = {}
        BY <1>1, <1>4, <2>1 DEF NobodyLeft
    <2>3. tph' = tph
        BY <1>1, <1>5, <2>2 DEF TopAlive, TopNext, Create, TopRun, CreateCheck, CreateStore, CreateReturn, OnInit, InitDone,
           Exit, LoopEnds, StopUnroute, StopRemove, StopChildren, StopClean, StopDone
    <2> QED
        BY <1>1, <2>2, <2>3 DEF TopAlive, KidsAlive, KidAlive
<1> QED
    BY <1>6, <1>7, <1>8

\* So do the children; a creation that is under way when Stop has returned was crossed.
LEMMA AskedKept ==
    ASSUME SystemInv, StopPlacesOK, NEW k \in Kids, KidNext(k)
    PROVE  /\ StopPlacesOK'
           /\ ~raced /\ NobodyStarts /\ VisitedOK /\ NobodyLeft => NobodyStarts' /\ VisitedOK' /\ NobodyLeft'
<1> DEFINE p == ParentOf[k]
<1>1. /\ SystemTypeOK /\ StagesOK /\ KidStagesOK /\ p \in Creators /\ UNCHANGED <<spc, visited, idOf, cpc, tclose, actorMap>>
      /\ \A j \in Kids : j # k => kph'[j] = kph[j]
    BY KidStep, PlansAssumption DEF SystemInv, stopVars, createVars, regVars
<1>2. tph' = tph \/ \E x, y \in {"worker", "creating"} : tph[p] = x /\ tph' = [tph EXCEPT ![p] = y]
    BY <1>1, KidStep
<1>3. \A c \in Creators : tph'[c] \in Working => tph[c] \in Working
    BY <1>1, <1>2 DEF Working, SystemTypeOK
<1>4. ASSUME ~raced, NobodyStarts, NobodyLeft PROVE NobodyLeft'
    <2> SUFFICES ASSUME spc' = "stopped", crossed' = {} PROVE TopAlive' = {} /\ KidsAlive' = {}
        BY DEF NobodyLeft
    <2>1. crossed = {}
        BY RaceStays DEF Next
    <2>2. TopAlive = {} /\ KidsAlive = {} /\ spc = "stopped"
        BY <1>1, <1>4, <2>1 DEF NobodyLeft
    <2>3. \A c \in Creators : tph[c] \in {"none", "dead"} /\ ~Creating(c)
        BY <1>4, <2>2 DEF TopAlive, NobodyStarts
    <2>4. tph' = tph
        BY <1>1, <1>2, <2>3
    <2>5. ~KidAlive(k) /\ ~Entering(k)
        BY <1>1, <2>1, <2>2, <2>3 DEF KidsAlive, KidStagesOK, Holding, Creating
    <2>6. ChildBegin(k) \/ KidExit(k)
        BY <2>5 DEF KidNext, ChildCreate, KidRun, ChildCheck, ChildStore, ChildRun, ChildPanics, KidInit, KidLoopEnds, KidRemove, KidDone,
                    Entering, KidAlive
    <2>7. kph' = kph
        BY <2>6 DEF ChildBegin, KidExit
    <2> QED
        BY <2>2, <2>4, <2>7 DEF TopAlive, KidsAlive, KidAlive
<1> QED
    BY <1>1, <1>3, <1>4 DEF StopPlacesOK, NobodyStarts, VisitedOK, Creating

\* System.Stop: Range meets every instance that works, for it is stored under its ID; wg.Wait
\* returns only when nobody is counted.
LEMMA StopAsks ==
    ASSUME SystemInv, StopInv, StopBegin \/ Stop \/ UNCHANGED vars, raced => raced'
    PROVE  StopInv'
<1>1. SystemTypeOK /\ StagesOK /\ StopPlacesOK /\ CountOK
    BY DEF SystemInv, StopInv
<1>2. UNCHANGED <<actorMap, wg, idOf, cpc, tph, kph, crossed>>
    BY DEF StopBegin, Stop, StopVisit, StopReturn, stopFrame, vars, regVars, createVars, childVars, stopVars, raceVars
<1>3. CountOK' /\ TopAlive' = TopAlive /\ KidsAlive' = KidsAlive /\ \A c \in Creators : Creating(c)' = Creating(c)
    BY <1>1, <1>2 DEF CountOK, TopAlive, KidsAlive, KidAlive, Creating
<1>4. CASE StopBegin
    <2>1. spc' = "range" /\ visited' = {} /\ UNCHANGED tclose /\ (~raced' => ~raced /\ \A c \in Creators : ~Creating(c))
        BY <1>1, <1>4 DEF StopBegin, StopPlacesOK
    <2> QED
        BY <1>1, <1>2, <1>3, <2>1 DEF StopInv, StopPlacesOK, NobodyStarts, VisitedOK, NobodyLeft
<1>5. ASSUME NEW id \in Ids, StopVisit(id) PROVE StopInv'
    <2>1. /\ spc = "range" /\ spc' \in {"range", "wait"} /\ (spc' = "wait" => visited' = Ids)
          /\ visited' = visited \cup {id} /\ raced' = raced
          /\ tclose' = IF actorMap[id] # NONE THEN [tclose EXCEPT ![actorMap[id]] = TRUE] ELSE tclose
        BY <1>5 DEF StopVisit
    <2>2. StopPlacesOK' /\ NobodyLeft'
        BY <1>1, <2>1 DEF StopPlacesOK, NobodyLeft
    <2>3. ASSUME ~raced PROVE NobodyStarts'
        BY <1>2, <1>3, <2>1, <2>3 DEF StopInv, NobodyStarts
    <2>4. ASSUME ~raced, NEW c \in Creators, idOf[c] \in visited', tph[c] \in Working PROVE tclose'[c] = TRUE
        <3>1. CASE idOf[c] = id
            <4>1. actorMap[id] = c /\ c # NONE
                BY <2>4, <3>1, PlansAssumption DEF SystemInv, StoredOK, Stored, Working
            <4> QED
                BY <1>1, <2>1, <4>1 DEF StopPlacesOK
        <3>2. CASE idOf[c] # id
            <4>1. tclose[c] = TRUE
                BY <2>1, <2>4, <3>2 DEF StopInv, VisitedOK
            <4> QED
                BY <1>1, <2>1, <4>1 DEF StopPlacesOK
        <3> QED
            BY <3>1, <3>2
    <2> QED
        BY <1>2, <1>3, <2>1, <2>2, <2>3, <2>4 DEF StopInv, VisitedOK
<1>6. CASE StopReturn
    <2>1. spc = "wait" /\ wg = 0 /\ spc' = "stopped" /\ UNCHANGED <<visited, tclose, raced>>
        BY <1>6 DEF StopReturn
    <2>2. IsFiniteSet(TopAlive) /\ IsFiniteSet(KidsAlive) /\ Cardinality(TopAlive) \in Nat /\ Cardinality(KidsAlive) \in Nat
        BY SubsetsAreFinite DEF TopAlive, KidsAlive
    <2>3. Cardinality(TopAlive) = 0 /\ Cardinality(KidsAlive) = 0
        BY <1>1, <2>1, <2>2 DEF CountOK
    <2>4. TopAlive = {} /\ KidsAlive = {}
        BY <2>2, <2>3, FS_EmptySet
    <2> QED
        BY <1>1, <1>2, <1>3, <2>1, <2>4 DEF StopInv, StopPlacesOK, NobodyStarts, VisitedOK, NobodyLeft
<1>7. CASE UNCHANGED vars
    <2>1. UNCHANGED <<spc, visited, tclose, raced>>
        BY <1>7 DEF vars, stopVars, raceVars
    <2> QED
        BY <1>1, <1>2, <1>3, <2>1 DEF StopInv, StopPlacesOK, NobodyStarts, VisitedOK, NobodyLeft
<1> QED
    BY <1>4, <1>5, <1>6, <1>7 DEF Stop

\* When System.Stop has returned, no instance and no child runs, one that OnFindChild created
\* on a caller's goroutine included, unless a creation raced with it or a child's creation was
\* crossed; while it waits, everybody it waits for has been asked to exit (System.Stop,
\* Actor.onStop, actorChild.onStop and the wait group of the run goroutines).
THEOREM StopWaitsForAll == Spec => []StopLeavesNobody
<1>1. Init => StopInv
    <2> SUFFICES ASSUME Init PROVE StopInv
        OBVIOUS
    <2>1. TopAlive = {} /\ KidsAlive = {} /\ wg = 0 /\ spc = "idle" /\ visited = {} /\ tclose \in [Creators -> BOOLEAN]
        BY DEF Init, TopAlive, KidsAlive, KidAlive
    <2>2. CountOK
        BY <2>1, FS_EmptySet DEF CountOK
    <2> QED
        BY <2>1, <2>2 DEF StopInv, StopPlacesOK, NobodyStarts, VisitedOK, NobodyLeft
<1>2. SystemInv /\ StopInv /\ [Next]_vars => StopInv'
    <2> SUFFICES ASSUME SystemInv, StopInv, [Next]_vars PROVE StopInv'
        OBVIOUS
    <2>1. raced => raced'
        BY RaceStays
    <2>2. CASE StopBegin \/ Stop \/ UNCHANGED vars
        BY <2>1, <2>2, StopAsks
    <2>3. ASSUME NEW c \in Creators, TopNext(c) PROVE StopInv'
        <3>1. StopPlacesOK' /\ CountOK'
            BY <2>3, AskedStep, CountStep DEF SystemInv, StopInv
        <3>2. ~raced' => NobodyStarts' /\ VisitedOK' /\ NobodyLeft'
            BY <2>1, <2>3, AskedStep DEF StopInv
        <3> QED
            BY <3>1, <3>2 DEF StopInv
    <2>4. ASSUME NEW k \in Kids, KidNext(k) PROVE StopInv'
        <3>1. StopPlacesOK' /\ CountOK'
            BY <2>4, AskedKept, CountKept DEF SystemInv, StopInv
        <3>2. ~raced' => NobodyStarts' /\ VisitedOK' /\ NobodyLeft'
            BY <2>1, <2>4, AskedKept DEF StopInv
        <3> QED
            BY <3>1, <3>2 DEF StopInv
    <2> QED
        BY <2>2, <2>3, <2>4 DEF Next
<1>3. SystemInv /\ StopInv => StopLeavesNobody
    <2> SUFFICES ASSUME SystemInv, StopInv PROVE StopLeavesNobody
        OBVIOUS
    <2>1. ASSUME ~raced, spc \in {"wait", "stopped"}, NEW c \in Creators, tph[c] \in Working PROVE tclose[c] = TRUE
        BY <2>1 DEF SystemInv, SystemTypeOK, StopInv, StopPlacesOK, VisitedOK
    <2>2. ASSUME ~raced, NEW k \in Kids, kph[k] \in {"init", "worker"}, tph[ParentOf[k]] \in {"clean", "done", "dead"}
          PROVE  ParentOf[k] \in crossed \/ kclose[k] = TRUE
        BY <2>2 DEF SystemInv, ChildOK, Told
    <2> QED
        BY <2>1, <2>2 DEF StopInv, CountOK, NobodyLeft, StopLeavesNobody
<1> QED
    BY <1>1, <1>2, <1>3, SystemInvariant, PTL DEF Spec
-----------------------------------------------------------------------------
\* The time wheel and the timers of actors: what the goroutines have in their hands.
Places == Buckets \cup {NoBucket}
TimerRecords == [exp : Nat, every : Nat, async : BOOLEAN, b : Places, by : Clients \cup {Wheel}]
Pcs == {"idle", "load", "insert", "mark", "offer", "wake", "wakeup", "run", "task", "bucket", "remove", "recv", "done",
        "advance", "lock", "flush", "unmark"}
ProcRecords == [pc : Pcs, t : Timers \cup {0}, level : 1..Levels, b : Places, runs : Int, stopped : BOOLEAN]
TimersTypeOK ==
    /\ list \in [Buckets -> Seq(Timers)] /\ timer \in [Timers -> TimerRecords] /\ proc \in [Procs -> ProcRecords]
    /\ now \in Nat /\ due \in [Clients -> Seq(Timers)]
    /\ plan \in TimerPlans /\ apc \in [Clients -> {"ready", "adding", "removing"}] /\ timerInfoMap \in [Clients -> SUBSET Timers]
    /\ ran \in [Timers -> Nat] /\ silenced \subseteq Timers

Handles == {"load", "insert", "run"}
Between == {"recv", "done", "advance", "lock", "unmark"}

\* A goroutine that is busy has a timer; a bucket that it is about to use is one of the
\* wheels', and so is what waits in the delay queue and what Flush has locked.
BusyOK ==
    \A p \in Procs :
        /\ proc[p].pc \in {"load", "insert", "mark", "offer", "wake", "wakeup", "run", "task", "bucket", "remove"} => proc[p].t \in Timers
        /\ proc[p].pc \in {"insert", "mark", "offer", "remove", "advance", "lock"} => proc[p].b \in Buckets
        /\ proc[p].pc \in {"bucket", "remove"} \/ proc[p].stopped = TRUE => p \in Clients
QueuedOK ==
    /\ poll.pc = "send" => poll.b \in Buckets
    /\ \A x \in DOMAIN pq : x[1] \in Buckets
    /\ proc[Wheel].pc \notin Between => flushing \in Buckets

\* A timer is in the list of its bucket, or one goroutine has it in its hands, or neither;
\* one that is not made yet is neither.
PlacedOK ==
    /\ \A b \in Buckets : \A i \in 1..Len(list[b]) : timer[list[b][i]].b = b
    /\ \A b \in Buckets : \A i, j \in 1..Len(list[b]) : list[b][i] = list[b][j] => i = j
    /\ \A p \in Procs : proc[p].pc \in Handles => timer[proc[p].t].b = NoBucket /\ timer[proc[p].t].by # Wheel
    /\ \A p, q \in Procs : proc[p].pc \in Handles /\ proc[q].pc \in Handles /\ proc[p].t = proc[q].t => p = q
    /\ \A t \in Timers : timer[t].by = Wheel => timer[t].b = NoBucket

\* Nobody will touch the timer any more.
Quiet(t) ==
    /\ t \in Timers /\ timer[t].by # Wheel /\ timer[t].b = NoBucket
    /\ \A p \in Procs : proc[p].pc \in Handles => proc[p].t # t
QuietOK ==
    /\ \A t \in silenced : Quiet(t)
    /\ \A p \in Procs : proc[p].stopped = TRUE => Quiet(proc[p].t)

\* An actor has the timers that it made, and a function that has run once is not called
\* again: its timer is not in the map, nor about to be.
OnceOK ==
    /\ \A a \in Clients : \A t \in timerInfoMap[a] : timer[t].by = a
    /\ \A a \in Clients : apc[a] # "ready" => proc[a].t \in Timers /\ timer[proc[a].t].by = a
    /\ \A t \in Timers : timer[t].by = Wheel => ran[t] = 0
    /\ \A t \in Timers : timer[t].every = 0 =>
          /\ ran[t] <= 1
          /\ ran[t] > 0 => \A a \in Clients : t \notin timerInfoMap[a] /\ (apc[a] = "adding" => proc[a].t # t)

TimersInv == TimersTypeOK /\ BusyOK /\ QueuedOK /\ PlacedOK /\ QuietOK /\ OnceOK

\* A place that is none is not a bucket.
LEMMA NoBucketIsNone == NoBucket \notin Buckets
BY DEF NoBucket, Buckets

\* The bucket of a time in a wheel.
LEMMA BucketOfIsBucket ==
    ASSUME NEW l \in 1..Levels, NEW e \in Nat
    PROVE  BucketOf(l, e) \in Buckets
<1>1. Tick(l) \in Nat \ {0} /\ WheelSize \in Nat \ {0} /\ Levels \in Nat
    BY TimeWheelAssumption
<1> DEFINE x == e \div Tick(l)
<1>2. x \in Int
    BY <1>1
<1> HIDE DEF x
<1>3. x % WheelSize \in 0..(WheelSize - 1)
    BY <1>1, <1>2
<1> QED
    BY <1>3 DEF BucketOf, Buckets, x

\* What is in the delay queue after Offer, and after Poll has taken a bucket.
LEMMA OfferedBuckets ==
    ASSUME NEW B, NEW x, NEW y \in DOMAIN (B (+) SetToBag({x}))
    PROVE  y \in DOMAIN B \/ y = x
BY DEF (+), SetToBag

\* See OfferedBuckets.
LEMMA TakenBuckets ==
    ASSUME NEW B, NEW x, NEW y \in DOMAIN (B (-) SetToBag({x}))
    PROVE  y \in DOMAIN B
BY DEF (-), SetToBag

\* A list r of timers holds each once, and is what list s leaves without e.
OnceEach(s) == \A i, j \in 1..Len(s) : s[i] = s[j] => i = j
Without(s, e, r) == \A i \in 1..Len(r) : r[i] # e /\ \E j \in 1..Len(s) : r[i] = s[j]
\* list.Remove takes one timer out of a list that holds each once, and leaves the others.
LEMMA UnlinkedList ==
    ASSUME NEW S, NEW s \in Seq(S), NEW e, OnceEach(s)
    PROVE  /\ RemoveFirst(s, e) \in Seq(S) /\ OnceEach(RemoveFirst(s, e))
           /\ Without(s, e, RemoveFirst(s, e))
<1> DEFINE r == RemoveFirst(s, e)
<1> USE DEF OnceEach, Without
<1>1. CASE ~ \E i \in 1..Len(s) : s[i] = e
    BY <1>1 DEF RemoveFirst
<1>2. CASE \E i \in 1..Len(s) : s[i] = e
    <2> DEFINE I == {i \in 1..Len(s) : s[i] = e}
    <2>1. PICK k \in 1..Len(s) : s[k] = e
        BY <1>2
    <2>2. I = {k} /\ Len(s) \in Nat
        BY <2>1
    <2>3. Min(I) = k
        BY <2>1, <2>2 DEF Min
    <2>4. r = RemoveAt(s, k)
        BY <1>2, <2>2, <2>3 DEF RemoveFirst, SelectInSeq
    <2> DEFINE u == SubSeq(s, 1, k - 1)
               v == SubSeq(s, k + 1, Len(s))
    <2>5. u \in Seq(S) /\ Len(u) = k - 1 /\ \A i \in 1..k - 1 : u[i] = s[i]
        <3>1. \A i \in 1..k - 1 : s[i] \in S
            BY <2>1, <2>2
        <3>2. /\ u \in Seq(S) /\ Len(u) = (IF 1 <= k - 1 THEN (k - 1) - 1 + 1 ELSE 0)
              /\ \A i \in 1..(k - 1) - 1 + 1 : u[i] = s[1 + i - 1]
            BY <2>1, <2>2, <3>1, SubSeqProperties
        <3> HIDE DEF u
        <3> QED
            BY <2>1, <2>2, <3>2
    <2>6. v \in Seq(S) /\ Len(v) = Len(s) - k /\ \A i \in 1..Len(s) - k : v[i] = s[k + i]
        <3>1. \A i \in k + 1..Len(s) : s[i] \in S
            BY <2>1, <2>2
        <3>2. /\ v \in Seq(S) /\ Len(v) = (IF k + 1 <= Len(s) THEN Len(s) - (k + 1) + 1 ELSE 0)
              /\ \A i \in 1..Len(s) - (k + 1) + 1 : v[i] = s[k + 1 + i - 1]
            BY <2>1, <2>2, <3>1, SubSeqProperties
        <3> HIDE DEF v
        <3> QED
            BY <2>1, <2>2, <3>2
    <2>7. r = u \o v
        BY <2>4 DEF RemoveAt
    <2> HIDE DEF r, u, v, I
    <2>8. /\ r \in Seq(S) /\ Len(r) = Len(s) - 1
          /\ \A i \in 1..Len(r) : r[i] = IF i < k THEN s[i] ELSE s[i + 1]
        <3>1. /\ r \in Seq(S) /\ Len(r) = Len(u) + Len(v)
              /\ \A i \in 1..Len(u) + Len(v) : r[i] = IF i <= Len(u) THEN u[i] ELSE v[i - Len(u)]
            <4>1. u \in Seq(S) /\ v \in Seq(S)
                BY <2>5, <2>6
            <4>2. /\ u \o v \in Seq(S) /\ Len(u \o v) = Len(u) + Len(v)
                  /\ \A i \in 1..(Len(u) + Len(v)) : (u \o v)[i] = IF i <= Len(u) THEN u[i] ELSE v[i - Len(u)]
                BY <4>1, ConcatProperties
            <4> QED
                BY <2>7, <4>2
        <3>2. Len(r) = Len(s) - 1
            BY <2>1, <2>2, <2>5, <2>6, <3>1
        <3>3. ASSUME NEW i \in 1..Len(r) PROVE r[i] = IF i < k THEN s[i] ELSE s[i + 1]
            <4>1. i \in Nat /\ k \in Nat /\ i \in 1..Len(u) + Len(v)
                BY <2>1, <2>2, <3>1
            <4>2. CASE i < k
                <5>1. i \in 1..k - 1 /\ i <= Len(u)
                    BY <2>5, <4>1, <4>2
                <5> QED
                    BY <2>5, <3>1, <4>1, <4>2, <5>1
            <4>3. CASE i >= k
                <5>1. ~(i <= Len(u)) /\ i - Len(u) \in 1..Len(s) - k /\ k + (i - Len(u)) = i + 1
                    BY <2>1, <2>2, <2>5, <2>6, <3>2, <4>1, <4>3
                <5>2. r[i] = v[i - Len(u)]
                    BY <3>1, <4>1, <5>1
                <5>3. v[i - Len(u)] = s[i + 1]
                    BY <2>6, <5>1
                <5> QED
                    BY <4>1, <4>3, <5>2, <5>3
            <4> QED
                BY <4>1, <4>2, <4>3
        <3> QED
            BY <3>1, <3>2, <3>3
    <2>9. ASSUME NEW i \in 1..Len(r) PROVE r[i] # e /\ \E j \in 1..Len(s) : r[i] = s[j]
        <3>1. i \in 1..Len(s) /\ i + 1 \in 1..Len(s) /\ i + 1 # 0
            BY <2>1, <2>2, <2>8
        <3> QED
            BY <2>1, <2>2, <2>8, <3>1
    <2>10. ASSUME NEW i \in 1..Len(r), NEW j \in 1..Len(r), r[i] = r[j] PROVE i = j
        <3>1. i \in 1..Len(s) /\ i + 1 \in 1..Len(s) /\ j \in 1..Len(s) /\ j + 1 \in 1..Len(s)
            BY <2>1, <2>2, <2>8
        <3>2. CASE i < k /\ j < k
            BY <2>8, <2>10, <3>1, <3>2
        <3>3. CASE i >= k /\ j >= k
            <4>1. r[i] = s[i + 1] /\ r[j] = s[j + 1]
                BY <2>8, <3>1, <3>3
            <4>2. i + 1 = j + 1
                BY <2>10, <3>1, <4>1
            <4> QED
                BY <4>2
        <3>4. CASE i < k /\ j >= k
            <4>1. r[i] = s[i] /\ r[j] = s[j + 1]
                BY <2>8, <3>1, <3>4
            <4>2. i = j + 1
                BY <2>10, <3>1, <4>1
            <4> QED
                BY <3>4, <4>2
        <3>5. CASE i >= k /\ j < k
            <4>1. r[i] = s[i + 1] /\ r[j] = s[j]
                BY <2>8, <3>1, <3>5
            <4>2. i + 1 = j
                BY <2>10, <3>1, <4>1
            <4> QED
                BY <3>5, <4>2
        <3> QED
            BY <3>2, <3>3, <3>4, <3>5
    <2> QED
        BY <2>8, <2>9, <2>10 DEF r
<1> QED
    BY <1>1, <1>2

\* The goroutines keep their timers, and none takes another one into its hands.
HandsOff ==
    \A p \in Procs : /\ proc'[p].t = proc[p].t /\ proc'[p].stopped = proc[p].stopped
                     /\ proc'[p].pc \in Handles => proc[p].pc \in Handles
\* The timers stay where they are.
TimersStay == list' = list /\ \A t \in Timers : timer'[t].b = timer[t].b /\ timer'[t].by = timer[t].by /\ timer'[t].every = timer[t].every

\* Steps that move no timer.
LEMMA NothingMoves ==
    ASSUME TimersInv, HandsOff, TimersStay
    PROVE  PlacedOK' /\ (silenced' = silenced => QuietOK')
<1>1. /\ \A b \in Buckets : list[b] \in Seq(Timers) /\ \A i \in 1..Len(list[b]) : list[b][i] \in Timers
      /\ \A p \in Procs : proc[p].pc \in Handles => proc[p].t \in Timers
    BY DEF TimersInv, TimersTypeOK, BusyOK, Handles
<1>2. PlacedOK'
    BY <1>1 DEF HandsOff, TimersStay, TimersInv, PlacedOK
<1>3. \A t : Quiet(t) => Quiet(t)'
    BY DEF HandsOff, TimersStay, Quiet
<1>4. silenced' = silenced => QuietOK'
    BY <1>3 DEF HandsOff, TimersInv, QuietOK
<1> QED
    BY <1>2, <1>4

\* Steps of the wheel that leave the actors where they are.
LEMMA ActorsStay ==
    ASSUME TimersInv, UNCHANGED <<apc, timerInfoMap, ran>>, \A a \in Clients : proc'[a].t = proc[a].t,
           \A t \in Timers : timer'[t].by = timer[t].by /\ timer'[t].every = timer[t].every
    PROVE  OnceOK'
<1>1. \A a \in Clients : timerInfoMap[a] \subseteq Timers
    BY DEF TimersInv, TimersTypeOK
<1> QED
    BY <1>1 DEF TimersInv, OnceOK

Calm == TimersTypeOK' /\ BusyOK' /\ QueuedOK' /\ HandsOff /\ TimersStay

\* Where a goroutine goes on when it leaves add or a task.
LEMMA BackPlaces ==
    ASSUME NEW p \in Procs, NEW runs \in Int
    PROVE  Back(p, runs) \in {"task", "flush", "idle"} /\ (p = Wheel => Back(p, runs) \in {"task", "flush"})
                /\ (Back(p, runs) = "flush" => p = Wheel)
BY DEF Back

\* A goroutine moves on with the timer and the bucket that it has.
LEMMA GoOn ==
    ASSUME TimersInv, NEW p \in Procs, NEW x \in {"run", "offer", "wake", "wakeup", "task", "flush", "idle"}, Goto(p, x),
           list' = list, timer' = timer, flushing' = flushing,
           proc[p].pc \in {"load", "mark", "offer", "wake", "wakeup", "run", "task"},
           x = "run" => proc[p].pc \in Handles, x = "offer" => proc[p].pc = "mark", p = Wheel => x # "idle"
    PROVE  proc' \in [Procs -> ProcRecords] /\ BusyOK' /\ HandsOff /\ TimersStay /\ (proc'[Wheel].pc \notin Between => flushing' \in Buckets)
<1>1. proc \in [Procs -> ProcRecords] /\ BusyOK /\ QueuedOK
    BY DEF TimersInv, TimersTypeOK
<1>2. proc' \in [Procs -> ProcRecords] /\ \A q \in Procs : /\ q # p => proc'[q] = proc[q]
                      /\ proc'[p].pc = x /\ proc'[p].t = proc[p].t /\ proc'[p].b = proc[p].b /\ proc'[p].stopped = proc[p].stopped
    <2>1. x \in Pcs
        BY DEF Pcs
    <2> QED
        BY <1>1, <2>1 DEF Goto, ProcRecords
<1>3. BusyOK'
    BY <1>1, <1>2 DEF BusyOK
<1>4. HandsOff
    BY <1>2 DEF HandsOff, Handles
<1>5. TimersStay
    BY DEF TimersStay
<1>6. proc'[Wheel].pc \notin Between => flushing' \in Buckets
    <2>1. Wheel \in Procs
        BY DEF Procs
    <2> QED
        BY <1>1, <1>2, <2>1 DEF QueuedOK, Between
<1> QED
    BY <1>2, <1>3, <1>4, <1>5, <1>6

\* A goroutine returns to what it was doing.
LEMMA ReturnGoesOn ==
    ASSUME TimersInv, NEW p \in Procs, Return(p), list' = list, timer' = timer, flushing' = flushing,
           proc[p].pc \in {"mark", "offer", "wake", "wakeup", "run"}
    PROVE  proc' \in [Procs -> ProcRecords] /\ BusyOK' /\ HandsOff /\ TimersStay /\ (proc'[Wheel].pc \notin Between => flushing' \in Buckets)
<1> DEFINE x == Back(p, proc[p].runs)
<1>1. proc[p].runs \in Int
    BY DEF TimersInv, TimersTypeOK, ProcRecords
<1>2. x \in {"task", "flush", "idle"} /\ (p = Wheel => x \in {"task", "flush"})
    BY <1>1, BackPlaces
<1>3. Goto(p, x)
    BY DEF Return
<1> HIDE DEF x
<1> QED
    BY <1>2, <1>3, GoOn

\* add reads the clock of a wheel.
LEMMA LoadStep ==
    ASSUME TimersInv, NEW p \in Procs, Load(p), UNCHANGED actorTimerVars
    PROVE  Calm
<1> DEFINE l == proc[p].level
           e == timer[proc[p].t].exp
<1>1. proc \in [Procs -> ProcRecords] /\ BusyOK /\ QueuedOK /\ proc[p].pc = "load" /\ Wheel \in Procs
    BY DEF TimersInv, TimersTypeOK, Load, Procs
<1>2. TimersTypeOK /\ UNCHANGED <<list, timer, flushing, pq, poll, now, due, plan, apc, timerInfoMap, ran, silenced>>
    BY DEF TimersInv, Load, buckets, delayQueue, timing, outcome, actorTimerVars
<1>3. proc[p].t \in Timers /\ l \in 1..Levels /\ e \in Nat
    BY <1>1, <1>2 DEF BusyOK, ProcRecords, TimersTypeOK, TimerRecords
<1>4. CASE Goto(p, "run")
    <2>1. proc' \in [Procs -> ProcRecords] /\ BusyOK' /\ HandsOff /\ TimersStay /\ (proc'[Wheel].pc \notin Between => flushing' \in Buckets)
        BY <1>1, <1>2, <1>4, GoOn DEF Handles
    <2> QED
        BY <1>1, <1>2, <2>1 DEF Calm, TimersTypeOK, QueuedOK
<1>5. CASE proc' = [proc EXCEPT ![p].pc = "insert", ![p].b = BucketOf(l, e)]
    <2> DEFINE b == BucketOf(l, e)
    <2>1. b \in Buckets
        BY <1>3, BucketOfIsBucket
    <2> HIDE DEF b, l, e
    <2>2. proc' = [proc EXCEPT ![p].pc = "insert", ![p].b = b]
        BY <1>5 DEF b
    <2>3. proc' \in [Procs -> ProcRecords] /\ \A q \in Procs : /\ q # p => proc'[q] = proc[q]
              /\ proc'[p].pc = "insert" /\ proc'[p].t = proc[p].t /\ proc'[p].b = b /\ proc'[p].stopped = proc[p].stopped
        <3>1. b \in Places /\ "insert" \in Pcs
            BY <2>1 DEF Places, Pcs
        <3> DEFINE z == [proc[p] EXCEPT !.pc = "insert", !.b = b]
        <3>2. z \in ProcRecords /\ z.pc = "insert" /\ z.t = proc[p].t /\ z.b = b /\ z.stopped = proc[p].stopped
            BY <1>1, <3>1 DEF ProcRecords
        <3>3. proc' = [proc EXCEPT ![p] = z]
            BY <2>2
        <3> HIDE DEF z
        <3> QED
            BY <1>1, <3>2, <3>3
    <2>4. BusyOK' /\ HandsOff /\ TimersStay
        BY <1>1, <1>2, <1>3, <2>1, <2>3 DEF BusyOK, HandsOff, Handles, TimersStay
    <2>5. QueuedOK'
        BY <1>1, <1>2, <2>3 DEF QueuedOK, Between
    <2> QED
        BY <1>2, <2>3, <2>4, <2>5 DEF Calm, TimersTypeOK
<1>6. CASE l < Levels /\ proc' = [proc EXCEPT ![p].level = l + 1]
    <2>1. l + 1 \in 1..Levels
        BY <1>3, <1>6, TimeWheelAssumption
    <2> HIDE DEF e
    <2>2. proc' \in [Procs -> ProcRecords] /\ \A q \in Procs : /\ q # p => proc'[q] = proc[q]
              /\ proc'[p].pc = proc[p].pc /\ proc'[p].t = proc[p].t /\ proc'[p].b = proc[p].b /\ proc'[p].stopped = proc[p].stopped
        BY <1>1, <1>6, <2>1 DEF ProcRecords
    <2>3. BusyOK' /\ HandsOff /\ TimersStay
        BY <1>1, <1>2, <2>2 DEF BusyOK, HandsOff, TimersStay
    <2>4. QueuedOK'
        BY <1>1, <1>2, <2>2 DEF QueuedOK, Between
    <2> QED
        BY <1>2, <2>2, <2>3, <2>4 DEF Calm, TimersTypeOK
<1> QED
    BY <1>4, <1>5, <1>6 DEF Load

\* SetExpiration, Offer, the wake-up of Poll, and the end of add.
LEMMA MarkStep ==
    ASSUME TimersInv, NEW p \in Procs, Mark(p) \/ Wake(p) \/ PollWoken(p), UNCHANGED actorTimerVars
    PROVE  Calm
<1>1. TimersTypeOK /\ QueuedOK /\ UNCHANGED <<list, timer, flushing, pq, now, due, plan, apc, timerInfoMap, ran, silenced>>
    BY DEF TimersInv, Mark, Wake, PollWoken, buckets, delayQueue, timing, outcome, actorTimerVars
<1>2. proc' \in [Procs -> ProcRecords] /\ BusyOK' /\ HandsOff /\ TimersStay /\ (proc'[Wheel].pc \notin Between => flushing' \in Buckets)
    <2>1. CASE Return(p) /\ proc[p].pc \in {"mark", "offer", "wake", "wakeup", "run"}
        BY <1>1, <2>1, ReturnGoesOn
    <2>2. CASE Goto(p, "offer") /\ proc[p].pc = "mark"
        BY <1>1, <2>2, GoOn
    <2>3. CASE Goto(p, "wakeup") /\ proc[p].pc = "wake"
        BY <1>1, <2>3, GoOn
    <2> QED
        BY <2>1, <2>2, <2>3 DEF Mark, Wake, PollWoken
<1>3. poll'.pc = "send" => poll'.b \in Buckets
    <2>1. CASE poll' = poll
        BY <1>1, <2>1 DEF QueuedOK
    <2>2. CASE poll' = [poll EXCEPT !.pc = "peek"]
        BY <2>2
    <2> QED
        BY <2>1, <2>2 DEF Mark, Wake, PollWoken, delayQueue
<1> QED
    BY <1>1, <1>2, <1>3 DEF Calm, TimersTypeOK, QueuedOK

\* See MarkStep.
LEMMA OfferStep ==
    ASSUME TimersInv, NEW p \in Procs, Offer(p), UNCHANGED actorTimerVars
    PROVE  Calm
<1>1. TimersTypeOK /\ QueuedOK /\ BusyOK
        /\ UNCHANGED <<list, timer, flushing, poll, now, due, plan, apc, timerInfoMap, ran, silenced>>
    BY DEF TimersInv, Offer, buckets, timing, outcome, actorTimerVars
<1>2. proc' \in [Procs -> ProcRecords] /\ BusyOK' /\ HandsOff /\ TimersStay /\ (proc'[Wheel].pc \notin Between => flushing' \in Buckets)
    <2>1. CASE Return(p) /\ proc[p].pc \in {"mark", "offer", "wake", "wakeup", "run"}
        BY <1>1, <2>1, ReturnGoesOn
    <2>2. CASE Goto(p, "wake") /\ proc[p].pc = "offer"
        BY <1>1, <2>2, GoOn
    <2> QED
        BY <2>1, <2>2 DEF Offer
<1>3. \A y \in DOMAIN pq' : y[1] \in Buckets
    <2> DEFINE x == <<proc[p].b, expiration[proc[p].b]>>
    <2>1. pq' = pq (+) SetToBag({x}) /\ x[1] \in Buckets
        BY <1>1 DEF Offer, BusyOK
    <2> HIDE DEF x
    <2>2. ASSUME NEW y \in DOMAIN pq' PROVE y[1] \in Buckets
        <3>1. y \in DOMAIN pq \/ y = x
            BY <2>1, OfferedBuckets
        <3> QED
            BY <1>1, <2>1, <3>1 DEF QueuedOK
    <2> QED
        BY <2>2
<1> QED
    BY <1>1, <1>2, <1>3 DEF Calm, TimersTypeOK, QueuedOK

\* One timer moves: into a bucket, into the hands of h, or out of both.
Moves(t, h) ==
    /\ ~Quiet(t) /\ timer'[t].by # Wheel /\ silenced' = silenced
    /\ \A u \in Timers : u # t => timer'[u].b = timer[u].b /\ timer'[u].by = timer[u].by
    /\ \A b \in Buckets : \A i \in 1..Len(list'[b]) :
          \/ list'[b][i] = t /\ timer'[t].b = b
          \/ list'[b][i] # t /\ \E j \in 1..Len(list[b]) : list'[b][i] = list[b][j]
    /\ \A b \in Buckets : \A i, j \in 1..Len(list'[b]) : list'[b][i] = list'[b][j] => i = j
    /\ \A q \in Procs : proc'[q].pc \in Handles =>
          \/ q = h /\ proc'[q].t = t /\ timer'[t].b = NoBucket
          \/ proc[q].pc \in Handles /\ proc'[q].t = proc[q].t /\ proc[q].t # t
    /\ \A q \in Procs : proc'[q].stopped = TRUE =>
          \/ proc[q].stopped = TRUE /\ proc'[q].t = proc[q].t
          \/ proc'[q].t = t /\ timer'[t].b = NoBucket /\ \A x \in Procs : proc'[x].pc \in Handles => proc'[x].t # t

\* Every timer is still in one place, and the ones nobody touches any more are where they were.
LEMMA OneMoves ==
    ASSUME TimersInv, NEW t \in Timers, NEW h, Moves(t, h)
    PROVE  PlacedOK' /\ QuietOK'
<1>1. /\ \A b \in Buckets : list[b] \in Seq(Timers) /\ \A i \in 1..Len(list[b]) : list[b][i] \in Timers
      /\ \A p \in Procs : proc[p].pc \in Handles => proc[p].t \in Timers
      /\ PlacedOK /\ QuietOK
    BY DEF TimersInv, TimersTypeOK, BusyOK, Handles
<1>2. ASSUME NEW b \in Buckets, NEW i \in 1..Len(list'[b]) PROVE timer'[list'[b][i]].b = b
    <2>1. \/ list'[b][i] = t /\ timer'[t].b = b
          \/ list'[b][i] # t /\ \E j \in 1..Len(list[b]) : list'[b][i] = list[b][j]
        BY DEF Moves
    <2>2. ASSUME NEW j \in 1..Len(list[b]), list'[b][i] = list[b][j], list'[b][i] # t
          PROVE  timer'[list'[b][i]].b = b
        <3>1. list[b][j] \in Timers /\ timer[list[b][j]].b = b
            BY <1>1 DEF PlacedOK
        <3>2. \A u \in Timers : u # t => timer'[u].b = timer[u].b
            BY DEF Moves
        <3> QED
            BY <2>2, <3>1, <3>2
    <2> QED
        BY <2>1, <2>2
<1>3. \A p \in Procs : proc'[p].pc \in Handles => timer'[proc'[p].t].b = NoBucket /\ timer'[proc'[p].t].by # Wheel
    BY <1>1 DEF PlacedOK, Moves
<1>4. \A p, q \in Procs : proc'[p].pc \in Handles /\ proc'[q].pc \in Handles /\ proc'[p].t = proc'[q].t => p = q
    BY <1>1 DEF PlacedOK, Moves
<1>5. \A u \in Timers : timer'[u].by = Wheel => timer'[u].b = NoBucket
    BY <1>1 DEF PlacedOK, Moves
<1>6. PlacedOK'
    <2>1. \A b \in Buckets : \A i, j \in 1..Len(list'[b]) : list'[b][i] = list'[b][j] => i = j
        BY DEF Moves
    <2> QED
        BY <1>2, <1>3, <1>4, <1>5, <2>1 DEF PlacedOK
<1>7. ASSUME NEW u, Quiet(u) PROVE Quiet(u)'
    <2>1. u # t
        BY <1>7 DEF Moves
    <2> QED
        BY <1>7, <2>1 DEF Quiet, Moves
<1>8. QuietOK'
    <2>1. \A u \in silenced' : Quiet(u)'
        BY <1>1, <1>7 DEF QuietOK, Moves
    <2>2. ASSUME NEW q \in Procs, proc'[q].stopped = TRUE PROVE Quiet(proc[q].t)'
        <3>1. CASE proc[q].stopped = TRUE /\ proc'[q].t = proc[q].t
            <4> DEFINE u == proc[q].t
            <4>1. Quiet(u) /\ proc'[q].t = u
                BY <1>1, <3>1 DEF QuietOK
            <4> HIDE DEF u
            <4>2. u # t
                BY <4>1 DEF Moves
            <4> QED
                BY <4>1, <4>2 DEF Quiet, Moves
        <3>2. CASE proc'[q].t = t /\ timer'[t].b = NoBucket /\ \A x \in Procs : proc'[x].pc \in Handles => proc'[x].t # t
            BY <3>2 DEF Quiet, Moves
        <3> QED
            BY <2>2, <3>1, <3>2 DEF Moves
    <2> QED
        BY <2>1, <2>2 DEF QuietOK
<1> QED
    BY <1>6, <1>8

\* Calm steps, and wheel steps that move a timer, keep the invariant.
LEMMA CalmStep ==
    ASSUME TimersInv, Calm, UNCHANGED actorTimerVars
    PROVE  TimersInv'
<1>1. PlacedOK' /\ QuietOK'
    BY NothingMoves DEF Calm, actorTimerVars
<1>2. \A a \in Clients : a \in Procs
    BY DEF Procs
<1>3. OnceOK'
    BY <1>2, ActorsStay DEF Calm, HandsOff, TimersStay, actorTimerVars
<1> QED
    BY <1>1, <1>3 DEF Calm, TimersInv

\* The push of a timer on the queue of its actor.
LEMMA PushKeepsType ==
    ASSUME TimersInv, NEW t \in Timers, Push(t)
    PROVE  due' \in [Clients -> Seq(Timers)]
<1> DEFINE a == timer[t].by
<1>1. due \in [Clients -> Seq(Timers)] /\ due' = [due EXCEPT ![a] = Append(due[a], t)]
    BY DEF TimersInv, TimersTypeOK, Push
<1> HIDE DEF a
<1>2. CASE a \in Clients
    <2>1. Append(due[a], t) \in Seq(Timers)
        BY <1>1, <1>2
    <2> QED
        BY <1>1, <1>2, <2>1
<1>3. CASE a \notin Clients
    BY <1>1, <1>3
<1> QED
    BY <1>2, <1>3

\* A task that is due runs.
LEMMA TaskStep ==
    ASSUME TimersInv, NEW p \in Procs, Task(p), UNCHANGED actorTimerVars
    PROVE  Calm
<1>1. TimersTypeOK /\ QueuedOK /\ BusyOK /\ proc \in [Procs -> ProcRecords] /\ Wheel \in Procs /\ proc[p].pc = "task"
        /\ UNCHANGED <<list, timer, flushing, pq, poll, now, plan, apc, timerInfoMap, ran, silenced>>
    BY DEF TimersInv, TimersTypeOK, Task, buckets, timing, outcome, delayQueue, actorTimerVars, Procs
<1>2. proc[p].t \in Timers
    BY <1>1 DEF BusyOK
<1>3. due' \in [Clients -> Seq(Timers)]
    BY <1>2, PushKeepsType DEF Task
<1> DEFINE n == proc[p].runs - 1
           x == Back(p, n)
           z == [proc[p] EXCEPT !.runs = n, !.pc = x]
<1>4. n \in Int /\ proc[p] \in ProcRecords
    BY <1>1 DEF ProcRecords
<1>5. proc' = [proc EXCEPT ![p] = z]
    BY DEF Task
<1> HIDE DEF n
<1>6. x \in Pcs /\ x \in {"task", "flush", "idle"} /\ (p = Wheel => x \in {"task", "flush"})
    BY <1>4, BackPlaces DEF Pcs
<1> HIDE DEF x
<1>7. z \in ProcRecords /\ z.pc = x /\ z.t = proc[p].t /\ z.b = proc[p].b /\ z.stopped = proc[p].stopped
    BY <1>4, <1>6 DEF ProcRecords
<1> HIDE DEF z
<1>8. proc' \in [Procs -> ProcRecords] /\ proc'[p] = z /\ \A q \in Procs : q # p => proc'[q] = proc[q]
    BY <1>1, <1>5, <1>7
<1>9. BusyOK' /\ HandsOff /\ TimersStay
    BY <1>1, <1>2, <1>6, <1>7, <1>8 DEF BusyOK, HandsOff, Handles, TimersStay
<1>10. QueuedOK'
    BY <1>1, <1>6, <1>7, <1>8 DEF QueuedOK, Between
<1> QED
    BY <1>1, <1>3, <1>8, <1>9, <1>10 DEF Calm, TimersTypeOK

\* An expired timer: its task runs in a goroutine of its own, or here.
LEMMA RunStep ==
    ASSUME TimersInv, NEW p \in Procs, Run(p), UNCHANGED actorTimerVars
    PROVE  TimersInv'
<1>1. TimersTypeOK /\ QueuedOK /\ BusyOK /\ PlacedOK /\ proc \in [Procs -> ProcRecords] /\ Wheel \in Procs /\ proc[p].pc = "run"
        /\ UNCHANGED <<list, flushing, pq, poll, now, plan, apc, timerInfoMap, ran, silenced>>
    BY DEF TimersInv, TimersTypeOK, Run, buckets, timing, outcome, delayQueue, actorTimerVars, Procs
<1>a. PICK t \in Timers : t = proc[p].t
    BY <1>1 DEF BusyOK
<1>2. t \in Timers /\ timer[t] \in TimerRecords /\ proc[p] \in ProcRecords /\ timer \in [Timers -> TimerRecords] /\ t = proc[p].t
    BY <1>1, <1>a DEF TimersTypeOK
<1>3. CASE timer[t].every = 0 /\ Push(t) /\ Return(p) /\ timer' = timer
    <2>1. due' \in [Clients -> Seq(Timers)]
        BY <1>2, <1>3, PushKeepsType
    <2>2. proc' \in [Procs -> ProcRecords] /\ BusyOK' /\ HandsOff /\ TimersStay /\ (proc'[Wheel].pc \notin Between => flushing' \in Buckets)
        BY <1>1, <1>3, ReturnGoesOn
    <2>3. Calm
        BY <1>1, <1>3, <2>1, <2>2 DEF Calm, TimersTypeOK, QueuedOK
    <2> QED
        BY <2>3, CalmStep
<1>4. CASE /\ timer' = [timer EXCEPT ![t].exp = @ + timer[t].every]
           /\ proc' = [proc EXCEPT ![p].pc = "load", ![p].level = 1, ![p].runs = @ + 1] /\ due' = due
    <2> DEFINE y == [timer[t] EXCEPT !.exp = @ + timer[t].every]
               z == [proc[p] EXCEPT !.pc = "load", !.level = 1, !.runs = @ + 1]
    <2>1. timer' = [timer EXCEPT ![t] = y] /\ proc' = [proc EXCEPT ![p] = z]
        BY <1>4
    <2>2. y \in TimerRecords /\ y.b = timer[t].b /\ y.by = timer[t].by /\ y.every = timer[t].every
        BY <1>2 DEF TimerRecords
    <2>3. "load" \in Pcs /\ 1 \in 1..Levels
        BY TimeWheelAssumption DEF Pcs
    <2>4. z \in ProcRecords /\ z.pc = "load" /\ z.t = t /\ z.b = proc[p].b /\ z.stopped = proc[p].stopped
        <3> DEFINE n == proc[p].runs + 1
        <3>1. n \in Int
            BY <1>2 DEF ProcRecords
        <3>2. z = [proc[p] EXCEPT !.pc = "load", !.level = 1, !.runs = n]
            OBVIOUS
        <3> HIDE DEF n, z
        <3> QED
            BY <1>2, <2>3, <3>1, <3>2 DEF ProcRecords
    <2> HIDE DEF y, z
    <2>5. timer' \in [Timers -> TimerRecords] /\ timer'[t] = y /\ \A u \in Timers : u # t => timer'[u] = timer[u]
        BY <1>2, <2>1, <2>2
    <2>6. proc' \in [Procs -> ProcRecords] /\ proc'[p] = z /\ \A q \in Procs : q # p => proc'[q] = proc[q]
        BY <1>1, <2>1, <2>4
    <2>7. BusyOK' /\ HandsOff
        BY <1>1, <1>2, <2>4, <2>6 DEF BusyOK, HandsOff, Handles
    <2>8. TimersStay
        BY <1>1, <1>2, <2>2, <2>5 DEF TimersStay
    <2>9. QueuedOK'
        BY <1>1, <2>4, <2>6 DEF QueuedOK, Between
    <2>10. Calm
        BY <1>1, <1>4, <2>5, <2>6, <2>7, <2>8, <2>9 DEF Calm, TimersTypeOK
    <2> QED
        BY <2>10, CalmStep
<1>5. CASE /\ p # t /\ timer' = timer /\ due' = due
           /\ proc' = [proc EXCEPT ![p].pc = Back(p, proc[p].runs), ![t].pc = "run", ![t].t = t]
    <2> DEFINE x == Back(p, proc[p].runs)
               y == [proc[p] EXCEPT !.pc = x]
               z == [proc[t] EXCEPT !.pc = "run", !.t = t]
    <2>1. t \in Procs /\ t \notin Clients /\ proc[t] \in ProcRecords /\ proc[p].runs \in Int /\ t # Wheel
        BY <1>1, <1>2, TimeWheelAssumption DEF Procs, ProcRecords
    <2>2. proc' = [[proc EXCEPT ![p] = y] EXCEPT ![t] = z]
        BY <1>5
    <2>3. x \in Pcs /\ x \in {"task", "flush", "idle"} /\ (p = Wheel => x \in {"task", "flush"})
        BY <2>1, BackPlaces DEF Pcs
    <2> HIDE DEF x
    <2>4. y \in ProcRecords /\ y.pc = x /\ y.t = t /\ y.b = proc[p].b /\ y.stopped = proc[p].stopped
        BY <1>2, <2>3 DEF ProcRecords
    <2>5. z \in ProcRecords /\ z.pc = "run" /\ z.t = t /\ z.b = proc[t].b /\ z.stopped = proc[t].stopped
        <3>1. "run" \in Pcs
            BY DEF Pcs
        <3> QED
            BY <1>2, <2>1, <3>1 DEF ProcRecords
    <2> HIDE DEF y, z
    <2>6. /\ proc' \in [Procs -> ProcRecords] /\ proc'[p] = y /\ proc'[t] = z
          /\ \A q \in Procs : q # p /\ q # t => proc'[q] = proc[q]
        <3> DEFINE f == [proc EXCEPT ![p] = y]
        <3>1. f \in [Procs -> ProcRecords] /\ f[p] = y /\ \A q \in Procs : q # p => f[q] = proc[q]
            BY <1>1, <2>4
        <3>2. proc' = [f EXCEPT ![t] = z] /\ p # t
            BY <1>5, <2>2
        <3> HIDE DEF f
        <3> QED
            BY <2>1, <2>5, <3>1, <3>2
    <2>7. proc[t].stopped # TRUE
        BY <1>1, <2>1 DEF BusyOK
    <2>8. BusyOK' /\ QueuedOK'
        BY <1>1, <1>2, <2>1, <2>3, <2>4, <2>5, <2>6, <2>7 DEF BusyOK, QueuedOK, Between
    <2>9. PlacedOK' /\ QuietOK'
        <3>1. ~Quiet(t) /\ timer'[t].by # Wheel /\ timer'[t].b = NoBucket
            BY <1>1, <1>2, <1>5 DEF Quiet, PlacedOK, Handles
        <3>2. \A q \in Procs : proc'[q].pc \in Handles =>
                  \/ q = t /\ proc'[q].t = t /\ timer'[t].b = NoBucket
                  \/ proc[q].pc \in Handles /\ proc'[q].t = proc[q].t /\ proc[q].t # t
            BY <1>1, <1>2, <2>3, <2>4, <2>5, <2>6, <3>1 DEF PlacedOK, Handles
        <3>3. \A q \in Procs : proc'[q].stopped = TRUE =>
                  \/ proc[q].stopped = TRUE /\ proc'[q].t = proc[q].t
                  \/ proc'[q].t = t /\ timer'[t].b = NoBucket /\ \A y1 \in Procs : proc'[y1].pc \in Handles => proc'[y1].t # t
            BY <1>2, <2>4, <2>5, <2>6, <2>7
        <3>4. \A b \in Buckets : \A i \in 1..Len(list'[b]) :
                  \/ list'[b][i] = t /\ timer'[t].b = b
                  \/ list'[b][i] # t /\ \E j \in 1..Len(list[b]) : list'[b][i] = list[b][j]
            BY <1>1, <1>5, <3>1, NoBucketIsNone DEF PlacedOK
        <3>5. \A b \in Buckets : \A i, j \in 1..Len(list'[b]) : list'[b][i] = list'[b][j] => i = j
            BY <1>1 DEF PlacedOK
        <3>6. \A u \in Timers : u # t => timer'[u].b = timer[u].b /\ timer'[u].by = timer[u].by
            BY <1>5
        <3>7. Moves(t, t)
            BY <1>1, <3>1, <3>2, <3>3, <3>4, <3>5, <3>6 DEF Moves
        <3> QED
            BY <3>7, OneMoves
    <2>10. OnceOK'
        <3>1. \A a \in Clients : proc'[a].t = proc[a].t
            BY <1>2, <2>1, <2>4, <2>6 DEF Procs
        <3> QED
            BY <1>1, <1>5, <3>1, ActorsStay
    <2> QED
        BY <1>1, <1>5, <2>6, <2>8, <2>9, <2>10 DEF TimersInv, TimersTypeOK
<1> QED
    BY <1>2, <1>3, <1>4, <1>5 DEF Run

\* bucket.Add.
LEMMA InsertStep ==
    ASSUME TimersInv, NEW p \in Procs, Insert(p), UNCHANGED actorTimerVars
    PROVE  TimersInv'
<1>1. TimersTypeOK /\ QueuedOK /\ BusyOK /\ PlacedOK /\ proc \in [Procs -> ProcRecords] /\ Wheel \in Procs /\ proc[p].pc = "insert"
        /\ timer \in [Timers -> TimerRecords] /\ list \in [Buckets -> Seq(Timers)]
        /\ UNCHANGED <<flushing, pq, poll, now, due, plan, apc, timerInfoMap, ran, silenced>>
    BY DEF TimersInv, TimersTypeOK, Insert, timing, outcome, delayQueue, actorTimerVars, Procs
<1>2. PICK t \in Timers, b \in Buckets : t = proc[p].t /\ b = proc[p].b
    BY <1>1 DEF BusyOK
<1> DEFINE y == [timer[t] EXCEPT !.b = b]
           z == [proc[p] EXCEPT !.pc = "mark"]
           l == Append(list[b], t)
<1>3. list' = [list EXCEPT ![b] = l] /\ timer' = [timer EXCEPT ![t] = y] /\ proc' = [proc EXCEPT ![p] = z]
    BY <1>2 DEF Insert, Goto
<1>4. timer[t].b = NoBucket /\ timer[t].by # Wheel /\ b # NoBucket /\ timer[t] \in TimerRecords /\ proc[p] \in ProcRecords
    BY <1>1, <1>2, NoBucketIsNone DEF PlacedOK, Handles
<1>5. y \in TimerRecords /\ y.b = b /\ y.by = timer[t].by /\ y.every = timer[t].every
    <2>1. b \in Places
        BY DEF Places
    <2> QED
        BY <1>4, <2>1 DEF TimerRecords
<1>6. z \in ProcRecords /\ z.pc = "mark" /\ z.t = t /\ z.b = b /\ z.stopped = proc[p].stopped
    <2>1. "mark" \in Pcs
        BY DEF Pcs
    <2> QED
        BY <1>2, <1>4, <2>1 DEF ProcRecords
<1>7. l \in Seq(Timers) /\ Len(l) = Len(list[b]) + 1 /\ l[Len(list[b]) + 1] = t /\ \A i \in 1..Len(list[b]) : l[i] = list[b][i]
    BY <1>1, <1>2
<1> HIDE DEF y, z, l
<1>8. /\ timer' \in [Timers -> TimerRecords] /\ timer'[t] = y /\ \A u \in Timers : u # t => timer'[u] = timer[u]
      /\ proc' \in [Procs -> ProcRecords] /\ proc'[p] = z /\ \A q \in Procs : q # p => proc'[q] = proc[q]
    BY <1>1, <1>3, <1>5, <1>6
<1>9. list' \in [Buckets -> Seq(Timers)] /\ list'[b] = l /\ \A c \in Buckets : c # b => list'[c] = list[c]
    BY <1>1, <1>2, <1>3, <1>7
<1>10. BusyOK' /\ QueuedOK'
    BY <1>1, <1>2, <1>6, <1>8 DEF BusyOK, QueuedOK, Between
<1>11. \A c \in Buckets : Len(list[c]) \in Nat /\ \A i \in 1..Len(list[c]) : list[c][i] # t
    BY <1>1, <1>4, NoBucketIsNone DEF PlacedOK
<1>12. PlacedOK' /\ QuietOK'
    <2>1. ASSUME NEW c \in Buckets, NEW i \in 1..Len(list'[c])
          PROVE  \/ list'[c][i] = t /\ timer'[t].b = c
                 \/ list'[c][i] # t /\ \E j \in 1..Len(list[c]) : list'[c][i] = list[c][j]
        <3>1. CASE c # b
            BY <1>9, <1>11, <3>1
        <3>2. CASE c = b
            <4>1. i \in 1..Len(list[b]) \/ i = Len(list[b]) + 1
                BY <1>7, <1>9, <1>11, <3>2
            <4> QED
                BY <1>5, <1>7, <1>8, <1>9, <1>11, <3>2, <4>1
        <3> QED
            BY <3>1, <3>2
    <2>2. ASSUME NEW c \in Buckets, NEW i \in 1..Len(list'[c]), NEW j \in 1..Len(list'[c]), list'[c][i] = list'[c][j]
          PROVE  i = j
        <3>1. CASE c # b
            BY <1>1, <1>9, <2>2, <3>1 DEF PlacedOK
        <3>2. CASE c = b
            <4>1. /\ i \in 1..Len(list[b]) \/ i = Len(list[b]) + 1
                  /\ j \in 1..Len(list[b]) \/ j = Len(list[b]) + 1
                BY <1>7, <1>9, <1>11, <3>2
            <4>2. \A k1, k2 \in 1..Len(list[b]) : list[b][k1] = list[b][k2] => k1 = k2
                BY <1>1 DEF PlacedOK
            <4> QED
                BY <1>7, <1>9, <1>11, <2>2, <3>2, <4>1, <4>2
        <3> QED
            BY <3>1, <3>2
    <2>3. ~Quiet(t) /\ timer'[t].by # Wheel /\ silenced' = silenced
        BY <1>1, <1>2, <1>4, <1>5, <1>8 DEF Quiet, Handles
    <2>4. \A u \in Timers : u # t => timer'[u].b = timer[u].b /\ timer'[u].by = timer[u].by
        BY <1>8
    <2>5. \A q \in Procs : proc'[q].pc \in Handles => proc[q].pc \in Handles /\ proc'[q].t = proc[q].t /\ proc[q].t # t
        BY <1>1, <1>2, <1>6, <1>8 DEF PlacedOK, Handles
    <2>6. \A q \in Procs : proc'[q].stopped = TRUE => proc[q].stopped = TRUE /\ proc'[q].t = proc[q].t
        BY <1>2, <1>6, <1>8
    <2>7. Moves(t, p)
        BY <2>1, <2>2, <2>3, <2>4, <2>5, <2>6 DEF Moves
    <2> QED
        BY <2>7, OneMoves
<1>13. OnceOK'
    <2>1. \A a \in Clients : proc'[a].t = proc[a].t
        BY <1>2, <1>6, <1>8 DEF Procs
    <2>2. \A u \in Timers : timer'[u].by = timer[u].by /\ timer'[u].every = timer[u].every
        BY <1>5, <1>8
    <2> QED
        BY <1>1, <2>1, <2>2, ActorsStay
<1> QED
    BY <1>1, <1>8, <1>9, <1>10, <1>12, <1>13 DEF TimersInv, TimersTypeOK

\* Poll takes a bucket out of the delay queue, or goes to sleep and wakes up.
LEMMA PollStep ==
    ASSUME TimersInv, PollPeek \/ PollDeadline \/ PollExit, UNCHANGED actorTimerVars
    PROVE  Calm
<1>1. TimersTypeOK /\ QueuedOK /\ BusyOK
        /\ UNCHANGED <<list, timer, flushing, proc, now, due, plan, apc, timerInfoMap, ran, silenced>>
    BY DEF TimersInv, PollPeek, PollDeadline, PollExit, buckets, timing, outcome, actorTimerVars
<1>2. HandsOff /\ TimersStay /\ BusyOK' /\ TimersTypeOK'
    BY <1>1 DEF HandsOff, TimersStay, BusyOK, TimersTypeOK
<1>3. (poll'.pc = "send" => poll'.b \in Buckets) /\ \A x \in DOMAIN pq' : x[1] \in Buckets
    <2>1. CASE PollExit
        BY <1>1, <2>1 DEF PollExit, QueuedOK
    <2>2. CASE PollDeadline
        BY <1>1, <2>2 DEF PollDeadline, QueuedOK
    <2>3. CASE PollPeek
        <3>1. CASE poll' = [poll EXCEPT !.pc = "wait", !.until = -1] /\ pq' = pq
            BY <1>1, <3>1 DEF QueuedOK
        <3>2. ASSUME NEW x \in BagToSet(pq), poll' = [poll EXCEPT !.pc = "wait", !.until = x[2]], pq' = pq
              PROVE  (poll'.pc = "send" => poll'.b \in Buckets) /\ \A y \in DOMAIN pq' : y[1] \in Buckets
            BY <1>1, <3>2 DEF QueuedOK
        <3>3. ASSUME NEW x \in BagToSet(pq), pq' = pq (-) SetToBag({x}), poll' = [poll EXCEPT !.pc = "send", !.b = x[1]]
              PROVE  (poll'.pc = "send" => poll'.b \in Buckets) /\ \A y \in DOMAIN pq' : y[1] \in Buckets
            <4>1. x[1] \in Buckets
                BY <1>1 DEF QueuedOK, BagToSet
            <4>2. \A y \in DOMAIN pq' : y[1] \in Buckets
                BY <1>1, <3>3, TakenBuckets DEF QueuedOK
            <4> QED
                BY <3>3, <4>1, <4>2
        <3> QED
            BY <2>3, <3>1, <3>2, <3>3 DEF PollPeek
    <2> QED
        BY <2>1, <2>2, <2>3
<1> QED
    BY <1>1, <1>2, <1>3 DEF Calm, QueuedOK

\* The goroutine of the wheel goes from one step of a flush to the next.
LEMMA WheelGoesOn ==
    ASSUME TimersInv, NEW x \in {"advance", "lock", "flush", "unmark", "recv", "done"}, NEW b \in Places,
           proc' = [proc EXCEPT ![Wheel].pc = x, ![Wheel].b = b], list' = list, timer' = timer,
           x \in {"advance", "lock"} => b \in Buckets, x = "flush" => flushing' \in Buckets
    PROVE  /\ proc' \in [Procs -> ProcRecords] /\ BusyOK' /\ HandsOff /\ TimersStay
           /\ proc'[Wheel].pc \notin Between => flushing' \in Buckets
<1> DEFINE z == [proc[Wheel] EXCEPT !.pc = x, !.b = b]
<1>1. proc \in [Procs -> ProcRecords] /\ BusyOK /\ Wheel \in Procs /\ x \in Pcs
    BY DEF TimersInv, TimersTypeOK, Procs, Pcs
<1>2. proc' = [proc EXCEPT ![Wheel] = z] /\ proc[Wheel] \in ProcRecords
    BY <1>1
<1>3. z \in ProcRecords /\ z.pc = x /\ z.t = proc[Wheel].t /\ z.b = b /\ z.stopped = proc[Wheel].stopped
    BY <1>1, <1>2 DEF ProcRecords
<1> HIDE DEF z
<1>4. proc' \in [Procs -> ProcRecords] /\ proc'[Wheel] = z /\ \A q \in Procs : q # Wheel => proc'[q] = proc[q]
    BY <1>1, <1>2, <1>3
<1>5. BusyOK'
    BY <1>1, <1>3, <1>4 DEF BusyOK
<1>6. HandsOff /\ TimersStay
    BY <1>1, <1>3, <1>4 DEF HandsOff, TimersStay, Handles
<1>7. proc'[Wheel].pc \notin Between => flushing' \in Buckets
    BY <1>3, <1>4 DEF Between
<1> QED
    BY <1>4, <1>5, <1>6, <1>7

\* The bucket goes to the wheel, whose clock advances before it takes the lock of the bucket,
\* and which marks it as not queued in the end.
LEMMA FlushStep ==
    ASSUME TimersInv, PollSend \/ Advance \/ FlushLock \/ FlushUnlock \/ FlushUnmark \/ WheelExit, UNCHANGED actorTimerVars
    PROVE  Calm
<1>1. TimersTypeOK /\ QueuedOK /\ BusyOK /\ Wheel \in Procs /\ proc \in [Procs -> ProcRecords]
        /\ UNCHANGED <<list, timer, pq, now, due, plan, apc, timerInfoMap, ran, silenced>>
    BY DEF TimersInv, TimersTypeOK, Procs, PollSend, Advance, FlushLock, FlushUnlock, FlushUnmark, WheelExit, buckets, timing, outcome,
        delayQueue, actorTimerVars
<1>2. proc[Wheel].b \in Places /\ proc[Wheel] \in ProcRecords
    BY <1>1 DEF ProcRecords
<1>3. ASSUME NEW x, Goto(Wheel, x) PROVE proc' = [proc EXCEPT ![Wheel].pc = x, ![Wheel].b = proc[Wheel].b]
    <2>1. [proc[Wheel] EXCEPT !.pc = x] = [proc[Wheel] EXCEPT !.pc = x, !.b = proc[Wheel].b]
        BY <1>2 DEF ProcRecords
    <2> QED
        BY <1>3, <2>1 DEF Goto
<1>4. PICK x \in {"advance", "lock", "flush", "unmark", "recv", "done"}, b \in Places :
          /\ proc' = [proc EXCEPT ![Wheel].pc = x, ![Wheel].b = b] /\ (x \in {"advance", "lock"} => b \in Buckets)
          /\ x = "flush" => flushing' \in Buckets
    <2>1. CASE PollSend
        <3>1. poll.b \in Buckets /\ proc' = [proc EXCEPT ![Wheel].pc = "advance", ![Wheel].b = poll.b]
            BY <1>1, <2>1 DEF PollSend, QueuedOK
        <3> QED
            BY <3>1 DEF Places
    <2>2. CASE Advance
        BY <1>1, <1>2, <1>3, <2>2 DEF Advance, BusyOK
    <2>3. CASE FlushLock
        <3>1. Goto(Wheel, "flush") /\ flushing' \in Buckets
            BY <1>1, <2>3 DEF FlushLock, BusyOK, Goto
        <3> QED
            BY <1>2, <1>3, <3>1
    <2>4. CASE FlushUnlock
        <3>1. flushing \in Buckets /\ proc' = [proc EXCEPT ![Wheel].pc = "unmark", ![Wheel].b = flushing]
            BY <1>1, <2>4 DEF FlushUnlock, QueuedOK, Between
        <3> QED
            BY <3>1 DEF Places
    <2>5. CASE FlushUnmark
        BY <1>2, <1>3, <2>5 DEF FlushUnmark
    <2>6. CASE WheelExit
        BY <1>2, <1>3, <2>6 DEF WheelExit
    <2> QED
        BY <2>1, <2>2, <2>3, <2>4, <2>5, <2>6
<1>5. /\ proc' \in [Procs -> ProcRecords] /\ BusyOK' /\ HandsOff /\ TimersStay
      /\ proc'[Wheel].pc \notin Between => flushing' \in Buckets
    BY <1>1, <1>4, WheelGoesOn
<1>6. poll'.pc = "send" => poll'.b \in Buckets
    <2>1. CASE poll' = poll
        BY <1>1, <2>1 DEF QueuedOK
    <2>2. CASE poll' = [poll EXCEPT !.pc = "peek"]
        BY <2>2
    <2> QED
        BY <2>1, <2>2 DEF PollSend, Advance, FlushLock, FlushUnlock, FlushUnmark, WheelExit, delayQueue
<1> QED
    BY <1>1, <1>5, <1>6 DEF Calm, TimersTypeOK, QueuedOK

\* Flush takes the first timer of its bucket, to add it again or to run it.
LEMMA FlushNextStep ==
    ASSUME TimersInv, FlushNext, UNCHANGED actorTimerVars
    PROVE  TimersInv'
<1>1. TimersTypeOK /\ QueuedOK /\ BusyOK /\ PlacedOK /\ proc \in [Procs -> ProcRecords] /\ Wheel \in Procs /\ Wheel \notin Clients
        /\ proc[Wheel].pc = "flush" /\ timer \in [Timers -> TimerRecords] /\ list \in [Buckets -> Seq(Timers)]
        /\ UNCHANGED <<flushing, pq, poll, now, due, plan, apc, timerInfoMap, ran, silenced>>
    BY TimeWheelAssumption DEF TimersInv, TimersTypeOK, FlushNext, timing, outcome, delayQueue, actorTimerVars, Procs
<1>2. PICK b \in Buckets : b = flushing
    BY <1>1 DEF QueuedOK, Between
<1>3. list[b] \in Seq(Timers) /\ list[b] # <<>>
    BY <1>1, <1>2 DEF FlushNext
<1>4. PICK t \in Timers : t = Head(list[b])
    BY <1>3
<1> DEFINE y == [timer[t] EXCEPT !.b = NoBucket]
           z == [proc[Wheel] EXCEPT !.pc = "load", !.t = t, !.level = 1]
           l == Tail(list[b])
<1>5. list' = [list EXCEPT ![b] = l] /\ timer' = [timer EXCEPT ![t] = y] /\ proc' = [proc EXCEPT ![Wheel] = z]
    BY <1>2, <1>4 DEF FlushNext
<1>6. /\ l \in Seq(Timers) /\ Len(l) = Len(list[b]) - 1 /\ Len(list[b]) \in Nat /\ Len(list[b]) > 0 /\ t = list[b][1]
      /\ \A i \in 1..Len(l) : l[i] = list[b][i + 1] /\ i + 1 \in 1..Len(list[b])
    BY <1>3, <1>4
<1>7. timer[t].b = b /\ b # NoBucket /\ timer[t].by # Wheel /\ timer[t] \in TimerRecords /\ proc[Wheel] \in ProcRecords
    BY <1>1, <1>6, NoBucketIsNone DEF PlacedOK
<1>8. y \in TimerRecords /\ y.b = NoBucket /\ y.by = timer[t].by /\ y.every = timer[t].every
    <2>1. NoBucket \in Places
        BY DEF Places
    <2> QED
        BY <1>7, <2>1 DEF TimerRecords
<1>9. z \in ProcRecords /\ z.pc = "load" /\ z.t = t /\ z.b = proc[Wheel].b /\ z.stopped = proc[Wheel].stopped
    <2>1. "load" \in Pcs /\ 1 \in 1..Levels
        BY TimeWheelAssumption DEF Pcs
    <2> QED
        BY <1>7, <2>1 DEF ProcRecords
<1> HIDE DEF y, z, l
<1>10. /\ timer' \in [Timers -> TimerRecords] /\ timer'[t] = y /\ \A u \in Timers : u # t => timer'[u] = timer[u]
       /\ proc' \in [Procs -> ProcRecords] /\ proc'[Wheel] = z /\ \A q \in Procs : q # Wheel => proc'[q] = proc[q]
    BY <1>1, <1>5, <1>8, <1>9
<1>11. list' \in [Buckets -> Seq(Timers)] /\ list'[b] = l /\ \A c \in Buckets : c # b => list'[c] = list[c]
    BY <1>1, <1>2, <1>5, <1>6
<1>12. BusyOK' /\ QueuedOK'
    BY <1>1, <1>2, <1>9, <1>10 DEF BusyOK, QueuedOK, Between
<1>13. \A i \in 1..Len(l) : l[i] # t
    <2> SUFFICES ASSUME NEW i \in 1..Len(l), l[i] = t PROVE FALSE
        OBVIOUS
    <2>1. i + 1 \in 1..Len(list[b]) /\ 1 \in 1..Len(list[b]) /\ list[b][i + 1] = list[b][1]
        BY <1>6
    <2>2. i + 1 = 1
        BY <1>1, <2>1 DEF PlacedOK
    <2> QED
        BY <2>2
<1>14. PlacedOK' /\ QuietOK'
    <2>1. ASSUME NEW c \in Buckets, NEW i \in 1..Len(list'[c])
          PROVE  list'[c][i] # t /\ \E j \in 1..Len(list[c]) : list'[c][i] = list[c][j]
        <3>1. CASE c # b
            BY <1>1, <1>7, <1>11, <3>1 DEF PlacedOK
        <3>2. CASE c = b
            BY <1>6, <1>11, <1>13, <3>2
        <3> QED
            BY <3>1, <3>2
    <2>2. ASSUME NEW c \in Buckets, NEW i \in 1..Len(list'[c]), NEW j \in 1..Len(list'[c]), list'[c][i] = list'[c][j]
          PROVE  i = j
        <3>1. CASE c # b
            BY <1>1, <1>11, <2>2, <3>1 DEF PlacedOK
        <3>2. CASE c = b
            <4>1. /\ i + 1 \in 1..Len(list[b]) /\ j + 1 \in 1..Len(list[b]) /\ list[b][i + 1] = list[b][j + 1]
                BY <1>6, <1>11, <2>2, <3>2
            <4>2. i + 1 = j + 1
                BY <1>1, <4>1 DEF PlacedOK
            <4> QED
                BY <1>6, <1>11, <3>2, <4>2
        <3> QED
            BY <3>1, <3>2
    <2>3. ~Quiet(t) /\ timer'[t].by # Wheel /\ silenced' = silenced /\ timer'[t].b = NoBucket
        BY <1>1, <1>7, <1>8, <1>10 DEF Quiet
    <2>4. \A u \in Timers : u # t => timer'[u].b = timer[u].b /\ timer'[u].by = timer[u].by
        BY <1>10
    <2>5. \A q \in Procs : proc'[q].pc \in Handles =>
              \/ q = Wheel /\ proc'[q].t = t /\ timer'[t].b = NoBucket
              \/ proc[q].pc \in Handles /\ proc'[q].t = proc[q].t /\ proc[q].t # t
        BY <1>1, <1>7, <1>9, <1>10, <2>3 DEF PlacedOK
    <2>6. \A q \in Procs : proc'[q].stopped = TRUE => proc[q].stopped = TRUE /\ proc'[q].t = proc[q].t
        BY <1>1, <1>9, <1>10 DEF BusyOK
    <2>7. Moves(t, Wheel)
        <3>1. \A c \in Buckets : \A i \in 1..Len(list'[c]) :
                 \/ list'[c][i] = t /\ timer'[t].b = c
                 \/ list'[c][i] # t /\ \E j \in 1..Len(list[c]) : list'[c][i] = list[c][j]
            BY <2>1
        <3>2. \A c \in Buckets : \A i, j \in 1..Len(list'[c]) : list'[c][i] = list'[c][j] => i = j
            BY <2>2
        <3>3. \A q \in Procs : proc'[q].stopped = TRUE =>
                 \/ proc[q].stopped = TRUE /\ proc'[q].t = proc[q].t
                 \/ proc'[q].t = t /\ timer'[t].b = NoBucket /\ \A x \in Procs : proc'[x].pc \in Handles => proc'[x].t # t
            BY <2>6
        <3> QED
            BY <2>3, <2>4, <2>5, <3>1, <3>2, <3>3, Zenon DEF Moves
    <2> QED
        BY <2>7, OneMoves
<1>15. OnceOK'
    <2>1. \A a \in Clients : proc'[a].t = proc[a].t
        BY <1>1, <1>10 DEF Procs
    <2>2. \A u \in Timers : timer'[u].by = timer[u].by /\ timer'[u].every = timer[u].every
        BY <1>8, <1>10
    <2> QED
        BY <1>1, <2>1, <2>2, ActorsStay
<1> QED
    BY <1>1, <1>10, <1>11, <1>12, <1>14, <1>15 DEF TimersInv, TimersTypeOK

\* Timer.Stop reads the bucket of the timer.
LEMMA StopBucketStep ==
    ASSUME TimersInv, NEW p \in Procs, StopBucket(p), UNCHANGED actorTimerVars
    PROVE  Calm
<1>1. TimersTypeOK /\ QueuedOK /\ BusyOK /\ proc \in [Procs -> ProcRecords] /\ Wheel \in Procs /\ Wheel \notin Clients
        /\ proc[p].pc = "bucket"
        /\ UNCHANGED <<list, timer, flushing, pq, poll, now, due, plan, apc, timerInfoMap, ran, silenced>>
    BY TimeWheelAssumption DEF TimersInv, TimersTypeOK, StopBucket, buckets, timing, outcome, delayQueue, actorTimerVars, Procs
<1>2. proc[p].t \in Timers /\ p \in Clients /\ proc[p] \in ProcRecords
    BY <1>1 DEF BusyOK
<1> DEFINE b == timer[proc[p].t].b
           x == IF b = NoBucket THEN "idle" ELSE "remove"
           z == [proc[p] EXCEPT !.b = b, !.pc = x]
<1>3. b \in Places /\ proc' = [proc EXCEPT ![p] = z]
    BY <1>1, <1>2 DEF StopBucket, TimersTypeOK, TimerRecords
<1> HIDE DEF b
<1>4. x \in Pcs /\ x \in {"idle", "remove"} /\ (x = "remove" => b \in Buckets)
    BY <1>3 DEF Pcs, Places
<1> HIDE DEF x
<1>5. z \in ProcRecords /\ z.pc = x /\ z.t = proc[p].t /\ z.b = b /\ z.stopped = proc[p].stopped
    BY <1>2, <1>3, <1>4 DEF ProcRecords
<1> HIDE DEF z
<1>6. proc' \in [Procs -> ProcRecords] /\ proc'[p] = z /\ \A q \in Procs : q # p => proc'[q] = proc[q]
    BY <1>1, <1>3, <1>5
<1>7. BusyOK' /\ HandsOff /\ TimersStay
    BY <1>1, <1>2, <1>4, <1>5, <1>6 DEF BusyOK, HandsOff, Handles, TimersStay
<1>8. QueuedOK'
    BY <1>1, <1>2, <1>6 DEF QueuedOK
<1> QED
    BY <1>1, <1>6, <1>7, <1>8 DEF Calm, TimersTypeOK

\* bucket.Remove looks again whether the timer is still in the bucket that Stop read.
LEMMA BucketRemoveStep ==
    ASSUME TimersInv, NEW p \in Procs, BucketRemove(p), UNCHANGED actorTimerVars
    PROVE  TimersInv'
<1>1. TimersTypeOK /\ QueuedOK /\ BusyOK /\ PlacedOK /\ proc \in [Procs -> ProcRecords] /\ Wheel \in Procs /\ Wheel \notin Clients
        /\ proc[p].pc = "remove" /\ timer \in [Timers -> TimerRecords] /\ list \in [Buckets -> Seq(Timers)]
        /\ UNCHANGED <<flushing, pq, poll, now, due, plan, apc, timerInfoMap, ran, silenced>>
    BY TimeWheelAssumption DEF TimersInv, TimersTypeOK, BucketRemove, timing, outcome, delayQueue, actorTimerVars, Procs
<1>2. PICK t \in Timers, b \in Buckets : t = proc[p].t /\ b = proc[p].b
    BY <1>1 DEF BusyOK
<1>3. p \in Clients /\ p # Wheel /\ proc[p] \in ProcRecords /\ timer[t] \in TimerRecords /\ list[b] \in Seq(Timers)
    BY <1>1, <1>2 DEF BusyOK
<1> DEFINE z == [proc[p] EXCEPT !.pc = "bucket", !.stopped = (timer[t].b = b)]
<1>4. z \in ProcRecords /\ z.pc = "bucket" /\ z.t = t /\ z.b = b /\ (z.stopped = TRUE => timer[t].b = b)
    <2>1. "bucket" \in Pcs
        BY DEF Pcs
    <2> DEFINE h == timer[t].b = b
    <2>2. h \in BOOLEAN /\ (h = TRUE => timer[t].b = b)
        OBVIOUS
    <2>3. z = [proc[p] EXCEPT !.pc = "bucket", !.stopped = h]
        OBVIOUS
    <2> HIDE DEF h, z
    <2> QED
        BY <1>2, <1>3, <2>1, <2>2, <2>3 DEF ProcRecords
<1>5. proc' = [proc EXCEPT ![p] = z]
    BY <1>2 DEF BucketRemove
<1> HIDE DEF z
<1>6. proc' \in [Procs -> ProcRecords] /\ proc'[p] = z /\ \A q \in Procs : q # p => proc'[q] = proc[q]
    BY <1>1, <1>4, <1>5
<1>7. BusyOK' /\ QueuedOK'
    BY <1>1, <1>2, <1>3, <1>4, <1>6 DEF BusyOK, QueuedOK
<1>8. CASE timer[t].b # b
    <2>1. list' = list /\ timer' = timer
        <3>1. list' = [list EXCEPT ![b] = list[b]] /\ timer' = [timer EXCEPT ![t] = [timer[t] EXCEPT !.b = timer[t].b]]
            BY <1>2, <1>8 DEF BucketRemove
        <3>2. [timer[t] EXCEPT !.b = timer[t].b] = timer[t]
            BY <1>3 DEF TimerRecords
        <3> QED
            BY <1>1, <3>1, <3>2
    <2>2. TimersStay
        BY <2>1 DEF TimersStay
    <2>3. PlacedOK'
        <3>1. \A q \in Procs : proc'[q].pc \in Handles => proc'[q] = proc[q]
            BY <1>4, <1>6 DEF Handles
        <3> QED
            BY <1>1, <2>1, <3>1 DEF PlacedOK
    <2>4. ASSUME NEW u, Quiet(u) PROVE Quiet(u)'
        BY <1>4, <1>6, <2>1, <2>4 DEF Quiet, Handles
    <2>5. QuietOK'
        BY <1>1, <1>4, <1>6, <1>8, <2>4 DEF TimersInv, QuietOK
    <2>6. OnceOK'
        <3>1. \A a \in Clients : proc'[a].t = proc[a].t
            BY <1>2, <1>4, <1>6 DEF Procs
        <3> QED
            BY <1>1, <2>1, <3>1, ActorsStay
    <2> QED
        BY <1>1, <1>6, <1>7, <2>1, <2>3, <2>5, <2>6 DEF TimersInv, TimersTypeOK
<1>9. CASE timer[t].b = b
    <2> DEFINE y == [timer[t] EXCEPT !.b = NoBucket]
               l == RemoveFirst(list[b], t)
    <2>1. list' = [list EXCEPT ![b] = l] /\ timer' = [timer EXCEPT ![t] = y]
        BY <1>2, <1>9 DEF BucketRemove
    <2>2. y \in TimerRecords /\ y.b = NoBucket /\ y.by = timer[t].by /\ y.every = timer[t].every
        <3>1. NoBucket \in Places
            BY DEF Places
        <3> QED
            BY <1>3, <3>1 DEF TimerRecords
    <2>3. \A i, j \in 1..Len(list[b]) : list[b][i] = list[b][j] => i = j
        BY <1>1 DEF PlacedOK
    <2>4. /\ l \in Seq(Timers) /\ \A i, j \in 1..Len(l) : l[i] = l[j] => i = j
          /\ \A i \in 1..Len(l) : l[i] # t /\ \E j \in 1..Len(list[b]) : l[i] = list[b][j]
        <3>1. list[b] \in Seq(Timers)
            BY <1>3
        <3>2. OnceEach(list[b])
            BY <2>3 DEF OnceEach
        <3>3. l \in Seq(Timers) /\ OnceEach(l) /\ Without(list[b], t, l)
            BY <3>1, <3>2, UnlinkedList
        <3> HIDE DEF y, l
        <3> QED
            BY <3>3 DEF OnceEach, Without
    <2> HIDE DEF y, l
    <2>5. /\ timer' \in [Timers -> TimerRecords] /\ timer'[t] = y /\ \A u \in Timers : u # t => timer'[u] = timer[u]
          /\ list' \in [Buckets -> Seq(Timers)] /\ list'[b] = l /\ \A c \in Buckets : c # b => list'[c] = list[c]
        BY <1>1, <2>1, <2>2, <2>4
    <2>6. b # NoBucket /\ timer[t].by # Wheel /\ \A q \in Procs : proc[q].pc \in Handles => proc[q].t # t
        BY <1>1, <1>9, NoBucketIsNone DEF PlacedOK
    <2>7. Moves(t, p)
        <3>1. ~Quiet(t) /\ timer'[t].by # Wheel /\ silenced' = silenced
            BY <1>1, <1>9, <2>2, <2>5, <2>6 DEF Quiet
        <3>2. \A u \in Timers : u # t => timer'[u].b = timer[u].b /\ timer'[u].by = timer[u].by
            BY <2>5
        <3>3. \A c \in Buckets : \A i \in 1..Len(list'[c]) : list'[c][i] # t /\ \E j \in 1..Len(list[c]) : list'[c][i] = list[c][j]
            <4> SUFFICES ASSUME NEW c \in Buckets, NEW i \in 1..Len(list'[c])
                         PROVE  list'[c][i] # t /\ \E j \in 1..Len(list[c]) : list'[c][i] = list[c][j]
                OBVIOUS
            <4>1. CASE c # b
                BY <1>1, <1>9, <2>5, <4>1 DEF PlacedOK
            <4>2. CASE c = b
                BY <2>4, <2>5, <4>2
            <4> QED
                BY <4>1, <4>2
        <3>4. \A c \in Buckets : \A i, j \in 1..Len(list'[c]) : list'[c][i] = list'[c][j] => i = j
            <4> SUFFICES ASSUME NEW c \in Buckets PROVE \A i, j \in 1..Len(list'[c]) : list'[c][i] = list'[c][j] => i = j
                OBVIOUS
            <4>1. CASE c # b
                BY <1>1, <2>5, <4>1 DEF PlacedOK
            <4>2. CASE c = b
                BY <2>4, <2>5, <4>2
            <4> QED
                BY <4>1, <4>2
        <3>5. \A q \in Procs : proc'[q].pc \in Handles => proc[q].pc \in Handles /\ proc'[q].t = proc[q].t /\ proc[q].t # t
            BY <1>4, <1>6, <2>6 DEF Handles
        <3>6. \A q \in Procs : proc'[q].stopped = TRUE =>
                  \/ proc[q].stopped = TRUE /\ proc'[q].t = proc[q].t
                  \/ q = p /\ proc'[q].t = t
            BY <1>4, <1>6
        <3>7. timer'[t].b = NoBucket /\ \A q \in Procs : proc'[q].pc \in Handles => proc'[q].t # t
            BY <2>2, <2>5, <3>5
        <3> QED
            BY <3>1, <3>2, <3>3, <3>4, <3>5, <3>6, <3>7 DEF Moves
    <2>8. OnceOK'
        <3>1. \A a \in Clients : proc'[a].t = proc[a].t
            BY <1>2, <1>4, <1>6 DEF Procs
        <3>2. \A u \in Timers : timer'[u].by = timer[u].by /\ timer'[u].every = timer[u].every
            BY <2>2, <2>5
        <3> QED
            BY <1>1, <3>1, <3>2, ActorsStay
    <2> QED
        BY <1>1, <1>6, <1>7, <2>5, <2>7, <2>8, OneMoves DEF TimersInv, TimersTypeOK
<1> QED
    BY <1>8, <1>9

\* A goroutine that does nothing.
LEMMA IdleIsRecord == Idle \in ProcRecords /\ Idle.pc = "idle" /\ Idle.stopped = FALSE
<1>1. NoBucket \in Places /\ "idle" \in Pcs /\ 1 \in 1..Levels
    BY TimeWheelAssumption DEF Places, Pcs
<1> QED
    BY <1>1 DEF Idle, ProcRecords

\* Add and AddOnce make a timer that was not there.
LEMMA AddTimerStep ==
    ASSUME TimersInv, NEW a \in Clients, AddTimer(a)
    PROVE  TimersInv'
<1>1. TimersTypeOK /\ QueuedOK /\ BusyOK /\ PlacedOK /\ OnceOK /\ proc \in [Procs -> ProcRecords] /\ Wheel \in Procs /\ Wheel \notin Clients
        /\ a \in Procs /\ timer \in [Timers -> TimerRecords] /\ list \in [Buckets -> Seq(Timers)] /\ apc \in [Clients -> {"ready", "adding", "removing"}]
        /\ now \in Nat /\ plan \in TimerPlans
    BY TimeWheelAssumption DEF TimersInv, TimersTypeOK, Procs
<1>2. PICK t \in NextID : LET new == plan.timers[t] IN
          new.delay >= 1 /\ AfterFunc(a, t, new.delay, IF new.periodic THEN new.delay ELSE 0, new.async)
    BY DEF AddTimer
<1>3. t \in Timers /\ t \in DOMAIN plan.timers /\ timer[t].by = Wheel
    BY DEF NextID
<1> DEFINE new == plan.timers[t]
           every == IF new.periodic THEN new.delay ELSE 0
           y == [exp |-> now + new.delay, every |-> every, async |-> new.async, b |-> NoBucket, by |-> a]
           z == [Idle EXCEPT !.pc = "load", !.t = t]
<1>4. timer' = [timer EXCEPT ![t] = y] /\ proc' = [proc EXCEPT ![a] = z] /\ apc' = [apc EXCEPT ![a] = "adding"]
        /\ UNCHANGED <<list, flushing, pq, poll, now, due, plan, timerInfoMap, ran, silenced>>
    BY <1>2 DEF AfterFunc, AddTimer, timing, delayQueue, outcome
<1>5. new.delay \in Nat /\ new.async \in BOOLEAN
    BY <1>1, <1>3, TimerPlansAssumption
<1>6. every \in Nat /\ now + new.delay \in Nat
    BY <1>1, <1>5
<1>7. y \in TimerRecords /\ y.b = NoBucket /\ y.by = a
    <2>1. NoBucket \in Places
        BY DEF Places
    <2> HIDE DEF every, new
    <2> QED
        BY <1>5, <1>6, <2>1 DEF TimerRecords
<1>8. z \in ProcRecords /\ z.pc = "load" /\ z.t = t /\ z.stopped # TRUE
    <2>1. "load" \in Pcs
        BY DEF Pcs
    <2>2. Idle \in ProcRecords /\ Idle.stopped = FALSE
        BY IdleIsRecord
    <2> QED
        BY <1>3, <2>1, <2>2 DEF ProcRecords
<1> HIDE DEF y, z, new, every
<1>9. /\ timer' \in [Timers -> TimerRecords] /\ timer'[t] = y /\ \A u \in Timers : u # t => timer'[u] = timer[u]
      /\ proc' \in [Procs -> ProcRecords] /\ proc'[a] = z /\ \A q \in Procs : q # a => proc'[q] = proc[q]
      /\ apc' \in [Clients -> {"ready", "adding", "removing"}] /\ apc'[a] = "adding" /\ \A c \in Clients : c # a => apc'[c] = apc[c]
    BY <1>1, <1>3, <1>4, <1>7, <1>8
<1>10. BusyOK' /\ QueuedOK'
    BY <1>1, <1>3, <1>4, <1>8, <1>9 DEF BusyOK, QueuedOK
<1>11. Moves(t, a)
    <2>1. ~Quiet(t) /\ timer'[t].by # Wheel /\ silenced' = silenced /\ timer'[t].b = NoBucket /\ timer[t].b = NoBucket
        BY <1>1, <1>3, <1>4, <1>7, <1>9 DEF Quiet, PlacedOK
    <2>2. \A u \in Timers : u # t => timer'[u].b = timer[u].b /\ timer'[u].by = timer[u].by
        BY <1>9
    <2>3. \A b \in Buckets : \A i \in 1..Len(list'[b]) : list'[b][i] # t /\ \E j \in 1..Len(list[b]) : list'[b][i] = list[b][j]
        BY <1>1, <1>4, <2>1, NoBucketIsNone DEF PlacedOK
    <2>4. \A b \in Buckets : \A i, j \in 1..Len(list'[b]) : list'[b][i] = list'[b][j] => i = j
        BY <1>1, <1>4 DEF PlacedOK
    <2>5. \A q \in Procs : proc'[q].pc \in Handles =>
              \/ q = a /\ proc'[q].t = t /\ timer'[t].b = NoBucket
              \/ proc[q].pc \in Handles /\ proc'[q].t = proc[q].t /\ proc[q].t # t
        BY <1>1, <1>3, <1>8, <1>9, <2>1 DEF PlacedOK
    <2>6. \A q \in Procs : proc'[q].stopped = TRUE => proc[q].stopped = TRUE /\ proc'[q].t = proc[q].t
        BY <1>8, <1>9
    <2> QED
        BY <2>1, <2>2, <2>3, <2>4, <2>5, <2>6 DEF Moves
<1>12. OnceOK'
    <2>1. \A c \in Clients : t \notin timerInfoMap[c] /\ timerInfoMap[c] \subseteq Timers /\ c \in Procs /\ c # Wheel
        BY <1>1, <1>3 DEF OnceOK, TimersTypeOK, Procs
    <2>2. \A c \in Clients : \A u \in timerInfoMap'[c] : timer'[u].by = c
        BY <1>1, <1>4, <1>9, <2>1 DEF OnceOK
    <2>3. \A c \in Clients : apc'[c] # "ready" => proc'[c].t \in Timers /\ timer'[proc'[c].t].by = c
        <3> SUFFICES ASSUME NEW c \in Clients, apc'[c] # "ready" PROVE proc'[c].t \in Timers /\ timer'[proc'[c].t].by = c
            OBVIOUS
        <3>1. CASE c = a
            BY <1>3, <1>7, <1>8, <1>9, <3>1
        <3>2. CASE c # a
            <4>1. proc'[c] = proc[c] /\ proc[c].t \in Timers /\ timer[proc[c].t].by = c /\ proc[c].t # t
                BY <1>1, <1>3, <1>9, <2>1, <3>2 DEF OnceOK
            <4> QED
                BY <1>9, <4>1
        <3> QED
            BY <3>1, <3>2
    <2>4. ran[t] = 0 /\ ran' = ran /\ timerInfoMap' = timerInfoMap
        BY <1>1, <1>3, <1>4 DEF OnceOK
    <2>5. \A u \in Timers : timer'[u].by = Wheel => ran'[u] = 0
        BY <1>1, <1>9, <2>4 DEF OnceOK
    <2>6. ASSUME NEW u \in Timers, timer'[u].every = 0
          PROVE  /\ ran'[u] <= 1
                 /\ ran'[u] > 0 => \A c \in Clients : u \notin timerInfoMap'[c] /\ (apc'[c] = "adding" => proc'[c].t # u)
        <3>1. CASE u = t
            BY <2>4, <3>1
        <3>2. CASE u # t
            <4>1. timer[u].every = 0
                BY <1>9, <2>6, <3>2
            <4>2. /\ ran[u] <= 1
                  /\ ran[u] > 0 => \A c \in Clients : u \notin timerInfoMap[c] /\ (apc[c] = "adding" => proc[c].t # u)
                BY <1>1, <4>1 DEF OnceOK
            <4>3. proc'[a].t # u
                BY <1>8, <1>9, <3>2
            <4> QED
                BY <1>9, <2>1, <2>4, <4>2, <4>3
        <3> QED
            BY <3>1, <3>2
    <2> QED
        BY <2>2, <2>3, <2>5, <2>6 DEF OnceOK
<1> QED
    BY <1>1, <1>3, <1>4, <1>9, <1>10, <1>11, <1>12, OneMoves DEF TimersInv, TimersTypeOK

\* An actor stops one of its timers.
LEMMA RemoveTimerStep ==
    ASSUME TimersInv, NEW a \in Clients, RemoveTimer(a)
    PROVE  TimersInv'
<1>1. TimersTypeOK /\ QueuedOK /\ BusyOK /\ PlacedOK /\ QuietOK /\ OnceOK /\ proc \in [Procs -> ProcRecords] /\ Wheel \in Procs
        /\ Wheel \notin Clients /\ a \in Procs /\ apc \in [Clients -> {"ready", "adding", "removing"}] /\ apc[a] = "ready"
    BY TimeWheelAssumption DEF TimersInv, TimersTypeOK, Procs, RemoveTimer
<1>2. PICK t \in timerInfoMap[a] : TimerStop(a, t)
    BY DEF RemoveTimer
<1> DEFINE z == [Idle EXCEPT !.pc = "bucket", !.t = t]
<1>3. proc' = [proc EXCEPT ![a] = z] /\ apc' = [apc EXCEPT ![a] = "removing"]
        /\ UNCHANGED <<list, timer, flushing, pq, poll, now, due, plan, timerInfoMap, ran, silenced>>
    BY <1>2 DEF TimerStop, RemoveTimer, timing, delayQueue, outcome, buckets
<1>4. t \in Timers /\ timer[t].by = a
    BY <1>1 DEF OnceOK, TimersTypeOK
<1>5. z \in ProcRecords /\ z.pc = "bucket" /\ z.t = t /\ z.stopped # TRUE
    <2>1. "bucket" \in Pcs
        BY DEF Pcs
    <2>2. Idle \in ProcRecords /\ Idle.stopped = FALSE
        BY IdleIsRecord
    <2> QED
        BY <1>4, <2>1, <2>2 DEF ProcRecords
<1> HIDE DEF z
<1>6. /\ proc' \in [Procs -> ProcRecords] /\ proc'[a] = z /\ \A q \in Procs : q # a => proc'[q] = proc[q]
      /\ apc' \in [Clients -> {"ready", "adding", "removing"}] /\ apc'[a] = "removing" /\ \A c \in Clients : c # a => apc'[c] = apc[c]
    BY <1>1, <1>3, <1>5
<1>7. BusyOK' /\ QueuedOK'
    BY <1>1, <1>3, <1>4, <1>5, <1>6 DEF BusyOK, QueuedOK
<1>8. \A q \in Procs : proc'[q].pc \in Handles \/ proc'[q].stopped = TRUE => proc'[q] = proc[q]
    BY <1>5, <1>6 DEF Handles
<1>9. PlacedOK'
    BY <1>1, <1>3, <1>8 DEF PlacedOK
<1>10. QuietOK'
    <2>1. ASSUME NEW u, Quiet(u) PROVE Quiet(u)'
        BY <1>3, <1>8, <2>1 DEF Quiet
    <2> QED
        BY <1>1, <1>3, <1>8, <2>1 DEF QuietOK
<1>11. OnceOK'
    <2>1. \A c \in Clients : c \in Procs /\ apc'[c] # "ready" => proc'[c].t \in Timers /\ timer'[proc'[c].t].by = c
        BY <1>1, <1>3, <1>4, <1>5, <1>6 DEF OnceOK
    <2>2. \A c \in Clients : c \in Procs
        BY DEF Procs
    <2>3. \A c \in Clients : apc'[c] = "adding" => apc[c] = "adding" /\ proc'[c] = proc[c]
        BY <1>6, <2>2
    <2> QED
        BY <1>1, <1>3, <2>1, <2>2, <2>3 DEF OnceOK
<1> QED
    BY <1>1, <1>3, <1>6, <1>7, <1>9, <1>10, <1>11 DEF TimersInv, TimersTypeOK

\* What an actor does with its own map, and with the timers that are due.
LEMMA ActorStep ==
    ASSUME TimersInv, NEW a \in Clients, ActorSteps(a)
    PROVE  TimersInv'
<1>1. TimersTypeOK /\ QueuedOK /\ BusyOK /\ PlacedOK /\ QuietOK /\ OnceOK /\ a \in Procs /\ Wheel \in Procs
        /\ apc \in [Clients -> {"ready", "adding", "removing"}] /\ timerInfoMap \in [Clients -> SUBSET Timers]
    BY DEF TimersInv, TimersTypeOK, Procs
<1>2. UNCHANGED <<list, timer, flushing, pq, poll, now, plan, proc>>
    BY DEF ActorSteps, AddTimerInfo, Removed, InvokeFunc, wheelVars, timing, delayQueue, buckets
<1>3. BusyOK' /\ QueuedOK' /\ PlacedOK'
    BY <1>1, <1>2 DEF BusyOK, QueuedOK, PlacedOK
<1>4. ASSUME NEW u, Quiet(u) PROVE Quiet(u)'
    BY <1>2, <1>4 DEF Quiet
<1>5. CASE AddTimerInfo(a)
    <2>1. apc[a] = "adding" /\ UNCHANGED <<due, ran, silenced>> /\ apc' = [apc EXCEPT ![a] = "ready"]
            /\ timerInfoMap' = [timerInfoMap EXCEPT ![a] = @ \cup {proc[a].t}]
        BY <1>5 DEF AddTimerInfo, wheelVars, outcome
    <2>2. proc[a].t \in Timers /\ timer[proc[a].t].by = a
        BY <1>1, <2>1 DEF OnceOK
    <2>3. TimersTypeOK'
        BY <1>1, <1>2, <2>1, <2>2 DEF TimersTypeOK
    <2>4. QuietOK'
        BY <1>1, <1>2, <1>4, <2>1 DEF QuietOK
    <2>5. OnceOK'
        BY <1>1, <1>2, <2>1, <2>2 DEF OnceOK
    <2> QED
        BY <1>3, <2>3, <2>4, <2>5 DEF TimersInv
<1>6. CASE Removed(a)
    <2>1. apc[a] = "removing" /\ UNCHANGED <<due, ran>> /\ apc' = [apc EXCEPT ![a] = "ready"]
            /\ timerInfoMap' = [timerInfoMap EXCEPT ![a] = @ \ {proc[a].t}]
        BY <1>6 DEF Removed, wheelVars, outcome
    <2>2. \A t \in silenced' : t \in silenced \/ (t = proc[a].t /\ proc[a].stopped = TRUE)
        BY <1>6 DEF Removed
    <2>3. \A t \in silenced' : Quiet(t)
        BY <1>1, <2>2 DEF QuietOK
    <2>4. silenced' \subseteq Timers
        BY <2>3 DEF Quiet
    <2>5. TimersTypeOK'
        BY <1>1, <1>2, <2>1, <2>4 DEF TimersTypeOK
    <2>6. QuietOK'
        BY <1>1, <1>2, <1>4, <2>3 DEF QuietOK
    <2>7. OnceOK'
        BY <1>1, <1>2, <2>1 DEF OnceOK
    <2> QED
        BY <1>3, <2>5, <2>6, <2>7 DEF TimersInv
<1>7. CASE InvokeFunc(a)
    <2>1. PICK t \in Timers : t = Head(due[a]) /\ due' = [due EXCEPT ![a] = Tail(@)] /\ due[a] # <<>>
        BY <1>1, <1>7 DEF InvokeFunc, TimersTypeOK
    <2>2. /\ UNCHANGED <<apc, silenced>>
          /\ ran' = [ran EXCEPT ![t] = IF t \in timerInfoMap[a] THEN @ + 1 ELSE @]
          /\ timerInfoMap' = [timerInfoMap EXCEPT ![a] = IF timer[t].every = 0 THEN @ \ {t} ELSE @]
        BY <1>7, <2>1 DEF InvokeFunc
    <2>3. ran \in [Timers -> Nat] /\ due \in [Clients -> Seq(Timers)]
        BY <1>1 DEF TimersTypeOK
    <2>4. due' \in [Clients -> Seq(Timers)]
        <3>1. Tail(due[a]) \in Seq(Timers)
            BY <2>1, <2>3
        <3> QED
            BY <2>1, <2>3, <3>1
    <2>5. /\ ran' \in [Timers -> Nat] /\ ran'[t] = (IF t \in timerInfoMap[a] THEN ran[t] + 1 ELSE ran[t])
          /\ \A u \in Timers : u # t => ran'[u] = ran[u]
        BY <2>2, <2>3
    <2>6. /\ timerInfoMap' \in [Clients -> SUBSET Timers] /\ \A c \in Clients : timerInfoMap'[c] \subseteq timerInfoMap[c]
          /\ timer[t].every = 0 => t \notin timerInfoMap'[a]
        BY <1>1, <2>2
    <2>7. TimersTypeOK'
        BY <1>1, <1>2, <2>2, <2>4, <2>5, <2>6 DEF TimersTypeOK
    <2>8. QuietOK'
        BY <1>1, <1>2, <1>4, <2>2 DEF QuietOK
    <2>9. \A c \in Clients : \A u \in timerInfoMap'[c] : timer'[u].by = c
        BY <1>1, <1>2, <2>6 DEF OnceOK
    <2>10. t \in timerInfoMap[a] => timer[t].by = a /\ \A c \in Clients : c # a => t \notin timerInfoMap[c]
        BY <1>1 DEF OnceOK
    <2>11. Wheel \notin Clients
        BY TimeWheelAssumption
    <2>12. \A u \in Timers : timer'[u].by = Wheel => ran'[u] = 0
        BY <1>1, <1>2, <2>5, <2>10, <2>11 DEF OnceOK
    <2>13. ASSUME NEW u \in Timers, timer'[u].every = 0
           PROVE  /\ ran'[u] <= 1
                  /\ ran'[u] > 0 => \A c \in Clients : u \notin timerInfoMap'[c] /\ (apc'[c] = "adding" => proc'[c].t # u)
        <3>1. /\ ran[u] <= 1
              /\ ran[u] > 0 => \A c \in Clients : u \notin timerInfoMap[c] /\ (apc[c] = "adding" => proc[c].t # u)
            BY <1>1, <1>2, <2>13 DEF OnceOK
        <3>2. CASE ran'[u] = ran[u]
            BY <1>2, <2>2, <2>6, <3>1, <3>2
        <3>3. CASE ran'[u] # ran[u]
            <4>1. u = t /\ t \in timerInfoMap[a] /\ ran'[u] = ran[u] + 1 /\ timer[t].every = 0
                BY <1>2, <2>5, <2>13, <3>3
            <4>2. ran[u] \in Nat /\ ~(ran[u] > 0)
                BY <2>3, <3>1, <4>1
            <4>3. \A c \in Clients : u \notin timerInfoMap'[c]
                BY <2>6, <2>10, <4>1
            <4>4. apc[a] = "ready"
                BY <1>7 DEF InvokeFunc
            <4>5. ASSUME NEW c \in Clients, apc'[c] = "adding" PROVE proc'[c].t # u
                <5>1. c # a /\ timer[proc[c].t].by = c
                    BY <1>1, <2>2, <4>4, <4>5 DEF OnceOK
                <5> QED
                    BY <1>2, <2>10, <4>1, <5>1
            <4> QED
                BY <4>1, <4>2, <4>3, <4>5
        <3> QED
            BY <3>2, <3>3
    <2>14. \A c \in Clients : apc'[c] # "ready" => proc'[c].t \in Timers /\ timer'[proc'[c].t].by = c
        BY <1>1, <1>2, <2>2 DEF OnceOK
    <2>15. OnceOK'
        BY <2>9, <2>12, <2>13, <2>14 DEF OnceOK
    <2> QED
        BY <1>3, <2>7, <2>8, <2>15 DEF TimersInv
<1> QED
    BY <1>5, <1>6, <1>7 DEF ActorSteps

\* Every step of the actors and of the goroutines of the wheel.
LEMMA NextTimersInv ==
    ASSUME TimersInv, [TimerNext]_timerVars
    PROVE  TimersInv'
<1>1. ASSUME NEW a \in Clients, AddTimer(a) PROVE TimersInv'
    BY <1>1, AddTimerStep
<1>2. ASSUME NEW a \in Clients, RemoveTimer(a) PROVE TimersInv'
    BY <1>2, RemoveTimerStep
<1>3. ASSUME NEW a \in Clients, ActorSteps(a) PROVE TimersInv'
    BY <1>3, ActorStep
<1>4. ASSUME NEW p \in Procs, WheelSteps(p) PROVE TimersInv'
    <2>1. UNCHANGED actorTimerVars
        BY <1>4 DEF WheelSteps
    <2>2. CASE Load(p)
        BY <2>1, <2>2, LoadStep, CalmStep
    <2>3. CASE Insert(p)
        BY <2>1, <2>3, InsertStep
    <2>4. CASE Mark(p) \/ Wake(p) \/ PollWoken(p)
        BY <2>1, <2>4, MarkStep, CalmStep
    <2>5. CASE Offer(p)
        BY <2>1, <2>5, OfferStep, CalmStep
    <2>6. CASE Run(p)
        BY <2>1, <2>6, RunStep
    <2>7. CASE Task(p)
        BY <2>1, <2>7, TaskStep, CalmStep
    <2>8. CASE StopBucket(p)
        BY <2>1, <2>8, StopBucketStep, CalmStep
    <2>9. CASE BucketRemove(p)
        BY <2>1, <2>9, BucketRemoveStep
    <2> QED
        BY <1>4, <2>2, <2>3, <2>4, <2>5, <2>6, <2>7, <2>8, <2>9 DEF WheelSteps, Adding, Stopping
<1>5. CASE Goroutines
    <2>1. UNCHANGED actorTimerVars
        BY <1>5 DEF Goroutines
    <2>2. CASE PollPeek \/ PollDeadline \/ PollExit
        BY <2>1, <2>2, PollStep, CalmStep
    <2>3. CASE PollSend \/ Advance \/ FlushLock \/ FlushUnlock \/ FlushUnmark \/ WheelExit
        BY <2>1, <2>3, FlushStep, CalmStep
    <2>4. CASE FlushNext
        BY <2>1, <2>4, FlushNextStep
    <2> QED
        BY <1>5, <2>2, <2>3, <2>4 DEF Goroutines, Polling, Flushing
<1>6. CASE (Clock \/ WheelStop \/ UNCHANGED wheelVars) /\ UNCHANGED actorTimerVars
    <2>1. TimersTypeOK /\ now' \in Nat /\ UNCHANGED <<list, timer, flushing, pq, poll, proc, due, plan, apc, timerInfoMap, ran, silenced>>
        BY <1>6 DEF TimersInv, TimersTypeOK, Clock, WheelStop, wheelVars, timing, buckets, delayQueue, outcome, actorTimerVars
    <2>2. Calm
        BY <2>1 DEF TimersInv, Calm, TimersTypeOK, BusyOK, QueuedOK, HandsOff, TimersStay
    <2> QED
        BY <1>6, <2>2, CalmStep
<1> QED
    BY <1>1, <1>2, <1>3, <1>4, <1>5, <1>6 DEF TimerNext, timerVars

\* Every behaviour of the wheel and its actors stays within TimersInv.
LEMMA TimersInvariant == TimerSpec => []TimersInv
<1>1. ActorTimerInit => TimersInv
    <2> SUFFICES ASSUME ActorTimerInit PROVE TimersInv
        OBVIOUS
    <2>1. list = [b \in Buckets |-> <<>>] /\ timer = [t \in Timers |-> [exp |-> 0, every |-> 0, async |-> FALSE, b |-> NoBucket, by |-> Wheel]]
        BY DEF ActorTimerInit, WheelInit
    <2>2. \A p \in Procs : proc[p] \in ProcRecords /\ proc[p].pc \in {"idle", "recv"} /\ proc[p].stopped = FALSE
        <3>1. "recv" \in Pcs
            BY DEF Pcs
        <3>2. LET z == [Idle EXCEPT !.pc = "recv"] IN z \in ProcRecords /\ z.pc = "recv" /\ z.stopped = FALSE
            BY <3>1, IdleIsRecord DEF ProcRecords
        <3>3. proc = [p \in Procs |-> IF p = Wheel THEN [Idle EXCEPT !.pc = "recv"] ELSE Idle]
            BY DEF ActorTimerInit, WheelInit
        <3> QED
            BY <3>2, <3>3, IdleIsRecord
    <2>3. proc \in [Procs -> ProcRecords] /\ proc[Wheel].pc = "recv" /\ Wheel \in Procs
        <3>1. proc = [p \in Procs |-> IF p = Wheel THEN [Idle EXCEPT !.pc = "recv"] ELSE Idle]
            BY DEF ActorTimerInit, WheelInit
        <3>2. Wheel \in Procs
            BY DEF Procs
        <3>3. [Idle EXCEPT !.pc = "recv"].pc = "recv"
            BY IdleIsRecord DEF ProcRecords
        <3> QED
            BY <2>2, <3>1, <3>2, <3>3
    <2>4. timer \in [Timers -> TimerRecords] /\ \A t \in Timers : timer[t].by = Wheel /\ timer[t].b = NoBucket
        <3>1. NoBucket \in Places
            BY DEF Places
        <3> QED
            BY <2>1, <3>1 DEF TimerRecords
    <2>5. list \in [Buckets -> Seq(Timers)] /\ \A b \in Buckets : Len(list[b]) = 0
        BY <2>1
    <2>6. TimersTypeOK
        <3>1. now \in Nat /\ due \in [Clients -> Seq(Timers)]
            BY DEF ActorTimerInit, WheelInit
        <3>2. plan \in TimerPlans /\ apc \in [Clients -> {"ready", "adding", "removing"}] /\ timerInfoMap \in [Clients -> SUBSET Timers]
            BY DEF ActorTimerInit
        <3>3. ran \in [Timers -> Nat] /\ silenced \subseteq Timers
            BY DEF ActorTimerInit
        <3> QED
            BY <2>3, <2>4, <2>5, <3>1, <3>2, <3>3 DEF TimersTypeOK
    <2>7. BusyOK /\ PlacedOK
        BY <2>2, <2>4, <2>5 DEF BusyOK, PlacedOK, Handles
    <2>8. QueuedOK
        BY <2>3 DEF QueuedOK, ActorTimerInit, WheelInit, EmptyBag, SetToBag, Between
    <2>9. QuietOK /\ OnceOK
        BY <2>2 DEF QuietOK, OnceOK, ActorTimerInit
    <2> QED
        BY <2>6, <2>7, <2>8, <2>9 DEF TimersInv
<1>2. TimersInv /\ [TimerNext]_timerVars => TimersInv'
    BY NextTimersInv
<1> QED
    BY <1>1, <1>2, PTL DEF TimerSpec

\* Whatever goroutines add, flush, run and stop timers at the same time, a timer is in one
\* place at most, a timer whose Stop returned true never runs, and the function of a one-shot
\* timer is called once at most (bucket.Add, Flush, Remove, Timer.Stop, addOrRun, invokeFunc).
THEOREM TimersAreConsistent == TimerSpec => []TimersConsistent
<1>1. TimersInv => TimersConsistent
    <2> SUFFICES ASSUME TimersInv PROVE TimersConsistent
        OBVIOUS
    <2>1. \A b \in Buckets : DOMAIN list[b] = 1..Len(list[b])
        BY DEF TimersInv, TimersTypeOK
    <2>2. \A b \in Buckets : (\A i \in DOMAIN list[b] : timer[list[b][i]].b = b) /\ IsInjective(list[b])
        BY <2>1 DEF TimersInv, PlacedOK, IsInjective
    <2>3. \A t \in silenced : timer[t].b = NoBucket /\ \A p \in Procs : ~Handling(p, t)
        BY DEF TimersInv, QuietOK, Quiet, Handling, Handles
    <2>4. \A t \in Timers : timer[t].every = 0 => ran[t] <= 1
        BY DEF TimersInv, OnceOK
    <2> QED
        BY <2>2, <2>3, <2>4 DEF TimersConsistent
<1> QED
    BY <1>1, TimersInvariant, PTL
-----------------------------------------------------------------------------
(***************************************************************************)
(* From a bucket over the delay queue to the goroutine of the wheel.       *)
(***************************************************************************)

\* The bucket is on its way: somebody offers it, it waits in the delay queue, Poll sends it,
\* or the goroutine of the wheel is about to flush it or flushes it.
Offered(b) == \E p \in Procs : proc[p].pc = "offer" /\ proc[p].b = b
Waits(b) == \E x \in DOMAIN pq : x[1] = b
InHand(b) == \/ poll.pc = "send" /\ poll.b = b
             \/ proc[Wheel].pc \in {"advance", "lock"} /\ proc[Wheel].b = b
             \/ flushing = b
OnItsWay(b) == Offered(b) \/ Waits(b) \/ InHand(b)
Unmarks(b) == proc[Wheel].pc = "unmark" /\ proc[Wheel].b = b
Marking(t, b) == \E p \in Procs : proc[p].pc = "mark" /\ proc[p].t = t /\ proc[p].b = b

Senders == {p \in Procs : proc[p].pc = "wakeup"}
Winners == {p \in Procs : proc[p].pc = "wake"}

\* A timer in a bucket is not forgotten: its bucket is on its way, or the goroutine that put
\* it there has not come to SetExpiration, but for those in stranded.  The delay queue does
\* not oversleep: when an entry is due before Poll would wake up, somebody is about to wake
\* it.  Nobody sends to wakeupC in vain, and Poll does not drain it in vain.
NothingForgotten ==
    ~exit =>
        /\ \A b \in Buckets : \A i \in DOMAIN list[b] :
              list[b][i] \in stranded \/ Marking(list[b][i], b) \/ OnItsWay(b)
        /\ poll.pc = "wait" /\ Senders = {} /\ Winners = {} =>
              \A x \in DOMAIN pq : poll.until # -1 /\ poll.until <= x[2]
        /\ Senders # {} => poll.pc \in {"wait", "drain"} /\ \E p \in Senders : Senders = {p}
        /\ poll.pc = "drain" => Senders # {}

Delays == Buckets \X Int
DelayTypeOK ==
    /\ expiration \in [Buckets -> Int] /\ sleeping \in BOOLEAN
    /\ poll \in [pc : {"peek", "send", "wait", "drain", "done"}, b : Places, until : Int]
    /\ DOMAIN pq \subseteq Delays /\ \A x \in DOMAIN pq : pq[x] \in Nat \ {0}
\* An actor that is ready has nothing to do in the wheel; Flush holds a mutex only while it flushes.
RestingOK ==
    /\ \A a \in Clients : apc[a] = "ready" => proc[a].pc = "idle"
    /\ proc[Wheel].pc \in Between => flushing = NoBucket

\* A bucket with an expiration is on its way, or Flush is about to reset it.
MarkedOK == \A b \in Buckets : expiration[b] # -1 => OnItsWay(b) \/ Unmarks(b)
AnnouncedOK == \A b \in Buckets : \A i \in 1..Len(list[b]) :
    list[b][i] \in stranded \/ Marking(list[b][i], b) \/ OnItsWay(b)
\* Poll sleeps with the flag set, or one goroutine that has won the flag sends to it.
SleepOK ==
    /\ sleeping = TRUE => poll.pc = "wait" /\ Senders = {}
    /\ poll.pc \in {"wait", "drain"} /\ sleeping = FALSE => Senders # {}
    /\ Senders # {} => poll.pc \in {"wait", "drain"}
    /\ \A p, q \in Senders : p = q
\* It sleeps no longer than the head of the queue, or somebody comes to wake it.
HeadOK ==
    poll.pc = "wait" /\ sleeping = TRUE /\ Winners = {} => \A x \in DOMAIN pq : poll.until # -1 /\ poll.until <= x[2]

DelayInv == ~exit => DelayTypeOK /\ RestingOK /\ MarkedOK /\ AnnouncedOK /\ SleepOK /\ HeadOK

\* What a step does to the goroutines: those it leaves alone, and those that neither have a
\* part in the delay queue nor get one.
Parts == Between \cup {"mark", "offer", "wake", "wakeup"}
Same(q) == proc'[q].pc = proc[q].pc /\ proc'[q].t = proc[q].t /\ proc'[q].b = proc[q].b
OthersStay(p) == \A q \in Procs : q # p => Same(q)
Apart == \A q \in Procs : Same(q) \/ (proc[q].pc \notin Parts /\ proc'[q].pc \notin Parts)
\* No timer gets into a bucket.
NoneAdded == \A b \in Buckets : \A i \in 1..Len(list'[b]) : \E j \in 1..Len(list[b]) : list'[b][i] = list[b][j]
KeepsWay == \A b \in Buckets : (OnItsWay(b) => OnItsWay(b)') /\ (Unmarks(b) => Unmarks(b)')
KeepsMarks == \A t \in Timers, b \in Buckets : Marking(t, b) => Marking(t, b)'

\* What a step has to keep, but for the actors that are ready.
DelayKept ==
    /\ DelayTypeOK' /\ MarkedOK' /\ AnnouncedOK' /\ SleepOK' /\ HeadOK'
    /\ proc'[Wheel].pc \in Between => flushing' = NoBucket

\* A goroutine goes on, or returns to what it was doing.
LEMMA GotoPlaces ==
    ASSUME TimersTypeOK, NEW p \in Procs, NEW x, Goto(p, x)
    PROVE  OthersStay(p) /\ proc'[p].pc = x /\ proc'[p].t = proc[p].t /\ proc'[p].b = proc[p].b
<1>1. proc \in [Procs -> ProcRecords]
    BY DEF TimersTypeOK
<1>2. \A q \in Procs : q # p => proc'[q] = proc[q]
    BY <1>1 DEF Goto
<1>3. proc'[p] = [proc[p] EXCEPT !.pc = x]
    BY <1>1 DEF Goto
<1>4. proc[p] \in ProcRecords
    BY <1>1
<1>5. proc'[p].pc = x /\ proc'[p].t = proc[p].t /\ proc'[p].b = proc[p].b
    BY <1>3, <1>4 DEF ProcRecords
<1> QED
    BY <1>2, <1>5 DEF OthersStay, Same

LEMMA ReturnPlaces ==
    ASSUME TimersTypeOK, NEW p \in Procs, Return(p)
    PROVE  OthersStay(p) /\ proc'[p].pc \in {"task", "flush", "idle"}
<1> DEFINE x == Back(p, proc[p].runs)
<1>1. x \in {"task", "flush", "idle"}
    BY DEF Back
<1>2. Goto(p, x)
    BY DEF Return
<1> HIDE DEF x
<1> QED
    BY <1>1, <1>2, GotoPlaces

\* Steps that take no bucket off its way and put no timer into one.
LEMMA WaysKept ==
    ASSUME TimersTypeOK, MarkedOK, AnnouncedOK, expiration' = expiration, stranded \subseteq stranded', NoneAdded, KeepsWay, KeepsMarks
    PROVE  MarkedOK' /\ AnnouncedOK'
<1>1. MarkedOK'
    BY DEF MarkedOK, KeepsWay
<1>2. ASSUME NEW b \in Buckets, NEW i \in 1..Len(list'[b])
      PROVE  list'[b][i] \in stranded' \/ (\E p \in Procs : proc'[p].pc = "mark" /\ proc'[p].t = list'[b][i] /\ proc'[p].b = b) \/ OnItsWay(b)'
    <2>1. PICK j \in 1..Len(list[b]) : list'[b][i] = list[b][j]
        BY <1>2 DEF NoneAdded
    <2>2. list[b][j] \in Timers
        BY <2>1 DEF TimersTypeOK
    <2>3. PICK t \in Timers : t = list[b][j]
        BY <2>2
    <2>4. t \in stranded \/ Marking(t, b) \/ OnItsWay(b)
        BY <2>1, <2>3 DEF AnnouncedOK
    <2>5. t \in stranded' \/ Marking(t, b)' \/ OnItsWay(b)'
        BY <2>4 DEF KeepsWay, KeepsMarks
    <2> QED
        BY <2>1, <2>3, <2>5 DEF Marking
<1> QED
    BY <1>1, <1>2 DEF AnnouncedOK, Marking

\* Steps that leave the queue, Poll and those who wake it.
LEMMA SleepKept ==
    ASSUME SleepOK, HeadOK, UNCHANGED <<poll, sleeping, pq>>, Senders' = Senders, Winners' = Winners
    PROVE  SleepOK' /\ HeadOK'
BY DEF SleepOK, HeadOK

\* Steps that have no part in the delay queue.
LEMMA ApartKeeps ==
    ASSUME TimersTypeOK, DelayInv, ~exit, Apart, NoneAdded, UNCHANGED <<expiration, pq, poll, sleeping, flushing, stranded>>
    PROVE  DelayKept
<1>1. Wheel \in Procs /\ Between \subseteq Parts
    BY DEF Procs, Parts
<1>2. Senders' = Senders /\ Winners' = Winners
    BY DEF Apart, Same, Senders, Winners, Parts
<1>3. KeepsMarks
    BY DEF Apart, Same, Parts, KeepsMarks, Marking
<1>4. \A b \in Buckets : Offered(b) => Offered(b)'
    BY DEF Apart, Same, Parts, Offered
<1>5. \A b \in Buckets : (InHand(b) => InHand(b)') /\ (Unmarks(b) => Unmarks(b)')
    BY <1>1 DEF Apart, Same, Parts, Between, InHand, Unmarks
<1>6. KeepsWay
    BY <1>4, <1>5 DEF KeepsWay, OnItsWay, Waits
<1>7. MarkedOK' /\ AnnouncedOK' /\ SleepOK' /\ HeadOK'
    BY <1>2, <1>3, <1>6, WaysKept, SleepKept DEF DelayInv
<1>8. proc'[Wheel].pc \in Between => flushing' = NoBucket
    BY <1>1 DEF Apart, Same, DelayInv, RestingOK
<1> QED
    BY <1>7, <1>8 DEF DelayInv, DelayTypeOK, DelayKept

\* What a goroutine p does not do to the others, in the words of the invariant.
LEMMA OneGoesOn ==
    ASSUME NEW p \in Procs, OthersStay(p)
    PROVE  /\ proc[p].pc # "offer" => \A b \in Buckets : Offered(b) => Offered(b)'
           /\ proc[p].pc # "mark" => KeepsMarks
           /\ p = Wheel \/ Same(Wheel)
           /\ \A b \in Buckets : Unmarks(b) => Unmarks(b)' \/ proc[p].pc = "unmark"
           /\ proc[p].pc # "wakeup" /\ proc'[p].pc # "wakeup" => Senders' = Senders
           /\ proc[p].pc # "wake" /\ proc'[p].pc # "wake" => Winners' = Winners
           /\ proc[p].pc \notin Between /\ proc'[p].pc \notin Between => (proc'[Wheel].pc \in Between <=> proc[Wheel].pc \in Between)
<1>1. Wheel \in Procs
    BY DEF Procs
<1>2. (proc[p].pc # "offer" => \A b \in Buckets : Offered(b) => Offered(b)') /\ (proc[p].pc # "mark" => KeepsMarks)
    BY DEF OthersStay, Same, Offered, KeepsMarks, Marking
<1>3. (proc[p].pc # "wakeup" /\ proc'[p].pc # "wakeup" => Senders' = Senders) /\ (proc[p].pc # "wake" /\ proc'[p].pc # "wake" => Winners' = Winners)
    BY DEF OthersStay, Same, Senders, Winners
<1>4. p = Wheel \/ Same(Wheel)
    BY <1>1 DEF OthersStay
<1> QED
    BY <1>2, <1>3, <1>4 DEF Same, Unmarks

\* Steps of add keep what Poll has, what Flush has and what waits.
LEMMA AddKeepsWay ==
    ASSUME NEW p \in Procs, OthersStay(p), proc[p].pc \notin Between, proc[p].pc # "offer", UNCHANGED <<pq, poll, flushing>>
    PROVE  KeepsWay
<1>1. proc[p].pc \notin {"advance", "lock", "unmark"}
    BY DEF Between
<1>2. \A b \in Buckets : InHand(b) => InHand(b)'
    BY <1>1, OneGoesOn DEF InHand, Same
<1> QED
    BY <1>1, <1>2, OneGoesOn DEF KeepsWay, OnItsWay, Waits

\* bucket.Add: the goroutine that puts a timer into a bucket has its SetExpiration before it.
LEMMA InsertKeeps ==
    ASSUME TimersInv, DelayInv, ~exit, NEW p \in Procs, Insert(p)
    PROVE  DelayKept
<1> DEFINE s == proc[p].t
           c == proc[p].b
<1>1. /\ TimersTypeOK /\ BusyOK /\ MarkedOK /\ AnnouncedOK /\ SleepOK /\ HeadOK
      /\ UNCHANGED <<expiration, flushing, pq, poll, sleeping, stranded>>
    BY DEF TimersInv, DelayInv, Insert, timing, delayQueue, outcome
<1>2. proc[p].pc = "insert" /\ OthersStay(p) /\ proc'[p].pc = "mark" /\ proc'[p].t = s /\ proc'[p].b = c /\ s \in Timers /\ c \in Buckets
    BY <1>1, GotoPlaces DEF Insert, BusyOK
<1>3. KeepsWay /\ KeepsMarks /\ Senders' = Senders /\ Winners' = Winners /\ (proc'[Wheel].pc \in Between <=> proc[Wheel].pc \in Between)
    BY <1>1, <1>2, OneGoesOn, AddKeepsWay DEF Between
<1>4. list' = [list EXCEPT ![c] = Append(@, s)]
    BY DEF Insert
<1> HIDE DEF s, c
<1>5. ASSUME NEW b \in Buckets, NEW i \in 1..Len(list'[b])
      PROVE  (\E j \in 1..Len(list[b]) : list'[b][i] = list[b][j]) \/ (b = c /\ list'[b][i] = s)
    <2>1. list[b] \in Seq(Timers) /\ Len(list[b]) \in Nat
        BY <1>1 DEF TimersTypeOK
    <2>2. CASE b = c
        <3>1. list'[b] = Append(list[b], s)
            BY <1>1, <1>2, <1>4, <2>2 DEF TimersTypeOK
        <3>2. Len(list'[b]) = Len(list[b]) + 1 /\ \A j \in 1..Len(list[b]) : list'[b][j] = list[b][j]
            BY <1>2, <2>1, <3>1
        <3>3. list'[b][Len(list[b]) + 1] = s
            BY <1>2, <2>1, <3>1
        <3> QED
            BY <1>5, <2>1, <2>2, <3>2, <3>3
    <2>3. CASE b # c
        BY <1>1, <1>4, <2>3 DEF TimersTypeOK
    <2> QED
        BY <2>2, <2>3
<1>6. MarkedOK'
    BY <1>1, <1>3 DEF MarkedOK, KeepsWay
<1>7. ASSUME NEW b \in Buckets, NEW i \in 1..Len(list'[b])
      PROVE  list'[b][i] \in stranded' \/ (\E q \in Procs : proc'[q].pc = "mark" /\ proc'[q].t = list'[b][i] /\ proc'[q].b = b) \/ OnItsWay(b)'
    <2>1. CASE b = c /\ list'[b][i] = s
        BY <1>2, <2>1
    <2>2. CASE \E j \in 1..Len(list[b]) : list'[b][i] = list[b][j]
        <3>1. PICK j \in 1..Len(list[b]) : list'[b][i] = list[b][j]
            BY <2>2
        <3>2. PICK t \in Timers : t = list[b][j]
            BY <1>1, <3>1 DEF TimersTypeOK
        <3>3. t \in stranded' \/ Marking(t, b)' \/ OnItsWay(b)'
            BY <1>1, <1>3, <3>1, <3>2 DEF AnnouncedOK, KeepsWay, KeepsMarks
        <3> QED
            BY <3>1, <3>2, <3>3 DEF Marking
    <2> QED
        BY <1>5, <1>7, <2>1, <2>2
<1>8. SleepOK' /\ HeadOK'
    BY <1>1, <1>3, SleepKept
<1> QED
    BY <1>1, <1>3, <1>6, <1>7, <1>8 DEF DelayKept, AnnouncedOK, Marking, DelayInv, DelayTypeOK, RestingOK

\* A number is not negative when what is left of it by a division is taken off.
LEMMA Truncated == ASSUME NEW x \in Nat, NEW m \in Nat \ {0} PROVE truncate(x, m) \in Nat
<1>1. x % m \in 0..m - 1
    OBVIOUS
<1>2. CASE x < m
    <2>1. x % m = x
        BY <1>2
    <2> QED
        BY <2>1 DEF truncate
<1>3. CASE x >= m
    BY <1>1, <1>3 DEF truncate
<1> QED
    BY <1>2, <1>3

\* SetExpiration: who changes it goes on to Offer; when it is the same already, the bucket
\* is on its way, or Flush is about to reset it and the timer is stranded.
LEMMA SetExpirationKeeps ==
    ASSUME TimersInv, DelayInv, ~exit, NEW p \in Procs, Mark(p)
    PROVE  DelayKept
<1>0. PICK s, c, e : s = proc[p].t /\ c = proc[p].b /\ e = truncate(timer[s].exp, Tick(c[1]))
    OBVIOUS
<1>1. /\ TimersTypeOK /\ BusyOK /\ DelayTypeOK /\ MarkedOK /\ AnnouncedOK /\ SleepOK /\ HeadOK
      /\ UNCHANGED <<list, timer, flushing, pq, poll, sleeping>>
    BY DEF TimersInv, DelayInv, Mark, timing, buckets, delayQueue
<1>2. proc[p].pc = "mark" /\ s \in Timers /\ c \in Buckets
    BY <1>0, <1>1 DEF Mark, BusyOK
<1>3. e \in Nat
    <2>1. timer[s].exp \in Nat /\ c[1] \in 1..Levels
        BY <1>1, <1>2 DEF TimersTypeOK, TimerRecords, Buckets
    <2> QED
        BY <1>0, <2>1, Truncated, TimeWheelAssumption
<1>4. expiration' = [expiration EXCEPT ![c] = e] /\ stranded \subseteq stranded'
      /\ (expiration[c] = e /\ Unmarks(c) => s \in stranded')
    BY <1>0 DEF Mark, Unmarks
<1>5. IF expiration[c] # e THEN Goto(p, "offer") ELSE Return(p)
    BY <1>0 DEF Mark
<1>6. OthersStay(p) /\ proc'[p].pc \in {"offer", "task", "flush", "idle"} /\ (expiration[c] # e => proc'[p].pc = "offer" /\ proc'[p].b = c)
    BY <1>0, <1>1, <1>5, GotoPlaces, ReturnPlaces
<1>7. KeepsWay /\ Senders' = Senders /\ Winners' = Winners /\ (proc'[Wheel].pc \in Between <=> proc[Wheel].pc \in Between)
    BY <1>1, <1>2, <1>6, OneGoesOn, AddKeepsWay DEF Between
<1>8. s \in stranded' \/ OnItsWay(c)'
    <2>1. CASE expiration[c] # e
        BY <1>6, <2>1 DEF OnItsWay, Offered
    <2>2. CASE expiration[c] = e
        <3>1. OnItsWay(c) \/ Unmarks(c)
            BY <1>1, <1>2, <1>3, <2>2 DEF MarkedOK
        <3> QED
            BY <1>2, <1>4, <1>7, <2>2, <3>1 DEF KeepsWay
    <2> QED
        BY <2>1, <2>2
<1>9. MarkedOK'
    <2> SUFFICES ASSUME NEW b \in Buckets, expiration'[b] # -1 PROVE OnItsWay(b)' \/ Unmarks(b)'
        BY DEF MarkedOK
    <2>1. CASE b = c /\ expiration[c] # e
        BY <1>6, <2>1 DEF OnItsWay, Offered
    <2>2. CASE b # c \/ expiration[c] = e
        <3>1. expiration'[b] = expiration[b]
            BY <1>1, <1>2, <1>4, <2>2 DEF DelayTypeOK
        <3> QED
            BY <1>1, <1>7, <3>1 DEF MarkedOK, KeepsWay
    <2> QED
        BY <2>1, <2>2
<1>10. ASSUME NEW b \in Buckets, NEW i \in 1..Len(list[b])
       PROVE  list[b][i] \in stranded' \/ (\E q \in Procs : proc'[q].pc = "mark" /\ proc'[q].t = list[b][i] /\ proc'[q].b = b) \/ OnItsWay(b)'
    <2>1. list[b][i] \in stranded \/ OnItsWay(b) \/ Marking(list[b][i], b)
        BY <1>1 DEF AnnouncedOK
    <2>2. CASE Marking(list[b][i], b)
        <3>1. PICK q \in Procs : proc[q].pc = "mark" /\ proc[q].t = list[b][i] /\ proc[q].b = b
            BY <2>2 DEF Marking
        <3>2. CASE q = p
            BY <1>0, <1>8, <3>1, <3>2
        <3>3. CASE q # p
            BY <1>6, <3>1, <3>3 DEF OthersStay, Same
        <3> QED
            BY <3>2, <3>3
    <2> QED
        BY <1>4, <1>7, <2>1, <2>2 DEF KeepsWay
<1>11. AnnouncedOK'
    BY <1>1, <1>10 DEF AnnouncedOK, Marking
<1>12. SleepOK' /\ HeadOK'
    BY <1>1, <1>7, SleepKept
<1>13. DelayTypeOK'
    BY <1>1, <1>2, <1>3, <1>4 DEF DelayTypeOK
<1> QED
    BY <1>1, <1>7, <1>9, <1>11, <1>12, <1>13 DEF DelayKept, DelayInv, RestingOK

\* A bag with one more or one less of an element.
LEMMA OneMore ==
    ASSUME NEW B, NEW x, \A y \in DOMAIN B : B[y] \in Nat \ {0}
    PROVE  /\ DOMAIN (B (+) SetToBag({x})) = DOMAIN B \cup {x}
           /\ \A y \in DOMAIN B \cup {x} : (B (+) SetToBag({x}))[y] \in Nat \ {0}
BY DEF (+), SetToBag
LEMMA OneLess ==
    ASSUME NEW B, NEW x, \A y \in DOMAIN B : B[y] \in Nat \ {0}
    PROVE  /\ DOMAIN (B (-) SetToBag({x})) \subseteq DOMAIN B
           /\ \A y \in DOMAIN B : y # x => y \in DOMAIN (B (-) SetToBag({x}))
           /\ \A y \in DOMAIN (B (-) SetToBag({x})) : (B (-) SetToBag({x}))[y] \in Nat \ {0}
<1> DEFINE C == [y \in DOMAIN B |-> IF y \in {x} THEN B[y] - 1 ELSE B[y]]
<1>1. B (-) SetToBag({x}) = [d \in {d \in DOMAIN C : C[d] > 0} |-> C[d]]
    BY DEF (-), SetToBag
<1>2. \A y \in DOMAIN B : C[y] \in Int /\ (y # x => C[y] > 0)
    OBVIOUS
<1>3. DOMAIN C = DOMAIN B
    OBVIOUS
<1> HIDE DEF C
<1> QED
    BY <1>1, <1>2, <1>3

\* Offer: the bucket waits in the delay queue; when it comes first, who offered it goes on
\* to wake Poll.
LEMMA OfferKeeps ==
    ASSUME TimersInv, DelayInv, ~exit, NEW p \in Procs, Offer(p)
    PROVE  DelayKept
<1>0. PICK c, e : c = proc[p].b /\ e = expiration[c]
    OBVIOUS
<1>1. /\ TimersTypeOK /\ BusyOK /\ DelayTypeOK /\ MarkedOK /\ AnnouncedOK /\ SleepOK /\ HeadOK
      /\ UNCHANGED <<expiration, list, timer, flushing, poll, sleeping, stranded>>
    BY DEF TimersInv, DelayInv, Offer, timing, buckets, outcome
<1>2. proc[p].pc = "offer" /\ c \in Buckets /\ e \in Int
    BY <1>0, <1>1 DEF Offer, BusyOK, DelayTypeOK
<1>3. pq' = pq (+) SetToBag({<<c, e>>})
    BY <1>0 DEF Offer
<1>4. DOMAIN pq' = DOMAIN pq \cup {<<c, e>>} /\ \A y \in DOMAIN pq' : pq'[y] \in Nat \ {0}
    BY <1>1, <1>3, OneMore DEF DelayTypeOK
<1>5. OthersStay(p) /\ proc'[p].pc \in {"wake", "task", "flush", "idle"}
    BY <1>1, GotoPlaces, ReturnPlaces DEF Offer
<1>6. KeepsMarks /\ Senders' = Senders /\ (proc'[Wheel].pc \in Between <=> proc[Wheel].pc \in Between)
    BY <1>2, <1>5, OneGoesOn DEF Between
<1>7. ASSUME NEW b \in Buckets PROVE (OnItsWay(b) => OnItsWay(b)') /\ (Unmarks(b) => Unmarks(b)')
    <2>1. Offered(b) => Offered(b)' \/ b = c
        BY <1>0, <1>5 DEF Offered, OthersStay, Same
    <2>2. (Waits(b) => Waits(b)') /\ (b = c => Waits(b)')
        <3>1. <<c, e>>[1] = c
            OBVIOUS
        <3> QED
            BY <1>4, <3>1 DEF Waits
    <2>3. (InHand(b) => InHand(b)') /\ (Unmarks(b) => Unmarks(b)')
        BY <1>1, <1>2, <1>5, OneGoesOn DEF InHand, Unmarks, Same
    <2> QED
        BY <2>1, <2>2, <2>3 DEF OnItsWay
<1>8. MarkedOK' /\ AnnouncedOK'
    BY <1>1, <1>6, <1>7, WaysKept DEF KeepsWay, NoneAdded
<1>9. SleepOK'
    BY <1>1, <1>6 DEF SleepOK
<1>10. HeadOK'
    <2> SUFFICES ASSUME poll.pc = "wait", sleeping = TRUE, Winners' = {}
                 PROVE  \A x \in DOMAIN pq' : poll.until # -1 /\ poll.until <= x[2]
        BY <1>1 DEF HeadOK
    <2>1. proc'[p].pc # "wake"
        BY DEF Winners
    <2>2. Winners = {}
        BY <1>2, <1>5, <2>1, OneGoesOn
    <2>3. ~ \A x \in Priorities : expiration[proc[p].b] < x
        BY <1>1, <2>1, GotoPlaces DEF Offer
    <2>4. PICK i \in DOMAIN pq : ~ (e < i[2])
        BY <1>0, <2>3 DEF Priorities, BagToSet
    <2>5. i[2] \in Int /\ poll.until \in Int
        BY <1>1 DEF DelayTypeOK, Delays
    <2>6. \A x \in DOMAIN pq : poll.until # -1 /\ poll.until <= x[2]
        BY <1>1, <2>2 DEF HeadOK
    <2>7. poll.until <= e
        BY <1>2, <2>4, <2>5, <2>6
    <2>8. <<c, e>>[2] = e
        OBVIOUS
    <2> QED
        BY <1>4, <2>4, <2>6, <2>7, <2>8
<1>11. DelayTypeOK'
    BY <1>1, <1>2, <1>4 DEF DelayTypeOK, Delays
<1> QED
    BY <1>1, <1>6, <1>8, <1>9, <1>10, <1>11 DEF DelayKept, DelayInv, RestingOK

\* The CompareAndSwap on sleeping: the winner sends to wakeupC, and there is one; and the
\* send itself, which meets a Poll that sleeps or drains.
LEMMA WakeKeeps ==
    ASSUME TimersInv, DelayInv, ~exit, NEW p \in Procs, Wake(p) \/ PollWoken(p)
    PROVE  DelayKept
<1>1. /\ TimersTypeOK /\ DelayTypeOK /\ MarkedOK /\ AnnouncedOK /\ SleepOK /\ HeadOK
      /\ UNCHANGED <<expiration, list, timer, flushing, pq, stranded>>
    BY DEF TimersInv, DelayInv, Wake, PollWoken, timing, buckets, outcome
<1>2. OthersStay(p) /\ proc[p].pc \in {"wake", "wakeup"} /\ proc'[p].pc \in {"wakeup", "task", "flush", "idle"}
    BY <1>1, GotoPlaces, ReturnPlaces DEF Wake, PollWoken
<1>3. KeepsMarks /\ (proc'[Wheel].pc \in Between <=> proc[Wheel].pc \in Between)
    BY <1>2, OneGoesOn DEF Between
<1>4. KeepsWay
    <2>1. poll.pc = "send" => poll' = poll
        BY <1>1 DEF Wake, PollWoken
    <2>2. \A b \in Buckets : InHand(b) => InHand(b)'
        BY <1>1, <1>2, <2>1, OneGoesOn DEF InHand, Same
    <2> QED
        BY <1>1, <1>2, <2>2, OneGoesOn DEF KeepsWay, OnItsWay, Waits
<1>5. MarkedOK' /\ AnnouncedOK'
    BY <1>1, <1>3, <1>4, WaysKept DEF NoneAdded
<1>6. CASE Wake(p) /\ sleeping = TRUE
    <2>1. sleeping' = FALSE /\ poll' = poll /\ proc[p].pc = "wake" /\ proc'[p].pc = "wakeup"
        BY <1>1, <1>6, GotoPlaces DEF Wake
    <2>2. poll.pc = "wait" /\ Senders = {}
        BY <1>1, <1>6 DEF SleepOK
    <2>3. Senders' = {p}
        BY <1>2, <2>1, <2>2 DEF Senders, OthersStay, Same
    <2>4. SleepOK' /\ HeadOK'
        BY <2>1, <2>2, <2>3 DEF SleepOK, HeadOK
    <2>5. DelayTypeOK'
        BY <1>1, <2>1 DEF DelayTypeOK
    <2> QED
        BY <1>1, <1>3, <1>5, <2>4, <2>5 DEF DelayKept, DelayInv, RestingOK
<1>7. CASE Wake(p) /\ ~(sleeping = TRUE)
    <2>1. sleeping = FALSE /\ sleeping' = FALSE /\ poll' = poll /\ proc[p].pc = "wake" /\ proc'[p].pc # "wakeup"
        BY <1>1, <1>7, ReturnPlaces DEF Wake, DelayTypeOK
    <2>2. Senders' = Senders
        BY <1>2, <2>1, OneGoesOn
    <2>3. SleepOK' /\ HeadOK'
        BY <1>1, <2>1, <2>2 DEF SleepOK, HeadOK
    <2>4. DelayTypeOK'
        BY <1>1, <2>1 DEF DelayTypeOK
    <2> QED
        BY <1>1, <1>3, <1>5, <2>3, <2>4 DEF DelayKept, DelayInv, RestingOK
<1>8. CASE PollWoken(p)
    <2>1. proc[p].pc = "wakeup" /\ proc'[p].pc # "wakeup" /\ poll' = [poll EXCEPT !.pc = "peek"] /\ sleeping' = sleeping
        BY <1>1, <1>8, ReturnPlaces DEF PollWoken
    <2>2. p \in Senders /\ Senders # {}
        BY <2>1 DEF Senders
    <2>3. Senders' = {}
        BY <1>1, <1>2, <2>1, <2>2 DEF SleepOK, Senders, OthersStay, Same
    <2>4. sleeping = FALSE
        BY <1>1, <2>2 DEF SleepOK, DelayTypeOK
    <2>5. poll'.pc = "peek" /\ DelayTypeOK'
        BY <1>1, <2>1 DEF DelayTypeOK
    <2>6. SleepOK' /\ HeadOK'
        BY <2>1, <2>3, <2>4, <2>5 DEF SleepOK, HeadOK
    <2> QED
        BY <1>1, <1>3, <1>5, <2>5, <2>6 DEF DelayKept, DelayInv, RestingOK
<1> QED
    BY <1>6, <1>7, <1>8

\* The steps of Poll: the goroutines that add are left alone, but for those it meets.
LEMMA PollKeeps ==
    ASSUME TimersInv, DelayInv, ~exit, PollPeek \/ PollDeadline
    PROVE  DelayKept
<1>1. /\ TimersTypeOK /\ QueuedOK /\ DelayTypeOK /\ MarkedOK /\ AnnouncedOK /\ SleepOK /\ HeadOK
      /\ UNCHANGED <<now, expiration, list, timer, flushing, stranded, proc>>
    BY DEF TimersInv, DelayInv, PollPeek, PollDeadline, timing, buckets, outcome
<1>2. KeepsMarks /\ Senders' = Senders /\ Winners' = Winners /\ \A b \in Buckets : (Offered(b) => Offered(b)') /\ (Unmarks(b) => Unmarks(b)')
    BY <1>1 DEF KeepsMarks, Marking, Senders, Winners, Offered, Unmarks
<1>3. ASSUME KeepsWay, SleepOK', HeadOK', DelayTypeOK' PROVE DelayKept
    <2>1. MarkedOK' /\ AnnouncedOK'
        BY <1>1, <1>2, <1>3, WaysKept DEF NoneAdded
    <2> QED
        BY <1>1, <1>3, <2>1 DEF DelayKept, DelayInv, RestingOK
<1>4. ASSUME poll.pc # "send", pq' = pq PROVE KeepsWay
    BY <1>1, <1>2, <1>4 DEF KeepsWay, OnItsWay, InHand, Waits
<1>5. ASSUME NEW i \in DOMAIN pq, poll.pc = "peek", pq' = pq (-) SetToBag({i}), poll' = [poll EXCEPT !.pc = "send", !.b = i[1]], sleeping' = sleeping
      PROVE  DelayKept
    <2>1. i[1] \in Buckets
        BY <1>1, <1>5 DEF QueuedOK
    <2>2. DelayTypeOK' /\ poll'.pc = "send" /\ poll'.b = i[1]
        <3>1. DOMAIN pq' \subseteq DOMAIN pq /\ \A y \in DOMAIN pq' : pq'[y] \in Nat \ {0}
            BY <1>1, <1>5, OneLess DEF DelayTypeOK
        <3>2. i[1] \in Places
            BY <2>1 DEF Places
        <3> QED
            BY <1>1, <1>5, <3>1, <3>2 DEF DelayTypeOK
    <2>3. \A b \in Buckets : Waits(b) => Waits(b)' \/ i[1] = b
        <3>1. \A y \in DOMAIN pq : y # i => y \in DOMAIN pq'
            BY <1>1, <1>5, OneLess DEF DelayTypeOK
        <3> QED
            BY <3>1 DEF Waits
    <2>4. KeepsWay
        BY <1>1, <1>2, <1>5, <2>2, <2>3 DEF KeepsWay, OnItsWay, InHand
    <2>5. SleepOK' /\ HeadOK'
        BY <1>1, <1>2, <1>5, <2>2 DEF SleepOK, HeadOK
    <2> QED
        BY <1>3, <2>2, <2>4, <2>5
<1>6. ASSUME NEW u \in Int, poll.pc = "peek", pq' = pq, poll' = [poll EXCEPT !.pc = "wait", !.until = u], sleeping' = TRUE,
             \A x \in DOMAIN pq : u # -1 /\ u <= x[2]
      PROVE  DelayKept
    <2>1. DelayTypeOK' /\ poll'.pc = "wait" /\ poll'.until = u
        BY <1>1, <1>6 DEF DelayTypeOK
    <2>2. SleepOK' /\ HeadOK'
        BY <1>1, <1>2, <1>6, <2>1 DEF SleepOK, HeadOK
    <2> QED
        BY <1>3, <1>4, <1>6, <2>1, <2>2
<1>7. CASE PollPeek
    <2>1. poll.pc = "peek"
        BY <1>7 DEF PollPeek
    <2>2. CASE pq = EmptyBag /\ poll' = [poll EXCEPT !.pc = "wait", !.until = -1] /\ sleeping' = TRUE /\ UNCHANGED pq
        <3>1. DOMAIN pq = {}
            BY <2>2 DEF EmptyBag, SetToBag
        <3>2. PICK u \in Int : u = -1
            OBVIOUS
        <3>3. poll' = [poll EXCEPT !.pc = "wait", !.until = u] /\ sleeping' = TRUE /\ pq' = pq
            BY <2>2, <3>2
        <3> QED
            BY <1>6, <2>1, <3>1, <3>3
    <2>3. CASE ~(pq = EmptyBag /\ poll' = [poll EXCEPT !.pc = "wait", !.until = -1] /\ sleeping' = TRUE /\ UNCHANGED pq)
        <3>1. PICK i \in DOMAIN pq : /\ \A x \in Priorities : i[2] <= x
                 /\ IF i[2] <= now
                    THEN pq' = pq (-) SetToBag({i}) /\ poll' = [poll EXCEPT !.pc = "send", !.b = i[1]] /\ UNCHANGED sleeping
                    ELSE poll' = [poll EXCEPT !.pc = "wait", !.until = i[2]] /\ sleeping' = TRUE /\ UNCHANGED pq
            BY <1>7, <2>3 DEF PollPeek, BagToSet
        <3>2. CASE i[2] <= now
            BY <1>5, <2>1, <3>1, <3>2
        <3>3. CASE ~(i[2] <= now)
            <4>1. i[2] \in Int /\ now \in Nat
                BY <1>1 DEF DelayTypeOK, Delays, TimersTypeOK
            <4>2. i[2] # -1 /\ \A x \in DOMAIN pq : i[2] <= x[2]
                BY <3>1, <3>3, <4>1 DEF Priorities, BagToSet
            <4> QED
                BY <1>6, <2>1, <3>1, <3>3, <4>1, <4>2
        <3> QED
            BY <3>2, <3>3
    <2> QED
        BY <2>2, <2>3
<1>8. CASE PollDeadline
    <2>1. poll.pc = "wait" /\ sleeping' = FALSE /\ poll' = [poll EXCEPT !.pc = IF sleeping THEN "peek" ELSE "drain"] /\ pq' = pq
        BY <1>8 DEF PollDeadline
    <2>2. CASE sleeping = TRUE
        <3>1. poll'.pc = "peek" /\ DelayTypeOK'
            BY <1>1, <2>1, <2>2 DEF DelayTypeOK
        <3>2. SleepOK' /\ HeadOK'
            BY <1>1, <1>2, <2>1, <2>2, <3>1 DEF SleepOK, HeadOK
        <3> QED
            BY <1>3, <1>4, <2>1, <3>1, <3>2
    <2>3. CASE sleeping = FALSE
        <3>1. poll'.pc = "drain" /\ DelayTypeOK'
            BY <1>1, <2>1, <2>3 DEF DelayTypeOK
        <3>2. SleepOK' /\ HeadOK'
            BY <1>1, <1>2, <2>1, <2>3, <3>1 DEF SleepOK, HeadOK
        <3> QED
            BY <1>3, <1>4, <2>1, <3>1, <3>2
    <2> QED
        BY <1>1, <2>2, <2>3 DEF DelayTypeOK
<1> QED
    BY <1>7, <1>8

\* The goroutine of the wheel: the bucket goes from Poll over the channel into its hands and
\* stays there until its list is empty; its expiration is reset behind that.
LEMMA WheelKeeps ==
    ASSUME TimersInv, DelayInv, ~exit, PollSend \/ Advance \/ FlushLock \/ FlushUnlock \/ FlushUnmark
    PROVE  DelayKept
<1>1. /\ TimersTypeOK /\ QueuedOK /\ BusyOK /\ DelayTypeOK /\ MarkedOK /\ AnnouncedOK /\ SleepOK /\ HeadOK
      /\ UNCHANGED <<list, timer, pq, sleeping, stranded>> /\ (proc[Wheel].pc \in Between => flushing = NoBucket)
    BY DEF TimersInv, DelayInv, RestingOK, PollSend, Advance, FlushLock, FlushUnlock, FlushUnmark, timing, buckets, outcome, delayQueue
<1>2. Wheel \in Procs /\ proc \in [Procs -> ProcRecords] /\ proc[Wheel] \in ProcRecords
    BY <1>1 DEF Procs, TimersTypeOK
<1>3. proc[Wheel].pc \in {"recv", "advance", "lock", "flush", "unmark"} /\ proc'[Wheel].pc \in {"recv", "advance", "lock", "flush", "unmark"}
      /\ OthersStay(Wheel)
    <2>1. \A q \in Procs : q # Wheel => proc'[q] = proc[q]
        BY <1>2 DEF PollSend, Advance, FlushLock, FlushUnlock, FlushUnmark, Goto
    <2> QED
        BY <1>2, <2>1 DEF PollSend, Advance, FlushLock, FlushUnlock, FlushUnmark, Goto, ProcRecords, OthersStay, Same
<1>4. KeepsMarks /\ Senders' = Senders /\ Winners' = Winners /\ \A b \in Buckets : (Offered(b) => Offered(b)') /\ (Waits(b) => Waits(b)')
    BY <1>1, <1>2, <1>3, OneGoesOn DEF Waits
<1>5. SleepOK' /\ HeadOK' /\ DelayTypeOK'
    <2>1. CASE PollSend
        <3>1. poll.pc = "send" /\ poll' = [poll EXCEPT !.pc = "peek"] /\ expiration' = expiration
            BY <2>1 DEF PollSend
        <3>2. DelayTypeOK' /\ poll'.pc = "peek"
            BY <1>1, <3>1 DEF DelayTypeOK
        <3> QED
            BY <1>1, <1>4, <3>1, <3>2 DEF SleepOK, HeadOK
    <2>2. CASE Advance \/ FlushLock \/ FlushUnlock \/ FlushUnmark
        <3>1. poll' = poll
            BY <2>2 DEF Advance, FlushLock, FlushUnlock, FlushUnmark, delayQueue
        <3>2. expiration' \in [Buckets -> Int]
            BY <1>1, <2>2 DEF Advance, FlushLock, FlushUnlock, FlushUnmark, DelayTypeOK
        <3> QED
            BY <1>1, <1>4, <3>1, <3>2, SleepKept DEF DelayTypeOK
    <2> QED
        BY <2>1, <2>2
<1>6. ASSUME KeepsWay, expiration' = expiration PROVE MarkedOK' /\ AnnouncedOK'
    BY <1>1, <1>4, <1>6, WaysKept DEF NoneAdded
<1>7. CASE PollSend
    <2>1. poll.pc = "send" /\ proc[Wheel].pc = "recv" /\ expiration' = expiration /\ flushing' = flushing
          /\ proc' = [proc EXCEPT ![Wheel].pc = "advance", ![Wheel].b = poll.b]
        BY <1>7 DEF PollSend, buckets
    <2>2. proc'[Wheel].pc = "advance" /\ proc'[Wheel].b = poll.b
        <3>1. poll.b \in Places
            BY <1>1 DEF DelayTypeOK
        <3> QED
            BY <1>2, <2>1, <3>1 DEF ProcRecords
    <2>3. KeepsWay
        BY <1>4, <2>1, <2>2 DEF KeepsWay, OnItsWay, InHand, Unmarks
    <2> QED
        BY <1>1, <1>5, <1>6, <2>1, <2>3 DEF DelayKept, Between
<1>8. CASE Advance
    <2>1. proc[Wheel].pc = "advance" /\ Goto(Wheel, "lock") /\ UNCHANGED <<expiration, flushing, poll>>
        BY <1>8 DEF Advance, buckets, delayQueue
    <2>2. proc'[Wheel].pc = "lock" /\ proc'[Wheel].b = proc[Wheel].b
        BY <1>1, <1>2, <2>1, GotoPlaces
    <2>3. KeepsWay
        BY <1>4, <2>1, <2>2 DEF KeepsWay, OnItsWay, InHand, Unmarks
    <2> QED
        BY <1>1, <1>5, <1>6, <2>1, <2>3 DEF DelayKept, Between
<1>9. CASE FlushLock
    <2>1. proc[Wheel].pc = "lock" /\ flushing' = proc[Wheel].b /\ Goto(Wheel, "flush") /\ UNCHANGED <<expiration, poll>>
        BY <1>9 DEF FlushLock, Goto, delayQueue
    <2>2. proc'[Wheel].pc = "flush" /\ flushing = NoBucket
        BY <1>1, <1>2, <2>1, GotoPlaces DEF Between
    <2>3. KeepsWay
        BY <1>4, <2>1, <2>2, NoBucketIsNone DEF KeepsWay, OnItsWay, InHand, Unmarks
    <2> QED
        BY <1>5, <1>6, <2>1, <2>2, <2>3 DEF DelayKept, Between
<1>10. CASE FlushUnlock
    <2>1. /\ proc[Wheel].pc = "flush" /\ list[flushing] = <<>> /\ flushing' = NoBucket /\ UNCHANGED <<expiration, poll>>
          /\ proc' = [proc EXCEPT ![Wheel].pc = "unmark", ![Wheel].b = flushing]
        BY <1>10 DEF FlushUnlock, delayQueue
    <2>2. flushing \in Buckets
        BY <1>1, <2>1 DEF QueuedOK, Between
    <2>3. proc'[Wheel].pc = "unmark" /\ proc'[Wheel].b = flushing
        <3>1. flushing \in Places
            BY <2>2 DEF Places
        <3> QED
            BY <1>2, <2>1, <3>1 DEF ProcRecords
    <2>4. \A b \in Buckets : (OnItsWay(b) => OnItsWay(b)' \/ b = flushing) /\ ~Unmarks(b) /\ (b = flushing => Unmarks(b)')
        BY <1>4, <2>1, <2>3 DEF OnItsWay, InHand, Unmarks
    <2>5. MarkedOK'
        BY <1>1, <2>1, <2>4 DEF MarkedOK
    <2>6. ASSUME NEW b \in Buckets, NEW i \in 1..Len(list[b])
          PROVE  list[b][i] \in stranded' \/ (\E q \in Procs : proc'[q].pc = "mark" /\ proc'[q].t = list[b][i] /\ proc'[q].b = b) \/ OnItsWay(b)'
        <3>1. b # flushing
            BY <2>1, <2>6
        <3>2. PICK t \in Timers : t = list[b][i]
            BY <1>1, <2>6 DEF TimersTypeOK
        <3>3. t \in stranded' \/ Marking(t, b)' \/ OnItsWay(b)'
            BY <1>1, <1>4, <2>4, <2>6, <3>1, <3>2 DEF AnnouncedOK, KeepsMarks
        <3> QED
            BY <3>2, <3>3 DEF Marking
    <2>7. AnnouncedOK'
        BY <1>1, <2>6 DEF AnnouncedOK, Marking
    <2> QED
        BY <1>5, <2>1, <2>5, <2>7 DEF DelayKept
<1>11. CASE FlushUnmark
    <2>1. /\ proc[Wheel].pc = "unmark" /\ expiration' = [expiration EXCEPT ![proc[Wheel].b] = -1] /\ UNCHANGED <<flushing, poll>>
          /\ Goto(Wheel, "recv")
        BY <1>11 DEF FlushUnmark, delayQueue, buckets
    <2>2. proc'[Wheel].pc = "recv"
        BY <1>1, <1>2, <2>1, GotoPlaces
    <2>3. \A b \in Buckets : (OnItsWay(b) => OnItsWay(b)') /\ (Unmarks(b) => b = proc[Wheel].b)
        BY <1>4, <2>1, <2>2 DEF OnItsWay, InHand, Unmarks
    <2>4. MarkedOK'
        BY <1>1, <2>1, <2>3 DEF MarkedOK, DelayTypeOK
    <2>5. ASSUME NEW b \in Buckets, NEW i \in 1..Len(list[b])
          PROVE  list[b][i] \in stranded' \/ (\E q \in Procs : proc'[q].pc = "mark" /\ proc'[q].t = list[b][i] /\ proc'[q].b = b) \/ OnItsWay(b)'
        <3>1. PICK t \in Timers : t = list[b][i]
            BY <1>1, <2>5 DEF TimersTypeOK
        <3>2. t \in stranded' \/ Marking(t, b)' \/ OnItsWay(b)'
            BY <1>1, <1>4, <2>3, <2>5, <3>1 DEF AnnouncedOK, KeepsMarks
        <3> QED
            BY <3>1, <3>2 DEF Marking
    <2>6. AnnouncedOK'
        BY <1>1, <2>5 DEF AnnouncedOK, Marking
    <2> QED
        BY <1>1, <1>5, <2>1, <2>4, <2>6 DEF DelayKept, Between
<1> QED
    BY <1>7, <1>8, <1>9, <1>10, <1>11

\* The steps that have no part in the delay queue: add on its way to a bucket or to a task,
\* Stop, Flush taking a timer out, and what actors do besides.
LEMMA ApartSteps ==
    ASSUME TimersInv, DelayInv, ~exit,
           \/ \E a \in Clients : AddTimer(a) \/ RemoveTimer(a) \/ ActorSteps(a)
           \/ \E p \in Procs : Load(p) \/ Run(p) \/ Task(p) \/ StopBucket(p) \/ BucketRemove(p)
           \/ FlushNext \/ Clock
    PROVE  Apart /\ NoneAdded /\ UNCHANGED <<expiration, pq, poll, sleeping, flushing, stranded, exit>>
<1>1. TimersTypeOK /\ proc \in [Procs -> ProcRecords] /\ QueuedOK /\ RestingOK
    BY DEF TimersInv, TimersTypeOK, DelayInv
<1>2. Clients \subseteq Procs /\ Wheel \in Procs /\ Timers \subseteq Procs
    BY DEF Procs
<1>3. CASE \E a \in Clients : AddTimer(a) \/ RemoveTimer(a) \/ ActorSteps(a)
    <2>1. PICK a \in Clients : AddTimer(a) \/ RemoveTimer(a) \/ ActorSteps(a)
        BY <1>3
    <2>2. UNCHANGED <<expiration, pq, poll, sleeping, flushing, stranded, exit, list>>
        BY <2>1 DEF AddTimer, RemoveTimer, ActorSteps, AddTimerInfo, Removed, InvokeFunc, AfterFunc, TimerStop, wheelVars, timing,
                    buckets, delayQueue, outcome
    <2>3. CASE ActorSteps(a)
        BY <2>2, <2>3 DEF ActorSteps, AddTimerInfo, Removed, InvokeFunc, wheelVars, Apart, Same, NoneAdded
    <2>4. CASE AddTimer(a) \/ RemoveTimer(a)
        <3>1. proc[a].pc = "idle"
            BY <1>1, <2>4 DEF RestingOK, AddTimer, RemoveTimer
        <3>2. PICK z : proc' = [proc EXCEPT ![a] = z] /\ z.pc \in {"load", "bucket"}
            <4>1. ASSUME NEW t PROVE [Idle EXCEPT !.pc = "load", !.t = t].pc = "load" /\ [Idle EXCEPT !.pc = "bucket", !.t = t].pc = "bucket"
                BY DEF Idle
            <4>2. \E t : proc' = [proc EXCEPT ![a] = [Idle EXCEPT !.pc = "load", !.t = t]] \/ proc' = [proc EXCEPT ![a] = [Idle EXCEPT !.pc = "bucket", !.t = t]]
                <5>1. CASE AddTimer(a)
                    BY <5>1 DEF AddTimer, AfterFunc
                <5>2. CASE RemoveTimer(a)
                    BY <5>2 DEF RemoveTimer, TimerStop
                <5> QED
                    BY <2>4, <5>1, <5>2
            <4>3. PICK t : proc' = [proc EXCEPT ![a] = [Idle EXCEPT !.pc = "load", !.t = t]] \/ proc' = [proc EXCEPT ![a] = [Idle EXCEPT !.pc = "bucket", !.t = t]]
                BY <4>2
            <4>4. CASE proc' = [proc EXCEPT ![a] = [Idle EXCEPT !.pc = "load", !.t = t]]
                BY <4>1, <4>4
            <4>5. CASE proc' = [proc EXCEPT ![a] = [Idle EXCEPT !.pc = "bucket", !.t = t]]
                BY <4>1, <4>5
            <4> QED
                BY <4>3, <4>4, <4>5
        <3>3. \A q \in Procs : q # a => proc'[q] = proc[q]
            BY <1>1, <3>2
        <3>4. proc'[a].pc \in {"load", "bucket"}
            BY <1>1, <1>2, <3>2
        <3> QED
            BY <2>2, <3>1, <3>3, <3>4 DEF Apart, Same, Parts, Between, NoneAdded
    <2> QED
        BY <2>1, <2>3, <2>4
<1>4. ASSUME NEW p \in Procs, Load(p) \/ Run(p) \/ Task(p) \/ StopBucket(p)
      PROVE  Apart /\ NoneAdded /\ UNCHANGED <<expiration, pq, poll, sleeping, flushing, stranded, exit>>
    <2>1. UNCHANGED <<expiration, pq, poll, sleeping, flushing, stranded, exit, list>>
        BY <1>4 DEF Load, Run, Task, StopBucket, timing, buckets, delayQueue, outcome
    <2>2. proc[p].pc \in {"load", "run", "task", "bucket"}
        BY <1>4 DEF Load, Run, Task, StopBucket
    <2>3. \A q \in Procs : \/ Same(q)
                           \/ q = p /\ proc'[q].pc \in {"run", "insert", "load", "task", "flush", "idle", "remove"}
                           \/ proc[q].pc = "idle" /\ proc'[q].pc = "run"
        <3>1. CASE Load(p)
            <4>1. Goto(p, "run") \/ (\E b : proc' = [proc EXCEPT ![p].pc = "insert", ![p].b = b]) \/ (\E l : proc' = [proc EXCEPT ![p].level = l])
                BY <3>1 DEF Load
            <4> QED
                BY <1>1, <2>2, <4>1 DEF Goto, ProcRecords, Same
        <3>2. CASE Task(p)
            <4>1. PICK x, n : proc' = [proc EXCEPT ![p].runs = n, ![p].pc = x] /\ x \in {"task", "flush", "idle"}
                BY <3>2 DEF Task, Back
            <4> QED
                BY <1>1, <4>1 DEF ProcRecords, Same
        <3>3. CASE StopBucket(p)
            <4>1. PICK x, b : proc' = [proc EXCEPT ![p].b = b, ![p].pc = x] /\ x \in {"idle", "remove"}
                BY <3>3 DEF StopBucket
            <4> QED
                BY <1>1, <4>1 DEF ProcRecords, Same
        <3>4. CASE Run(p)
            <4>1. CASE Return(p)
                BY <1>1, <4>1, ReturnPlaces DEF OthersStay
            <4>2. CASE \E n : proc' = [proc EXCEPT ![p].pc = "load", ![p].level = 1, ![p].runs = n]
                BY <1>1, <4>2 DEF ProcRecords, Same
            <4>3. CASE \E t, x : /\ t # p /\ proc[t].pc = "idle" /\ x \in {"task", "flush", "idle"}
                                 /\ proc' = [proc EXCEPT ![p].pc = x, ![t].pc = "run", ![t].t = t]
                <5>1. PICK t, x : /\ t # p /\ proc[t].pc = "idle" /\ x \in {"task", "flush", "idle"}
                                  /\ proc' = [proc EXCEPT ![p].pc = x, ![t].pc = "run", ![t].t = t]
                    BY <4>3
                <5>2. \A q \in Procs : q # p /\ q # t => proc'[q] = proc[q]
                    BY <1>1, <5>1
                <5>3. proc'[p] = [proc[p] EXCEPT !.pc = x]
                    BY <1>1, <5>1
                <5>4. proc'[p].pc = x
                    BY <1>1, <5>3 DEF ProcRecords
                <5>5. t \in Procs => proc'[t].pc = "run"
                    BY <1>1, <5>1 DEF ProcRecords
                <5> QED
                    BY <5>1, <5>2, <5>4, <5>5 DEF Same
            <4>4. CASE timer[proc[p].t].async /\ p # proc[p].t
                <5>1. Back(p, proc[p].runs) \in {"task", "flush", "idle"}
                    BY DEF Back
                <5>2. /\ proc[proc[p].t].pc = "idle"
                      /\ proc' = [proc EXCEPT ![p].pc = Back(p, proc[p].runs), ![proc[p].t].pc = "run", ![proc[p].t].t = proc[p].t]
                    BY <3>4, <4>4 DEF Run
                <5> QED
                    BY <4>3, <4>4, <5>1, <5>2
            <4>5. CASE ~(timer[proc[p].t].async /\ p # proc[p].t)
                BY <3>4, <4>1, <4>2, <4>5 DEF Run
            <4> QED
                BY <4>4, <4>5
        <3> QED
            BY <1>4, <3>1, <3>2, <3>3, <3>4
    <2> QED
        BY <2>1, <2>2, <2>3 DEF Apart, Parts, Between, NoneAdded
<1>5. ASSUME NEW p \in Procs, BucketRemove(p)
      PROVE  Apart /\ NoneAdded /\ UNCHANGED <<expiration, pq, poll, sleeping, flushing, stranded, exit>>
    <2>1. UNCHANGED <<expiration, pq, poll, sleeping, flushing, stranded, exit>>
        BY <1>5 DEF BucketRemove, timing, delayQueue, outcome
    <2>2. PICK t, c : c \in Buckets /\ (list' = [list EXCEPT ![c] = RemoveFirst(@, t)] \/ list' = [list EXCEPT ![c] = @])
        BY <1>5 DEF BucketRemove, TimersInv, BusyOK
    <2>3. NoneAdded
        <3> SUFFICES ASSUME NEW b \in Buckets, NEW i \in 1..Len(list'[b]) PROVE \E j \in 1..Len(list[b]) : list'[b][i] = list[b][j]
            BY DEF NoneAdded
        <3>1. CASE list'[b] = list[b]
            BY <3>1
        <3>2. CASE b = c /\ list'[b] = RemoveFirst(list[b], t)
            <4>1. OnceEach(list[b]) /\ list[b] \in Seq(Timers)
                BY <1>1 DEF TimersInv, PlacedOK, OnceEach, TimersTypeOK
            <4> QED
                BY <3>2, <4>1, UnlinkedList DEF Without
        <3> QED
            BY <1>1, <2>2, <3>1, <3>2 DEF TimersTypeOK
    <2>4. proc[p].pc = "remove" /\ \E h : proc' = [proc EXCEPT ![p].pc = "bucket", ![p].stopped = h]
        BY <1>5 DEF BucketRemove
    <2>5. Apart
        BY <1>1, <2>4 DEF Apart, Same, Parts, Between, ProcRecords
    <2> QED
        BY <2>1, <2>3, <2>5
<1>6. CASE FlushNext
    <2>1. UNCHANGED <<expiration, pq, poll, sleeping, flushing, stranded, exit>> /\ list[flushing] # <<>>
          /\ proc[Wheel].pc = "flush" /\ list' = [list EXCEPT ![flushing] = Tail(@)]
        BY <1>6 DEF FlushNext, timing, delayQueue, outcome
    <2>2. flushing \in Buckets
        BY <1>1, <2>1 DEF QueuedOK, Between
    <2>3. NoneAdded
        <3> SUFFICES ASSUME NEW b \in Buckets, NEW i \in 1..Len(list'[b]) PROVE \E j \in 1..Len(list[b]) : list'[b][i] = list[b][j]
            BY DEF NoneAdded
        <3>1. list[b] \in Seq(Timers) /\ Len(list[b]) \in Nat
            BY <1>1 DEF TimersTypeOK
        <3>2. CASE b = flushing
            <4>1. list'[b] = Tail(list[b])
                BY <1>1, <2>1, <2>2, <3>2 DEF TimersTypeOK
            <4>2. Len(Tail(list[b])) = Len(list[b]) - 1 /\ \A j \in 1..Len(list[b]) - 1 : Tail(list[b])[j] = list[b][j + 1]
                BY <2>1, <3>1, <3>2
            <4> QED
                BY <3>1, <4>1, <4>2
        <3>3. CASE b # flushing
            BY <1>1, <2>1, <3>3 DEF TimersTypeOK
        <3> QED
            BY <3>2, <3>3
    <2>4. \E t : proc' = [proc EXCEPT ![Wheel].pc = "load", ![Wheel].t = t, ![Wheel].level = 1]
        BY <1>6 DEF FlushNext
    <2>5. Apart
        BY <1>1, <1>2, <2>1, <2>4 DEF Apart, Same, Parts, Between, ProcRecords
    <2> QED
        BY <2>1, <2>3, <2>5
<1>7. CASE Clock
    BY <1>7 DEF Clock, buckets, delayQueue, outcome, Apart, Same, NoneAdded
<1> QED
    BY <1>3, <1>4, <1>5, <1>6, <1>7

\* A call of Add or Remove is over when the wheel is done with it.
LEMMA ReadyRests ==
    ASSUME TimersInv, DelayInv, ~exit, [TimerNext]_timerVars
    PROVE  \A a \in Clients : apc'[a] = "ready" => proc'[a].pc = "idle"
<1>1. /\ proc \in [Procs -> ProcRecords] /\ apc \in [Clients -> {"ready", "adding", "removing"}] /\ BusyOK
      /\ \A a \in Clients : apc[a] = "ready" => proc[a].pc = "idle"
    BY DEF TimersInv, TimersTypeOK, DelayInv, RestingOK
<1>2. Wheel \notin Clients /\ Wheel \in Procs /\ Clients \subseteq Procs /\ \A t \in Timers : t \notin Clients
    BY TimeWheelAssumption DEF Procs
<1>3. CASE \E a \in Clients : AddTimer(a) \/ RemoveTimer(a)
    <2>1. PICK a \in Clients : AddTimer(a) \/ RemoveTimer(a)
        BY <1>3
    <2>2. apc' = [apc EXCEPT ![a] = "adding"] \/ apc' = [apc EXCEPT ![a] = "removing"]
        BY <2>1 DEF AddTimer, RemoveTimer
    <2>3. \E z : proc' = [proc EXCEPT ![a] = z]
        BY <2>1 DEF AddTimer, RemoveTimer, AfterFunc, TimerStop
    <2> QED
        BY <1>1, <1>2, <2>2, <2>3
<1>4. CASE \E a \in Clients : ActorSteps(a)
    <2>1. PICK a \in Clients : ActorSteps(a)
        BY <1>4
    <2>2. proc' = proc /\ (apc' = apc \/ (proc[a].pc = "idle" /\ apc' = [apc EXCEPT ![a] = "ready"]))
        BY <2>1 DEF ActorSteps, AddTimerInfo, Removed, InvokeFunc, wheelVars
    <2> QED
        BY <1>1, <2>2
<1>5. ASSUME NEW p \in Procs, WheelSteps(p) PROVE apc' = apc /\ \A a \in Clients : proc[a].pc = "idle" => proc'[a] = proc[a]
    <2>1. apc' = apc
        BY <1>5 DEF WheelSteps, actorTimerVars
    <2>2. proc[p].pc \in {"load", "insert", "mark", "offer", "wake", "wakeup", "run", "task", "bucket", "remove"}
        BY <1>5 DEF WheelSteps, Adding, Stopping, Load, Insert, Mark, Offer, Wake, PollWoken, Run, Task, StopBucket, BucketRemove
    <2>3. proc[p].t \in Timers
        BY <1>1, <2>2 DEF BusyOK
    <2>4. \A q \in Procs : q # p /\ q # proc[p].t => proc'[q] = proc[q]
        <3>1. CASE Load(p)
            BY <1>1, <3>1 DEF Load, Goto
        <3>2. CASE Run(p)
            BY <1>1, <3>2 DEF Run, Return, Goto
        <3>3. CASE Task(p) \/ StopBucket(p) \/ BucketRemove(p)
            BY <1>1, <3>3 DEF Task, StopBucket, BucketRemove
        <3>4. CASE \E x : Goto(p, x)
            BY <1>1, <3>4 DEF Goto
        <3>5. CASE Insert(p) \/ Mark(p) \/ Offer(p) \/ Wake(p) \/ PollWoken(p)
            BY <3>4, <3>5 DEF Insert, Mark, Offer, Wake, PollWoken, Return
        <3> QED
            BY <1>5, <3>1, <3>2, <3>3, <3>5 DEF WheelSteps, Adding, Stopping
    <2> QED
        BY <1>2, <2>1, <2>2, <2>3, <2>4
<1>6. ASSUME Goroutines \/ ((Clock \/ WheelStop \/ UNCHANGED wheelVars) /\ UNCHANGED actorTimerVars)
      PROVE  apc' = apc /\ \A a \in Clients : proc'[a] = proc[a]
    <2>1. apc' = apc
        BY <1>6 DEF Goroutines, actorTimerVars
    <2>2. \A q \in Procs : q # Wheel => proc'[q] = proc[q]
        <3>1. CASE Goroutines
            BY <1>1, <3>1 DEF Goroutines, Polling, Flushing, PollPeek, PollDeadline, PollSend, PollExit, Advance, FlushLock, FlushNext,
                              FlushUnlock, FlushUnmark, WheelExit, Goto
        <3>2. CASE Clock \/ WheelStop \/ UNCHANGED wheelVars
            BY <3>2 DEF Clock, WheelStop, wheelVars
        <3> QED
            BY <1>6, <3>1, <3>2
    <2> QED
        BY <1>2, <2>1, <2>2
<1> QED
    BY <1>1, <1>3, <1>4, <1>5, <1>6 DEF TimerNext, timerVars

\* What TimersInv promises and the steps of the wheel keep is true of every state; behind
\* Stop nothing is promised, and the wheel does not start again.
LEMMA NextDelayInv ==
    ASSUME TimersInv, DelayInv, [TimerNext]_timerVars
    PROVE  DelayInv'
<1> SUFFICES ASSUME ~exit' PROVE DelayTypeOK' /\ RestingOK' /\ MarkedOK' /\ AnnouncedOK' /\ SleepOK' /\ HeadOK'
    BY DEF DelayInv
<1>1. ~exit /\ ~PollExit /\ ~WheelExit /\ ~WheelStop
    <2>1. exit => exit'
        <3>1. CASE \E p \in Procs : WheelSteps(p)
            BY <3>1 DEF WheelSteps, Adding, Stopping, Load, Insert, Mark, Offer, Wake, Run, Task, PollWoken, StopBucket, BucketRemove, timing
        <3>2. CASE \E a \in Clients : AddTimer(a) \/ RemoveTimer(a) \/ ActorSteps(a)
            BY <3>2 DEF AddTimer, RemoveTimer, ActorSteps, AddTimerInfo, Removed, InvokeFunc, AfterFunc, TimerStop, wheelVars, timing
        <3>3. CASE Polling
            BY <3>3 DEF Polling, PollPeek, PollDeadline, PollSend, PollExit, timing
        <3>4. CASE Flushing
            BY <3>4 DEF Flushing, Advance, FlushLock, FlushNext, FlushUnlock, FlushUnmark, WheelExit, timing
        <3>5. CASE Clock \/ WheelStop \/ UNCHANGED timerVars
            BY <3>5 DEF Clock, WheelStop, timerVars, wheelVars, timing
        <3> QED
            BY <3>1, <3>2, <3>3, <3>4, <3>5 DEF TimerNext, Goroutines
    <2>2. (PollExit \/ WheelExit => exit' = exit /\ exit) /\ (WheelStop => exit' = TRUE)
        BY DEF PollExit, WheelExit, WheelStop, timing
    <2> QED
        BY <2>1, <2>2
<1>2. \A a \in Clients : apc'[a] = "ready" => proc'[a].pc = "idle"
    BY <1>1, ReadyRests
<1>3. DelayKept
    <2>1. CASE \/ \E a \in Clients : AddTimer(a) \/ RemoveTimer(a) \/ ActorSteps(a)
               \/ \E p \in Procs : Load(p) \/ Run(p) \/ Task(p) \/ StopBucket(p) \/ BucketRemove(p)
               \/ FlushNext \/ Clock
        BY <1>1, <2>1, ApartSteps, ApartKeeps DEF TimersInv
    <2>2. ASSUME NEW p \in Procs, Insert(p) \/ Mark(p) \/ Offer(p) \/ Wake(p) \/ PollWoken(p) PROVE DelayKept
        BY <1>1, <2>2, InsertKeeps, SetExpirationKeeps, OfferKeeps, WakeKeeps
    <2>3. CASE PollPeek \/ PollDeadline
        BY <1>1, <2>3, PollKeeps
    <2>4. CASE PollSend \/ Advance \/ FlushLock \/ FlushUnlock \/ FlushUnmark
        BY <1>1, <2>4, WheelKeeps
    <2>5. CASE UNCHANGED timerVars
        <3>1. Apart /\ NoneAdded /\ UNCHANGED <<expiration, pq, poll, sleeping, flushing, stranded>>
            BY <2>5 DEF timerVars, wheelVars, buckets, delayQueue, outcome, Apart, Same, NoneAdded
        <3> QED
            BY <1>1, <3>1, ApartKeeps DEF TimersInv
    <2> QED
        BY <1>1, <2>1, <2>2, <2>3, <2>4, <2>5 DEF TimerNext, WheelSteps, Adding, Stopping, Goroutines, Polling, Flushing
<1> QED
    BY <1>2, <1>3 DEF DelayKept, RestingOK

\* No timer is forgotten in a bucket, and no wake-up of the delay queue is lost, whoever adds,
\* offers, stops, flushes and polls at the same time, but for the timers that Flush has
\* stranded (bucket.Add, SetExpiration, DelayQueue.Offer and Poll, Flush).
THEOREM NoBucketIsForgotten == TimerSpec => []NothingForgotten
<1>1. ActorTimerInit => DelayInv
    <2> SUFFICES ASSUME ActorTimerInit PROVE DelayInv
        OBVIOUS
    <2>1. /\ expiration = [b \in Buckets |-> -1] /\ list = [b \in Buckets |-> <<>>] /\ pq = EmptyBag /\ sleeping = FALSE
          /\ poll = [pc |-> "peek", b |-> NoBucket, until |-> -1] /\ flushing = NoBucket
        BY DEF ActorTimerInit, WheelInit
    <2>2. Wheel \in Procs /\ Clients \subseteq Procs /\ Wheel \notin Clients
        BY TimeWheelAssumption DEF Procs
    <2>3. \A p \in Procs : proc[p].pc = (IF p = Wheel THEN "recv" ELSE "idle")
        <3>1. proc = [p \in Procs |-> IF p = Wheel THEN [Idle EXCEPT !.pc = "recv"] ELSE Idle]
            BY DEF ActorTimerInit, WheelInit
        <3>2. [Idle EXCEPT !.pc = "recv"].pc = "recv" /\ Idle.pc = "idle"
            BY DEF Idle
        <3> QED
            BY <3>1, <3>2
    <2>4. DelayTypeOK
        <3>1. DOMAIN pq = {}
            BY <2>1 DEF EmptyBag, SetToBag
        <3>2. NoBucket \in Places
            BY DEF Places
        <3>3. expiration \in [Buckets -> Int] /\ sleeping \in BOOLEAN
            <4>1. expiration = [b \in Buckets |-> -1] /\ -1 \in Int
                BY <2>1
            <4>2. expiration \in [Buckets -> Int]
                BY <4>1
            <4>3. sleeping \in BOOLEAN
                BY <2>1
            <4> QED
                BY <4>2, <4>3
        <3>4. poll \in [pc : {"peek", "send", "wait", "drain", "done"}, b : Places, until : Int]
            BY <2>1, <3>2
        <3> QED
            BY <3>1, <3>3, <3>4 DEF DelayTypeOK
    <2>5. RestingOK
        BY <2>1, <2>2, <2>3 DEF RestingOK
    <2>6. MarkedOK /\ AnnouncedOK
        BY <2>1 DEF MarkedOK, AnnouncedOK
    <2>7. SleepOK /\ HeadOK
        <3>1. poll.pc = "peek" /\ Senders = {}
            BY <2>1, <2>3 DEF Senders
        <3> QED
            BY <2>1, <3>1 DEF SleepOK, HeadOK
    <2> QED
        BY <2>4, <2>5, <2>6, <2>7 DEF DelayInv
<1>2. TimersInv /\ DelayInv /\ [TimerNext]_timerVars => DelayInv'
    BY NextDelayInv
<1>3. TimersInv /\ DelayInv => NothingForgotten
    <2> SUFFICES ASSUME TimersInv, DelayInv, ~exit PROVE NothingForgotten
        BY DEF NothingForgotten
    <2>1. \A b \in Buckets : DOMAIN list[b] = 1..Len(list[b])
        BY DEF TimersInv, TimersTypeOK
    <2>2. poll.pc \in {"wait", "drain"} /\ Senders = {} => poll.pc = "wait" /\ sleeping = TRUE
        BY DEF DelayInv, DelayTypeOK, SleepOK
    <2>3. Senders # {} => \E p \in Senders : Senders = {p}
        BY DEF DelayInv, SleepOK
    <2> QED
        BY <2>1, <2>2, <2>3 DEF DelayInv, AnnouncedOK, SleepOK, HeadOK, NothingForgotten
<1> QED
    BY <1>1, <1>2, <1>3, TimersInvariant, PTL DEF TimerSpec
=============================================================================
