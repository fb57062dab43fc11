----------------------------- MODULE Application -----------------------------
(***************************************************************************)
(* application.go and actorgo.go: the component list and the lifecycle     *)
(* that Startup drives.  A component is a name; what it does in its        *)
(* callbacks is left to it, but any callback may panic, and it may call    *)
(* Register or Remove, which only look at running.                         *)
(***************************************************************************)
EXTENDS Naturals, Sequences

CONSTANTS UserComponents,        \* the sequence AppBuilder.Register was given
          Late,                  \* a component that a callback registers
          Callers,               \* who calls Shutdown
          MaxFaults              \* bound: panics, and calls of Register or Remove in a callback

Builtin == <<"cluster", "discovery">>
SeqSet(s) == {s[i] : i \in 1..Len(s)}
Components == {"actor", Late} \cup SeqSet(Builtin \o UserComponents)

\* Register refuses a name that is taken; the built-in names are left to their owners.
Distinct(s) == \A i, j \in 1..Len(s) : s[i] = s[j] => i = j
ASSUME ComponentsAssumption ==
    /\ UserComponents \in Seq(SeqSet(UserComponents)) /\ Distinct(UserComponents)
    /\ SeqSet(UserComponents) \cap ({"actor"} \cup SeqSet(Builtin)) = {}

VARIABLES
    components,     \* a.components
    ranged, pos,    \* the slice a range loop goes over, and the index of a loop
    aphase,         \* where Startup is
    running,
    done,           \* history: the callbacks of each component so far
    caller,         \* Shutdown
    edits, panics

appVars == <<components, ranged, pos, aphase, running, done, caller, edits, panics>>

AppInit ==
    /\ components = <<>> /\ ranged = <<>> /\ pos = 0 /\ aphase = "build" /\ running = FALSE
    /\ done = [c \in Components |-> <<>>]
    /\ caller = [s \in Callers |-> "idle"] /\ edits = 0 /\ panics = 0
-----------------------------------------------------------------------------
\* Mutant: the actor system comes after the components it serves.
ActorSystemFirst_Last(list) == Append(list, "actor")
\* Startup puts the actor system before everything else.
ActorSystemFirst(list) == <<"actor">> \o list

\* AppBuilder.Startup: cluster and discovery first, when the node is in cluster mode.
Startup ==
    /\ aphase = "build" /\ aphase' = "Init" /\ pos' = 1
    /\ \E builtin \in {<<>>, Builtin} : components' = ActorSystemFirst(builtin \o UserComponents)
    /\ ranged' = components'
    /\ UNCHANGED <<running, done, caller, edits, panics>>

\* Find, by name.
Find(c) == c \in SeqSet(components)

\* Register does nothing for a running application or a name that is taken.
InCallback == aphase \in {"Init", "AfterInit", "BeforeStop", "Stop"}
Register(c) ==
    /\ InCallback /\ edits + panics < MaxFaults /\ ~running /\ ~Find(c)
    /\ components' = Append(components, c) /\ edits' = edits + 1
    /\ UNCHANGED <<ranged, pos, aphase, running, done, caller, panics>>

\* Remove closes the gap in place: a range loop over the list skips the component
\* that moves to its index and meets the last one twice.
RemoveComponent(c) ==
    /\ aphase # "build" /\ aphase # "ended" /\ edits + panics < MaxFaults /\ edits' = edits + 1
    /\ \E i \in 1..Len(components) :
          /\ components[i] = c
          /\ components' = SubSeq(components, 1, i - 1) \o SubSeq(components, i + 1, Len(components))
          /\ ranged' = IF ranged = <<>> THEN ranged
                       ELSE [k \in 1..Len(ranged) |-> IF k >= i /\ k < Len(ranged) THEN ranged[k + 1] ELSE ranged[k]]
    /\ UNCHANGED <<pos, aphase, running, done, caller, panics>>

Called(c, callback) == done' = [done EXCEPT ![c] = Append(@, callback)]
Panics == edits + panics < MaxFaults /\ panics' = panics + 1

\* Init and OnAfterInit, in order.  A panic ends Startup: nothing is stopped.
Starting ==
    /\ aphase \in {"Init", "AfterInit"} /\ pos <= Len(ranged) /\ Called(ranged[pos], aphase)
    /\ \/ pos' = pos + 1 /\ UNCHANGED <<aphase, panics>>
       \/ Panics /\ aphase' = "aborted" /\ UNCHANGED pos
    /\ UNCHANGED <<components, ranged, running, caller, edits>>

Started ==
    /\ pos = Len(ranged) + 1
    /\ \/ aphase = "Init" /\ aphase' = "AfterInit" /\ ranged' = components /\ pos' = 1 /\ UNCHANGED running
       \/ aphase = "AfterInit" /\ aphase' = "select" /\ ranged' = <<>> /\ pos' = 0 /\ running' = TRUE
    /\ UNCHANGED <<components, done, caller, edits, panics>>

\* Shutdown sends on dieChan, which has no buffer and one reader.
Shutdown(s) ==
    /\ caller[s] = "idle" /\ caller' = [caller EXCEPT ![s] = "send"]
    /\ UNCHANGED <<components, ranged, pos, aphase, running, done, edits, panics>>

\* The select between dieChan and the signals; the onShutdown functions follow.
Select(receive) ==
    /\ aphase = "select" /\ aphase' = "BeforeStop" /\ running' = FALSE /\ pos' = Len(components)
    /\ receive
    /\ UNCHANGED <<components, ranged, done, edits, panics>>
\* Mutant: the select has no case for dieChan.
SelectDie_NoCase == Select(FALSE /\ UNCHANGED caller)
SelectSignal == Select(UNCHANGED caller)
SelectDie == Select(\E s \in Callers : caller[s] = "send" /\ caller' = [caller EXCEPT ![s] = "returned"])

\* Mutant: the callbacks run without Try.
StopPanics_NoTry == Panics /\ aphase' = "aborted" /\ UNCHANGED pos
\* Try catches the panic of a callback.
StopPanics == Panics /\ pos' = pos - 1 /\ UNCHANGED aphase

\* OnBeforeStop and OnStop, in reverse order.  When the list has become shorter
\* than the index, the callback of Try fails like the function did: Startup ends.
StoppingNext(c) ==
    /\ aphase \in {"BeforeStop", "Stop"} /\ pos \in 1..Len(components) /\ components[pos] = c
    /\ Called(c, aphase)
    /\ \/ pos' = pos - 1 /\ UNCHANGED <<aphase, panics>>
       \/ StopPanics
    /\ UNCHANGED <<components, ranged, running, caller, edits>>

StopFails ==
    /\ aphase \in {"BeforeStop", "Stop"} /\ pos > Len(components) /\ aphase' = "aborted"
    /\ UNCHANGED <<components, ranged, pos, running, done, caller, edits, panics>>

Stopped ==
    /\ pos = 0
    /\ \/ aphase = "BeforeStop" /\ aphase' = "Stop" /\ pos' = Len(components)
       \/ aphase = "Stop" /\ aphase' = "ended" /\ UNCHANGED pos
    /\ UNCHANGED <<components, ranged, running, done, caller, edits, panics>>
Outside == Register(Late) \/ (\E c \in Components : RemoveComponent(c)) \/ (\E s \in Callers : Shutdown(s))
-----------------------------------------------------------------------------
Lifecycle == <<"Init", "AfterInit", "BeforeStop", "Stop">>
\* Every component that was started is stopped, by each callback once and in the
\* order Init, OnAfterInit, OnBeforeStop, OnStop, also when callbacks of the shutdown
\* panic.  The exceptions: a panic during the start, after which nothing is stopped,
\* and a list that a callback edits.
AllStopped ==
    /\ aphase = "ended" /\ edits = 0 => \A c \in SeqSet(components) : done[c] = Lifecycle
    /\ aphase = "aborted" /\ edits = 0 => \A c \in Components : "BeforeStop" \notin SeqSet(done[c])

\* Whoever calls Shutdown while the application runs brings it to an end, through all
\* callbacks and whatever panics.  (Who calls it at any other time, or second, blocks
\* for ever: dieChan has one reader, once.)
ShutdownEnds ==
    \A s \in Callers : caller[s] = "send" /\ aphase = "select" ~> aphase \in {"ended", "aborted"}
==============================================================================
