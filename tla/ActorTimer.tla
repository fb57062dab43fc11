----------------------------- MODULE ActorTimer -----------------------------
(***************************************************************************)
(* net/actor/actor_timer.go: the timers of an actor, on the wheel that all *)
(* actors share (net/actor/timer.go).  The clients of the wheel are the    *)
(* goroutines of the actors: each adds and removes its own timers and runs *)
(* the function of a timer whose ID the wheel has pushed on its queue.     *)
(***************************************************************************)
EXTENDS TimeWheel

CONSTANT TimerPlans   \* what the actors may do: the timers they make, in the order
                      \* of their IDs, and whether the wheel is stopped

ASSUME TimerPlansAssumption ==
    \A x \in TimerPlans : \A t \in DOMAIN x.timers :
        x.timers[t].delay \in Nat /\ {x.timers[t].periodic, x.timers[t].async, x.stop} \subseteq BOOLEAN

VARIABLES plan,
          apc,          \* what each actor is doing
          timerInfoMap, \* per actor
          ran,          \* how often the function of a timer has run
          silenced      \* history: the timers whose Stop returned true

actorTimerVars == <<plan, apc, timerInfoMap, ran, silenced>>

ActorTimerInit ==
    /\ WheelInit /\ plan \in TimerPlans
    /\ apc = [a \in Clients |-> "ready"] /\ timerInfoMap = [a \in Clients |-> {}]
    /\ ran = [t \in Timers |-> 0] /\ silenced = {}

\* NextID: the IDs are the numbers from 1 on.
NextID == {t \in Timers \cap DOMAIN plan.timers : timer[t].by = Wheel /\ \A u \in Timers : u < t => timer[u].by # Wheel}

\* Add and AddOnce; a delay below a millisecond is refused.
AddTimer(a) ==
    /\ apc[a] = "ready"
    /\ \E t \in NextID : LET new == plan.timers[t] IN
          /\ new.delay >= 1
          /\ AfterFunc(a, t, new.delay, IF new.periodic THEN new.delay ELSE 0, new.async)
    /\ apc' = [apc EXCEPT ![a] = "adding"]
    /\ UNCHANGED <<plan, timerInfoMap, ran, silenced>>

\* The wheel has the timer; addTimerInfo.
AddTimerInfo(a) ==
    /\ apc[a] = "adding" /\ proc[a].pc = "idle"
    /\ apc' = [apc EXCEPT ![a] = "ready"]
    /\ timerInfoMap' = [timerInfoMap EXCEPT ![a] = @ \cup {proc[a].t}]
    /\ UNCHANGED <<plan, wheelVars, ran, silenced>>

\* Remove of one timer, and RemoveAll when the actor stops.
RemoveTimer(a) ==
    /\ apc[a] = "ready" /\ \E t \in timerInfoMap[a] : TimerStop(a, t)
    /\ apc' = [apc EXCEPT ![a] = "removing"]
    /\ UNCHANGED <<plan, timerInfoMap, ran, silenced>>

Removed(a) ==
    /\ apc[a] = "removing" /\ proc[a].pc = "idle"
    /\ apc' = [apc EXCEPT ![a] = "ready"]
    /\ timerInfoMap' = [timerInfoMap EXCEPT ![a] = @ \ {proc[a].t}]
    /\ silenced' = IF proc[a].stopped THEN silenced \cup {proc[a].t} ELSE silenced
    /\ UNCHANGED <<plan, wheelVars, ran>>

\* Pop and invokeFunc: the function runs only while the map has the timer.
InvokeFunc(a) ==
    LET t == Head(due[a])  found == t \in timerInfoMap[a] IN
    /\ apc[a] = "ready" /\ due[a] # <<>> /\ due' = [due EXCEPT ![a] = Tail(@)]
    /\ ran' = [ran EXCEPT ![t] = IF found THEN @ + 1 ELSE @]
    /\ timerInfoMap' = [timerInfoMap EXCEPT ![a] = IF timer[t].every = 0 THEN @ \ {t} ELSE @]
    /\ UNCHANGED <<timing, currentTime, expiration, buckets, delayQueue, proc, stranded, plan, apc, silenced>>

ActorSteps(a) == AddTimerInfo(a) \/ Removed(a) \/ InvokeFunc(a)
WheelSteps(p) == (Adding(p) \/ Stopping(p)) /\ UNCHANGED actorTimerVars
Goroutines == (Polling \/ Flushing) /\ UNCHANGED actorTimerVars

TimerNext ==
    \/ \E a \in Clients : AddTimer(a) \/ RemoveTimer(a) \/ ActorSteps(a)
    \/ \E p \in Procs : WheelSteps(p)
    \/ Goroutines
    \/ Clock /\ UNCHANGED actorTimerVars
    \/ plan.stop /\ WheelStop /\ UNCHANGED actorTimerVars

timerVars == <<wheelVars, actorTimerVars>>
TimerSpec ==
    /\ ActorTimerInit /\ [][TimerNext]_timerVars
    /\ \A a \in Clients : WF_timerVars(ActorSteps(a))
    /\ \A p \in Procs : WF_timerVars(WheelSteps(p))
    /\ WF_timerVars(Polling /\ UNCHANGED actorTimerVars)
    /\ WF_timerVars(Flushing /\ UNCHANGED actorTimerVars)
    /\ WF_timerVars(Clock /\ UNCHANGED actorTimerVars)
-----------------------------------------------------------------------------
\* The goroutine is between the removal of a timer from its bucket and the
\* end of what it does with it.
Handling(p, t) == proc[p].t = t /\ proc[p].pc \in {"load", "insert", "run"}

\* Every timer is in at most one place: a bucket's list agrees with the timer's
\* pointer and holds it once; a timer whose Stop returned true is nowhere; a
\* one-shot function runs at most once.
TimersConsistent ==
    /\ \A b \in Buckets : /\ \A i \in DOMAIN list[b] : timer[list[b][i]].b = b
                          /\ IsInjective(list[b])
    /\ \A t \in silenced :
          /\ timer[t].b = NoBucket /\ \A p \in Procs : ~Handling(p, t)
    /\ \A t \in Timers : timer[t].every = 0 => ran[t] <= 1

Waiting(t) == \E a \in Clients : t \in timerInfoMap[a] /\ ~exit

\* Flush adds a timer to the bucket whose mutex it holds: a periodic timer of a
\* bucket that the clock has overtaken, due again when the bucket's turn comes.
SelfLocked == proc[Wheel].pc = "insert" /\ proc[Wheel].b = flushing

\* AfterFunc and ScheduleFunc keep their promise but for two windows: the timer
\* was put into a bucket between the two halves of Flush, or the goroutine of
\* the wheel waits for itself.
FiresUnlessStranded ==
    \A t \in Timers, e \in 1..MaxNow :
        Waiting(t) /\ timer[t].exp = e
            ~> ran[t] > 0 \/ ~Waiting(t) \/ timer[t].exp > e \/ t \in stranded \/ SelfLocked

\* What the comment on AfterFunc says: f is called once the duration is over.
AfterFuncCalls ==
    \A t \in Timers : Waiting(t) /\ timer[t].exp <= MaxNow ~> ran[t] > 0 \/ ~Waiting(t)
=============================================================================
