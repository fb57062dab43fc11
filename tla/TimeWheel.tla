----------------------------- MODULE TimeWheel -----------------------------
(***************************************************************************)
(* extend/time_wheel: the hierarchical wheels with their buckets, the      *)
(* delay queue the buckets wait in, the goroutine that polls it (Poll),    *)
(* the goroutine that flushes expired buckets (Wheel), and the goroutines  *)
(* that add and stop timers.  The delay queue hands over one bucket at a   *)
(* time on the unbuffered channel C; wakeupC is unbuffered as well.        *)
(* A timer's task, when it runs, pushes the timer on the queue due.        *)
(***************************************************************************)
EXTENDS Integers, Bags, SequencesExt

CONSTANTS Clients,      \* goroutines that add and stop timers
          Timers,       \* the IDs, 1, 2, ...
          WheelSize,    \* buckets of a wheel
          Levels,       \* bound: the wheels; WheelSize^Levels bounds the times in use
          MaxNow        \* the clock stops here

Wheel == 0                    \* the IDs of timers start at 1
Procs == Clients \cup {Wheel} \cup Timers   \* a timer stands for the goroutine of its task
Tick(l) == WheelSize^(l - 1)
interval(l) == WheelSize^l
truncate(x, m) == x - (x % m)
Buckets == (1..Levels) \X (0..(WheelSize - 1))
BucketOf(l, e) == <<l, (e \div Tick(l)) % WheelSize>>
NoBucket == <<0, 0>>
NoWheel == -1

ASSUME TimeWheelAssumption ==
    /\ Timers \subseteq Nat \ {Wheel} /\ WheelSize \in Nat \ {0} /\ Levels \in Nat \ {0} /\ MaxNow \in Nat
    /\ Clients \cap ({Wheel} \cup Timers) = {}
    /\ \A l \in 1..Levels : Tick(l) \in Nat \ {0}   \* follows from the above; the provers do not know ^

VARIABLES
    now,           \* the clock, in ticks
    currentTime,   \* of each wheel, NoWheel for an overflow wheel not made yet
    expiration,    \* of each bucket, -1 while it is not queued
    list,          \* the timers of each bucket
    flushing,      \* the bucket whose mutex Flush holds
    timer,         \* Timer: expiration, period (0: AfterFunc), isAsync, bucket, client
    pq, sleeping,  \* the delay queue
    poll,          \* the goroutine of Poll: pc, the bucket it sends, its deadline
    proc,          \* what the other goroutines do: pc, t, level, b, task runs due
    due,           \* the timers whose task has run, by the client that made them
    exit,          \* exitC is closed
    stranded       \* history: timers left in a bucket that Flush unmarks

timing == <<now, exit>>
buckets == <<list, flushing, timer>>
delayQueue == <<pq, sleeping, poll>>
outcome == <<due, stranded>>
wheelVars == <<timing, currentTime, expiration, buckets, delayQueue, proc, outcome>>

Idle == [pc |-> "idle", t |-> 0, level |-> 1, b |-> NoBucket, runs |-> 0, stopped |-> FALSE]

WheelInit ==
    /\ now = 0 /\ exit = FALSE /\ stranded = {}
    /\ currentTime = [l \in 1..Levels |-> IF l = 1 THEN 0 ELSE NoWheel]
    /\ expiration = [b \in Buckets |-> -1] /\ list = [b \in Buckets |-> <<>>] /\ flushing = NoBucket
    /\ timer = [t \in Timers |-> [exp |-> 0, every |-> 0, async |-> FALSE, b |-> NoBucket, by |-> Wheel]]
    /\ pq = EmptyBag /\ sleeping = FALSE /\ poll = [pc |-> "peek", b |-> NoBucket, until |-> -1]
    /\ proc = [p \in Procs |-> IF p = Wheel THEN [Idle EXCEPT !.pc = "recv"] ELSE Idle]
    /\ due = [c \in Clients |-> <<>>]
-----------------------------------------------------------------------------
\* The goroutine leaves add or a task: runs of the task's f that are still
\* due come first, then Flush goes on or the call of the client returns.
Back(p, runs) == IF runs > 0 THEN "task" ELSE IF p = Wheel THEN "flush" ELSE "idle"
Goto(p, pc) == proc' = [proc EXCEPT ![p].pc = pc]
Return(p) == Goto(p, Back(p, proc[p].runs))

\* AfterFunc (every = 0) and ScheduleFunc with EverySchedule{every}.
AfterFunc(p, t, delay, every, async) ==
    /\ timer' = [timer EXCEPT ![t] = [exp |-> now + delay, every |-> every, async |-> async, b |-> NoBucket, by |-> p]]
    /\ proc' = [proc EXCEPT ![p] = [Idle EXCEPT !.pc = "load", !.t = t]]
    /\ UNCHANGED <<timing, currentTime, expiration, list, flushing, delayQueue, outcome>>

\* add reads the clock of the wheel: expired, a bucket of this wheel, or the
\* overflow wheel, which the first one to need it makes.
Load(p) ==
    LET l == proc[p].level  e == timer[proc[p].t].exp IN
    /\ proc[p].pc = "load"
    /\ \/ /\ e < currentTime[l] + Tick(l)
          /\ Goto(p, "run") /\ UNCHANGED currentTime
       \/ /\ e >= currentTime[l] + Tick(l) /\ e < currentTime[l] + interval(l)
          /\ proc' = [proc EXCEPT ![p].pc = "insert", ![p].b = BucketOf(l, e)]
          /\ UNCHANGED currentTime
       \/ /\ e >= currentTime[l] + interval(l) /\ l < Levels
          /\ currentTime' = [currentTime EXCEPT ![l + 1] = IF @ = NoWheel THEN truncate(currentTime[l], interval(l)) ELSE @]
          /\ proc' = [proc EXCEPT ![p].level = l + 1]
    /\ UNCHANGED <<timing, expiration, buckets, delayQueue, outcome>>

\* bucket.Add, under the bucket's mutex.
Insert(p) ==
    LET t == proc[p].t  b == proc[p].b IN
    /\ proc[p].pc = "insert" /\ flushing # b
    /\ list' = [list EXCEPT ![b] = Append(@, t)] /\ timer' = [timer EXCEPT ![t].b = b]
    /\ Goto(p, "mark")
    /\ UNCHANGED <<timing, currentTime, expiration, flushing, delayQueue, outcome>>

\* SetExpiration: only the one who changes it queues the bucket.
Mark(p) ==
    LET b == proc[p].b  e == truncate(timer[proc[p].t].exp, Tick(b[1])) IN
    /\ proc[p].pc = "mark" /\ expiration' = [expiration EXCEPT ![b] = e]
    /\ IF expiration[b] # e THEN Goto(p, "offer") ELSE Return(p)
    /\ stranded' = IF expiration[b] = e /\ proc[Wheel].pc = "unmark" /\ proc[Wheel].b = b
                   THEN stranded \cup {proc[p].t} ELSE stranded
    /\ UNCHANGED <<timing, currentTime, buckets, delayQueue, due>>

Priorities == {i[2] : i \in BagToSet(pq)}

\* Mutant: Offer leaves the sleeping Poll alone.
Offer_NoWakeup(p) ==
    LET b == proc[p].b IN
    /\ proc[p].pc = "offer" /\ pq' = pq (+) SetToBag({<<b, expiration[b]>>}) /\ Return(p)
    /\ UNCHANGED <<timing, currentTime, expiration, buckets, sleeping, poll, outcome>>

\* Offer under dq.mu; a bucket that comes first wakes Poll.
Offer(p) ==
    LET b == proc[p].b IN
    /\ proc[p].pc = "offer" /\ pq' = pq (+) SetToBag({<<b, expiration[b]>>})
    /\ IF \A x \in Priorities : expiration[b] < x THEN Goto(p, "wake") ELSE Return(p)
    /\ UNCHANGED <<timing, currentTime, expiration, buckets, sleeping, poll, outcome>>

\* The CompareAndSwap on sleeping; who wins it sends to wakeupC.
Wake(p) ==
    /\ proc[p].pc = "wake" /\ sleeping' = FALSE
    /\ IF sleeping THEN Goto(p, "wakeup") ELSE Return(p)
    /\ UNCHANGED <<timing, currentTime, expiration, buckets, pq, poll, outcome>>

\* f is timerTrigger, a Push on the queue of the actor that made the timer.
Push(t) == due' = [due EXCEPT ![timer[t].by] = Append(@, t)]

\* addOrRun with an expired timer: the task, here or in a goroutine of its own (bound: one
\* at a time for each timer).  The task of ScheduleFunc adds the timer again before it
\* runs f.
Run(p) ==
    LET t == proc[p].t IN
    /\ proc[p].pc = "run"
    /\ IF timer[t].async /\ p # t
       THEN /\ proc[t].pc = "idle"
            /\ proc' = [proc EXCEPT ![p].pc = Back(p, proc[p].runs), ![t].pc = "run", ![t].t = t]
            /\ UNCHANGED <<timer, due>>
       ELSE IF timer[t].every = 0 THEN Push(t) /\ Return(p) /\ UNCHANGED timer
       ELSE /\ timer' = [timer EXCEPT ![t].exp = @ + timer[t].every]
            /\ proc' = [proc EXCEPT ![p].pc = "load", ![p].level = 1, ![p].runs = @ + 1]
            /\ UNCHANGED due
    /\ UNCHANGED <<timing, currentTime, expiration, list, flushing, delayQueue, stranded>>

Task(p) ==
    /\ proc[p].pc = "task" /\ Push(proc[p].t)
    /\ proc' = [proc EXCEPT ![p].runs = @ - 1, ![p].pc = Back(p, proc[p].runs - 1)]
    /\ UNCHANGED <<timing, currentTime, expiration, buckets, delayQueue, stranded>>
-----------------------------------------------------------------------------
\* Poll looks at the head of the queue under dq.mu and takes it when it is due;
\* otherwise it goes to sleep, without a deadline when the queue is empty.
PollPeek ==
    /\ poll.pc = "peek"
    /\ \/ \E i \in BagToSet(pq) :
             /\ \A x \in Priorities : i[2] <= x
             /\ IF i[2] <= now
                THEN pq' = pq (-) SetToBag({i}) /\ poll' = [poll EXCEPT !.pc = "send", !.b = i[1]] /\ UNCHANGED sleeping
                ELSE poll' = [poll EXCEPT !.pc = "wait", !.until = i[2]] /\ sleeping' = TRUE /\ UNCHANGED pq
       \/ pq = EmptyBag /\ poll' = [poll EXCEPT !.pc = "wait", !.until = -1] /\ sleeping' = TRUE /\ UNCHANGED pq
    /\ UNCHANGED <<timing, currentTime, expiration, buckets, proc, outcome>>

\* Poll receives from wakeupC.
PollWoken(p) ==
    /\ poll.pc \in {"wait", "drain"} /\ proc[p].pc = "wakeup"
    /\ poll' = [poll EXCEPT !.pc = "peek"] /\ Return(p)
    /\ UNCHANGED <<timing, currentTime, expiration, buckets, pq, sleeping, outcome>>

\* The timer of the sleeping Poll fires; an Offer that has won the flag since
\* is about to send, so Poll drains wakeupC.
PollDeadline ==
    /\ poll.pc = "wait" /\ poll.until # -1 /\ now >= poll.until
    /\ sleeping' = FALSE /\ poll' = [poll EXCEPT !.pc = IF sleeping THEN "peek" ELSE "drain"]
    /\ UNCHANGED <<timing, currentTime, expiration, buckets, pq, proc, outcome>>

\* The bucket goes over C to the wheel's goroutine.
PollSend ==
    /\ poll.pc = "send" /\ proc[Wheel].pc = "recv"
    /\ poll' = [poll EXCEPT !.pc = "peek"]
    /\ proc' = [proc EXCEPT ![Wheel].pc = "advance", ![Wheel].b = poll.b]
    /\ UNCHANGED <<timing, currentTime, expiration, buckets, pq, sleeping, outcome>>

PollExit ==
    /\ poll.pc \in {"wait", "send"} /\ exit
    /\ poll' = [poll EXCEPT !.pc = "done"] /\ sleeping' = FALSE
    /\ UNCHANGED <<timing, currentTime, expiration, buckets, pq, proc, outcome>>
-----------------------------------------------------------------------------
\* advanceClock: the wheels, bottom up, as long as each one moves.
Advance ==
    LET e == expiration[proc[Wheel].b]
        moves[l \in 1..Levels] ==
            (l = 1 \/ moves[l - 1]) /\ currentTime[l] # NoWheel /\ e >= currentTime[l] + Tick(l)
    IN
    /\ proc[Wheel].pc = "advance" /\ Goto(Wheel, "lock")
    /\ currentTime' = [l \in 1..Levels |-> IF moves[l] THEN truncate(e, Tick(l)) ELSE currentTime[l]]
    /\ UNCHANGED <<timing, expiration, buckets, delayQueue, outcome>>

\* Flush holds the mutex of the bucket while it adds its timers again, ...
FlushLock ==
    /\ proc[Wheel].pc = "lock" /\ flushing' = proc[Wheel].b
    /\ proc' = [proc EXCEPT ![Wheel].pc = "flush"]
    /\ UNCHANGED <<timing, currentTime, expiration, list, timer, delayQueue, outcome>>

FlushNext ==
    LET t == Head(list[flushing]) IN
    /\ proc[Wheel].pc = "flush" /\ list[flushing] # <<>>
    /\ list' = [list EXCEPT ![flushing] = Tail(@)] /\ timer' = [timer EXCEPT ![t].b = NoBucket]
    /\ proc' = [proc EXCEPT ![Wheel].pc = "load", ![Wheel].t = t, ![Wheel].level = 1]
    /\ UNCHANGED <<timing, currentTime, expiration, flushing, delayQueue, outcome>>

FlushUnlock ==
    /\ proc[Wheel].pc = "flush" /\ list[flushing] = <<>>
    /\ proc' = [proc EXCEPT ![Wheel].pc = "unmark", ![Wheel].b = flushing] /\ flushing' = NoBucket
    /\ UNCHANGED <<timing, currentTime, expiration, list, timer, delayQueue, outcome>>

\* ... and marks it as not queued after it has given the mutex back.
FlushUnmark ==
    /\ proc[Wheel].pc = "unmark" /\ expiration' = [expiration EXCEPT ![proc[Wheel].b] = -1]
    /\ Goto(Wheel, "recv")
    /\ UNCHANGED <<timing, currentTime, buckets, delayQueue, outcome>>

WheelExit ==
    /\ proc[Wheel].pc = "recv" /\ exit /\ Goto(Wheel, "done")
    /\ UNCHANGED <<timing, currentTime, expiration, buckets, delayQueue, outcome>>

\* TimeWheel.Stop closes exitC and waits for both goroutines.
WheelStop ==
    /\ ~exit /\ exit' = TRUE
    /\ UNCHANGED <<now, currentTime, expiration, buckets, delayQueue, proc, outcome>>
-----------------------------------------------------------------------------
\* Timer.Stop: the bucket is read without a lock, and again until it is nil.
TimerStop(p, t) ==
    /\ proc' = [proc EXCEPT ![p] = [Idle EXCEPT !.pc = "bucket", !.t = t]]
    /\ UNCHANGED <<timing, currentTime, expiration, buckets, delayQueue, outcome>>

StopBucket(p) ==
    LET b == timer[proc[p].t].b IN
    /\ proc[p].pc = "bucket"
    /\ proc' = [proc EXCEPT ![p].b = b, ![p].pc = IF b = NoBucket THEN "idle" ELSE "remove"]
    /\ UNCHANGED <<timing, currentTime, expiration, buckets, delayQueue, outcome>>

\* Mutant: remove does not look at the timer's bucket again.
BucketRemove_NoRecheck(p) ==
    LET t == proc[p].t  b == proc[p].b IN
    /\ proc[p].pc = "remove" /\ flushing # b
    /\ list' = [list EXCEPT ![b] = RemoveFirst(@, t)] /\ timer' = [timer EXCEPT ![t].b = NoBucket]
    /\ proc' = [proc EXCEPT ![p].pc = "bucket", ![p].stopped = TRUE]
    /\ UNCHANGED <<timing, currentTime, expiration, flushing, delayQueue, outcome>>

\* bucket.Remove, under the mutex of a bucket that may no longer be the timer's.
BucketRemove(p) ==
    LET t == proc[p].t  b == proc[p].b  here == timer[t].b = b IN
    /\ proc[p].pc = "remove" /\ flushing # b
    /\ list' = [list EXCEPT ![b] = IF here THEN RemoveFirst(@, t) ELSE @]
    /\ timer' = [timer EXCEPT ![t].b = IF here THEN NoBucket ELSE @]
    /\ proc' = [proc EXCEPT ![p].pc = "bucket", ![p].stopped = here]
    /\ UNCHANGED <<timing, currentTime, expiration, flushing, delayQueue, outcome>>

Clock ==
    /\ now < MaxNow /\ now' = now + 1
    /\ UNCHANGED <<currentTime, expiration, buckets, delayQueue, proc, outcome, exit>>
-----------------------------------------------------------------------------
Adding(p) == Load(p) \/ Insert(p) \/ Mark(p) \/ Offer(p) \/ Wake(p) \/ Run(p) \/ Task(p) \/ PollWoken(p)
Stopping(p) == StopBucket(p) \/ BucketRemove(p)
Polling == PollPeek \/ PollDeadline \/ PollSend \/ PollExit
Flushing == Advance \/ FlushLock \/ FlushNext \/ FlushUnlock \/ FlushUnmark \/ WheelExit
=============================================================================
