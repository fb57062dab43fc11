------------------------------- MODULE Actor -------------------------------
(***************************************************************************)
(* One Actor of net/actor, top-level or child: its run goroutine           *)
(* (initialize, loop, onStop), its mailbox, event and timer queues, and    *)
(* the goroutines that post to them through System.Invoke, Notify,         *)
(* PostEvent, InvokeChild, NotifyChild and the global timer.  Each job is  *)
(* one such goroutine delivering one item.                                 *)
(*                                                                         *)
(* The queues are those of module Queue, at the grain of their atomic      *)
(* operations, because what Actor.loop reads of them while it stops is the *)
(* counter and not the list.  Method dispatch, payloads and results are    *)
(* abstracted to the outcome of the call.                                  *)
(***************************************************************************)
EXTENDS Queue, FiniteSets

CONSTANTS Invokes,   \* System.Invoke calls, one goroutine each
          Notifies,  \* System.Notify calls
          Events,    \* System.PostEvent calls
          Timers,    \* expirations of the Actor's timers
          Mixes,     \* which of these may come together
          MaxExits   \* bound: calls of Exit

Mails == Invokes \cup Notifies
Jobs == Mails \cup Events \cup Timers
Queues == {"mail", "event", "timer"}
QueueOf(j) == IF j \in Mails THEN "mail" ELSE IF j \in Events THEN "event" ELSE "timer"
NoJob == "none"

\* A job is one goroutine with one item: the four kinds have nothing in common.
ASSUME JobsAssumption ==
    /\ IsFiniteSet(Jobs) /\ NoJob \notin Jobs
    /\ Invokes \cap Notifies = {} /\ Mails \cap (Events \cup Timers) = {} /\ Events \cap Timers = {}
ASSUME MixesAssumption == \A mix \in Mixes : mix \subseteq Jobs
ASSUME ExitsAssumption == MaxExits \in Nat

VARIABLES
    child,       \* the Actor is a child: its parent looks it up
    state,       \* Actor.state
    lpc,         \* where the run goroutine is
    curq, cur,   \* the queue it was woken for, the item it popped
    llocal,      \* the count returned by its AddInt32
    res,         \* the result it is about to send
    q,           \* the three queues
    close,       \* the close channel holds a token
    exits,       \* Exit calls so far
    routed,      \* the method table has the Actor's MethodIDs
    registered,  \* System.actorMap has the Actor
    subscribed,  \* System.actorEventMap has the Actor
    timersOn,    \* the Actor's timers are running
    pc, local,   \* where each job is, the count returned by its AddInt32
    ctx,         \* the context of each mail: "none", "live" or how it ended
    result,      \* the buffered result channel of each Invoke
    ret,         \* what each Invoke or Notify returned
    recycles,    \* history: how often each mail was recycled
    executed,    \* history: the items whose business function has run
    late,        \* history: Invokes that returned before their mail was popped
    owed,        \* history: mails and events queued before the first Exit
    quiet        \* history: what was queued when the Actor turned to StopState,
                 \* if nobody was posting at that moment

loopVars == <<lpc, curq, cur, llocal, res>>
sysVars == <<routed, registered, subscribed, timersOn>>
jobVars == <<pc, local, ctx, result, ret, recycles>>
histVars == <<executed, late, owed, quiet>>
vars == <<child, state, loopVars, q, close, exits, sysVars, jobVars, histVars>>

Init ==
    /\ child \in BOOLEAN /\ state = "Init"
    /\ lpc = "init" /\ curq = "mail" /\ cur = NoJob /\ llocal = 0 /\ res = "none"
    /\ q = [n \in Queues |-> newQueue]
    /\ close = FALSE /\ exits = 0
    /\ routed = FALSE /\ registered = TRUE
    /\ subscribed = FALSE /\ timersOn = FALSE
    /\ \E mix \in Mixes : pc = [j \in Jobs |-> IF j \in mix THEN "start" ELSE "absent"]
    /\ local = [j \in Jobs |-> 0]
    /\ ctx = [j \in Mails |-> "none"]
    /\ result = [j \in Invokes |-> "none"]
    /\ ret = [j \in Mails |-> "none"]
    /\ recycles = [j \in Mails |-> 0]
    /\ executed = {} /\ late = {} /\ owed = {} /\ quiet = {}

\* The push of j has returned, or is somewhere between the state check and
\* its return.
Pushed(j) == pc[j] \in {"wait", "done"}
Posting(j) == pc[j] \in {"swap", "link", "count", "signal"}
Queued(n) == {q[n].items[i] : i \in 1..Len(q[n].items)}
-----------------------------------------------------------------------------
\* Message.Recycle also cancels the context that a Notify owns.
Recycle(j) ==
    /\ recycles' = [recycles EXCEPT ![j] = @ + 1]
    /\ ctx' = [ctx EXCEPT ![j] = IF j \in Notifies /\ @ = "live" THEN "cancelled" ELSE @]

\* A deadline passes (WithTimeout, WithDeadline).
Expire(j) ==
    /\ ctx[j] = "live"
    /\ ctx' = [ctx EXCEPT ![j] = "expired"]
    /\ UNCHANGED <<child, state, loopVars, q, close, exits, sysVars, pc, local, result,
                   ret, recycles, histVars>>

\* The ingress cancels its request.  A Notify is detached from it.
IngressCancel(j) ==
    /\ j \in Invokes /\ ctx[j] = "live"
    /\ ctx' = [ctx EXCEPT ![j] = "cancelled"]
    /\ UNCHANGED <<child, state, loopVars, q, close, exits, sysVars, pc, local, result,
                   ret, recycles, histVars>>

jobFrame == <<child, state, loopVars, close, exits, sysVars, executed, owed, quiet>>

\* Invoke/Notify resolve the MethodID and create the call's context.
CallStart(j) ==
    /\ ~child /\ j \in Mails /\ pc[j] = "start"
    /\ IF routed
       THEN /\ pc' = [pc EXCEPT ![j] = "lookup"]
            /\ ctx' = [ctx EXCEPT ![j] = "live"]
            /\ UNCHANGED ret
       ELSE /\ pc' = [pc EXCEPT ![j] = "rejected"]
            /\ ret' = [ret EXCEPT ![j] = "NOT_FOUND"]
            /\ UNCHANGED ctx
    /\ UNCHANGED <<jobFrame, q, local, result, recycles, late>>

\* InvokeChild and NotifyChild: the methods of a child are in no table.
ChildCall(j) ==
    /\ child /\ j \in Mails /\ pc[j] = "start"
    /\ pc' = [pc EXCEPT ![j] = "lookup"] /\ ctx' = [ctx EXCEPT ![j] = "live"]
    /\ UNCHANGED <<jobFrame, q, local, result, ret, recycles, late>>

\* PostEvent finds the Actor among the subscribers, or a timer fires.
EventStart(j) ==
    /\ \/ j \in Events /\ subscribed /\ pc' = [pc EXCEPT ![j] = "lookup"]
       \/ j \in Timers /\ timersOn /\ pc' = [pc EXCEPT ![j] = "swap"]
    /\ pc[j] = "start"
    /\ UNCHANGED <<jobFrame, q, local, ctx, result, ret, recycles, late>>

\* System.post gives up: the caller recycles the message itself.
Rejected(j) ==
    /\ pc' = [pc EXCEPT ![j] = "rejected"]
    /\ IF j \in Mails
       THEN Recycle(j) /\ ret' = [ret EXCEPT ![j] = "NOT_FOUND"]
       ELSE UNCHANGED <<ret, recycles, ctx>>

\* findChildActor, whose caller pushes without looking at the state of the child.
findChildActor(j) == child /\ j \in Mails

\* GetActor, or GetActorWithPath for an event, or the children of the parent.
Lookup(j) ==
    /\ pc[j] = "lookup"
    /\ IF registered
       THEN /\ pc' = [pc EXCEPT ![j] = IF findChildActor(j) THEN "swap" ELSE "state"]
            /\ UNCHANGED <<ret, recycles, ctx>>
       ELSE Rejected(j)
    /\ UNCHANGED <<jobFrame, q, local, result, late>>

\* The state is read once, and the push that follows relies on it.
Accepts(j) == state = "Worker" \/ (j \in Mails /\ state = "Init")
CheckState(j) ==
    /\ pc[j] = "state"
    /\ IF Accepts(j)
       THEN pc' = [pc EXCEPT ![j] = "swap"] /\ UNCHANGED <<ret, recycles, ctx>>
       ELSE Rejected(j)
    /\ UNCHANGED <<jobFrame, q, local, result, late>>

\* On a destroyed queue the push dereferences a nil head, or, behind another
\* such push, sends on the closed channel: either way the goroutine panics.
PushSwap(j) ==
    /\ pc[j] = "swap"
    /\ IF q[QueueOf(j)].C = "closed"
       THEN pc' = [pc EXCEPT ![j] = "panicked"] /\ UNCHANGED q
       ELSE /\ pc' = [pc EXCEPT ![j] = "link"]
            /\ q' = [q EXCEPT ![QueueOf(j)] = Swap(@, j)]
    /\ UNCHANGED <<jobFrame, local, ctx, result, ret, recycles, late>>

PushLink(j) ==
    /\ pc[j] = "link"
    /\ q' = [q EXCEPT ![QueueOf(j)] = Link(@, j)]
    /\ pc' = [pc EXCEPT ![j] = "count"]
    /\ UNCHANGED <<jobFrame, local, ctx, result, ret, recycles, late>>

PushCount(j) ==
    /\ pc[j] = "count"
    /\ q' = [q EXCEPT ![QueueOf(j)] = AddCount(@, 1)]
    /\ local' = [local EXCEPT ![j] = q[QueueOf(j)].count + 1]
    /\ pc' = [pc EXCEPT ![j] = "signal"]
    /\ UNCHANGED <<jobFrame, ctx, result, ret, recycles, late>>

\* The push returns: Invoke goes on to wait, Notify reports success.
PushSignal(j) ==
    /\ pc[j] = "signal"
    /\ IF SignalPanics(q[QueueOf(j)], local[j])
       THEN pc' = [pc EXCEPT ![j] = "panicked"] /\ UNCHANGED <<q, ret>>
       ELSE /\ q' = [q EXCEPT ![QueueOf(j)] = Signal(@, local[j])]
            /\ pc' = [pc EXCEPT ![j] = IF j \in Invokes THEN "wait" ELSE "done"]
            /\ ret' = IF j \in Notifies THEN [ret EXCEPT ![j] = "OK"] ELSE ret
    /\ local' = [local EXCEPT ![j] = 0]
    /\ UNCHANGED <<jobFrame, ctx, result, recycles, late>>

\* Mutant: a caller that gives up recycles the message it no longer owns.
InvokeReturn_Recycles(j) ==
    /\ pc[j] = "wait"
    /\ \/ /\ result[j] # "none"
          /\ ret' = [ret EXCEPT ![j] = result[j]]
          /\ UNCHANGED <<late, recycles>>
       \/ /\ ctx[j] # "live"
          /\ ret' = [ret EXCEPT ![j] = ctx[j]]
          /\ late' = IF j \in Queued("mail") THEN late \cup {j} ELSE late
          /\ recycles' = [recycles EXCEPT ![j] = @ + 1]
    /\ ctx' = [ctx EXCEPT ![j] = IF @ = "live" THEN "cancelled" ELSE @]
    /\ pc' = [pc EXCEPT ![j] = "done"]
    /\ UNCHANGED <<jobFrame, q, local, result>>

\* The select of InvokeTarget; its deferred cancel ends the context.
InvokeReturn(j) ==
    /\ pc[j] = "wait"
    /\ \/ /\ result[j] # "none"
          /\ ret' = [ret EXCEPT ![j] = result[j]]
          /\ UNCHANGED late
       \/ /\ ctx[j] # "live"
          /\ ret' = [ret EXCEPT ![j] = ctx[j]]
          /\ late' = IF j \in Queued("mail") THEN late \cup {j} ELSE late
    /\ ctx' = [ctx EXCEPT ![j] = IF @ = "live" THEN "cancelled" ELSE @]
    /\ pc' = [pc EXCEPT ![j] = "done"]
    /\ UNCHANGED <<jobFrame, q, local, result, recycles>>

\* Exit: a non-blocking send on the close channel.
Exit ==
    /\ exits < MaxExits
    /\ exits' = exits + 1
    /\ close' = TRUE
    /\ owed' = IF exits = 0 THEN {j \in Mails \cup Events : Pushed(j)} ELSE owed
    /\ UNCHANGED <<child, state, loopVars, q, sysVars, jobVars, executed, late, quiet>>
-----------------------------------------------------------------------------
loopFrame == <<child, pc, local, ret, exits, late, owed>>

\* OnInit: registers methods, events and timers, any of which may panic.
OnInitRegister ==
    /\ lpc = "init"
    /\ routed' = ~child /\ subscribed' = TRUE /\ timersOn' = TRUE
    /\ lpc' = "registered"
    /\ UNCHANGED <<loopFrame, state, curq, cur, llocal, res, q, close, registered,
                   ctx, result, recycles, executed, quiet>>

\* onInit returns: the Actor works; initialize recovered a panic: it stops.
InitDone ==
    /\ \/ lpc = "registered" /\ state' = "Worker" /\ lpc' = "loop"
       \/ lpc \in {"init", "registered"} /\ lpc' = "unroute" /\ UNCHANGED state
    /\ UNCHANGED <<loopFrame, curq, cur, llocal, res, q, close, sysVars, ctx,
                   result, recycles, executed, quiet>>

\* Mutant: the loop waits for the mailbox only, not for the events.
LoopCheck_MailOnly ==
    /\ lpc = "loop"
    /\ lpc' = IF state = "Stop" /\ q["mail"].count < 1 THEN "unroute" ELSE "select"
    /\ UNCHANGED <<loopFrame, state, curq, cur, llocal, res, q, close, sysVars,
                   ctx, result, recycles, executed, quiet>>

\* The head of loop: mail.Count, then event.Count, each read on its own.
LoopCheck ==
    /\ \/ /\ lpc = "loop"
          /\ lpc' = IF state = "Stop" /\ q["mail"].count < 1
                    THEN "loopEvent" ELSE "select"
       \/ /\ lpc = "loopEvent"
          /\ lpc' = IF q["event"].count < 1 THEN "unroute" ELSE "select"
    /\ UNCHANGED <<loopFrame, state, curq, cur, llocal, res, q, close, sysVars,
                   ctx, result, recycles, executed, quiet>>

\* select: one of the queues' channels ...
SelectQueue(n) ==
    /\ lpc = "select" /\ q[n].C = "full"
    /\ q' = [q EXCEPT ![n] = Receive(@)]
    /\ curq' = n /\ lpc' = "pop"
    /\ UNCHANGED <<loopFrame, state, cur, llocal, res, close, sysVars, ctx,
                   result, recycles, executed, quiet>>

\* ... or the close channel.
SelectClose ==
    /\ lpc = "select" /\ close
    /\ close' = FALSE /\ state' = "Stop" /\ lpc' = "loop"
    /\ quiet' = IF state # "Stop" /\ \A j \in Jobs : ~Posting(j)
                THEN Queued("mail") \cup Queued("event") ELSE quiet
    /\ UNCHANGED <<loopFrame, curq, cur, llocal, res, q, sysVars, ctx, result,
                   recycles, executed>>

LoopPop ==
    /\ lpc = "pop"
    /\ IF CanPop(q[curq])
       THEN /\ cur' = Head(q[curq].items)
            /\ q' = [q EXCEPT ![curq] = PopItem(@)]
            /\ lpc' = "popCount"
       ELSE lpc' = "loop" /\ UNCHANGED <<q, cur>>
    /\ UNCHANGED <<loopFrame, state, curq, llocal, res, close, sysVars, ctx,
                   result, recycles, executed, quiet>>

\* Mutant: Pop re-signals but forgets the decrement.
LoopPopCount_NoDecrement ==
    /\ \/ /\ lpc = "popCount"
          /\ llocal' = q[curq].count /\ UNCHANGED q
          /\ lpc' = "popSignal"
       \/ /\ lpc = "popSignal"
          /\ q' = [q EXCEPT ![curq] = Signal(@, llocal)]
          /\ llocal' = 0
          /\ lpc' = "handle"
    /\ UNCHANGED <<loopFrame, state, curq, cur, res, close, sysVars, ctx, result,
                   recycles, executed, quiet>>

LoopPopCount ==
    /\ \/ /\ lpc = "popCount"
          /\ q' = [q EXCEPT ![curq] = AddCount(@, -1)]
          /\ llocal' = q[curq].count - 1
          /\ lpc' = "popSignal"
       \/ /\ lpc = "popSignal"
          /\ q' = [q EXCEPT ![curq] = Signal(@, llocal)]
          /\ llocal' = 0
          /\ lpc' = "handle"
    /\ UNCHANGED <<loopFrame, state, curq, cur, res, close, sysVars, ctx, result,
                   recycles, executed, quiet>>

\* Mutant: the context is not looked at again when the mail is taken up.
Handle_NoCtxCheck ==
    /\ lpc = "handle"
    /\ lpc' = "execute"
    /\ UNCHANGED <<loopFrame, state, curq, cur, llocal, res, q, close, sysVars, ctx,
                   result, recycles, executed, quiet>>

\* invokeTyped up to the business function: an ended context, an unknown
\* method or an undecodable payload finish the mail without running it.
Handle ==
    /\ lpc = "handle"
    /\ \/ cur \in Mails /\ ctx[cur] # "live" /\ res' = ctx[cur] /\ lpc' = "finish"
       \/ cur \in Mails /\ ctx[cur] = "live" /\ res' = "REFUSED" /\ lpc' = "finish"
       \/ (cur \in Mails => ctx[cur] = "live") /\ lpc' = "execute" /\ UNCHANGED res
    /\ UNCHANGED <<loopFrame, state, curq, cur, llocal, q, close, sysVars, ctx,
                   result, recycles, executed, quiet>>

\* The business function returns, panics, or returns nil.
Execute ==
    /\ lpc = "execute"
    /\ executed' = executed \cup {cur}
    /\ IF cur \in Mails
       THEN res' \in {"OK", "INTERNAL"} /\ lpc' = "finish" /\ UNCHANGED cur
       ELSE cur' = NoJob /\ lpc' = "loop" /\ UNCHANGED res
    /\ UNCHANGED <<loopFrame, state, curq, llocal, q, close, sysVars, ctx, result,
                   recycles, quiet>>

\* finishTyped: the send would block for ever on a channel that is not empty.
Finish ==
    /\ lpc = "finish"
    /\ IF cur \in Invokes
       THEN result[cur] = "none" /\ result' = [result EXCEPT ![cur] = res]
       ELSE UNCHANGED result
    /\ Recycle(cur)
    /\ cur' = NoJob /\ res' = "none" /\ lpc' = "loop"
    /\ UNCHANGED <<loopFrame, state, curq, llocal, q, close, sysVars, executed, quiet>>

stopFrame == <<loopFrame, state, curq, cur, llocal, res, close, ctx, result,
               recycles, executed, quiet>>

\* onStop up to handler.OnStop: routes first, then the Actor itself.  A child whose
\* parent has left the system before it stays among the parent's children.
OnStopUnpublish ==
    /\ \/ lpc = "unroute" /\ routed' = FALSE /\ lpc' = "remove" /\ UNCHANGED registered
       \/ /\ lpc = "remove" /\ lpc' = "handlerStop" /\ UNCHANGED routed
          /\ registered' \in IF child THEN BOOLEAN ELSE {FALSE}
    /\ UNCHANGED <<stopFrame, q, subscribed, timersOn>>

\* handler.OnStop; a panic is swallowed by Try and skips the clean-up.
OnStopHandler ==
    /\ lpc = "handlerStop"
    /\ lpc' \in {"timerStop", "wgDone"}
    /\ UNCHANGED <<stopFrame, q, sysVars>>

\* timer.onStop stops the timers, event.onStop and mail.onStop destroy queues.
OnStopQueues ==
    /\ \/ /\ lpc = "timerStop"
          /\ timersOn' = FALSE /\ lpc' = "eventStop" /\ UNCHANGED <<q, subscribed>>
       \/ /\ lpc = "eventStop"
          /\ subscribed' = FALSE /\ lpc' = "mailStop" /\ UNCHANGED timersOn
          /\ q' = [q EXCEPT !["event"] = Destroy(@)]
       \/ /\ lpc = "mailStop"
          /\ lpc' = "wgDone" /\ UNCHANGED <<subscribed, timersOn>>
          /\ q' = [q EXCEPT !["mail"] = Destroy(@)]
    /\ UNCHANGED <<stopFrame, routed, registered>>

WgDone ==
    /\ lpc = "wgDone" /\ lpc' = "ended"
    /\ UNCHANGED <<stopFrame, q, sysVars>>
-----------------------------------------------------------------------------
Run == \/ OnInitRegister \/ InitDone \/ LoopCheck
       \/ (\E n \in Queues : SelectQueue(n)) \/ SelectClose
       \/ LoopPop \/ LoopPopCount \/ Handle \/ Execute \/ Finish
       \/ OnStopUnpublish \/ OnStopHandler \/ OnStopQueues \/ WgDone

\* A call in progress: it runs without blocking until InvokeReturn.
Step(j) == \/ Lookup(j) \/ CheckState(j) \/ PushSwap(j) \/ PushLink(j)
           \/ PushCount(j) \/ PushSignal(j) \/ InvokeReturn(j)

Next == \/ Run \/ Exit
        \/ \E j \in Jobs : CallStart(j) \/ ChildCall(j) \/ EventStart(j) \/ Step(j)
        \/ \E j \in Mails : Expire(j) \/ IngressCancel(j)

Spec == Init /\ [][Next]_vars

\* Business functions return (or panic), goroutines are scheduled, deadlines
\* pass.  Nobody is obliged to call, to post, to cancel or to Exit.
Fairness == /\ WF_vars(Run)
            /\ \A j \in Jobs : WF_vars(Step(j))
            /\ \A j \in Mails : WF_vars(Expire(j))
FairSpec == Spec /\ Fairness
-----------------------------------------------------------------------------
Stopping == {"unroute", "remove", "handlerStop", "timerStop", "eventStop",
             "mailStop", "wgDone", "ended"}

\* The Actor is through with an item: a mail is recycled, an event has run.
Handled(j) == IF j \in Mails THEN recycles[j] = 1 ELSE j \in executed

\* Who is to recycle the message j once it exists: its caller until the push
\* publishes it, the mailbox until it is popped, the loop until it is finished.
Holders(j) == {h \in {"caller", "mailbox", "loop"} :
                  \/ h = "caller" /\ pc[j] \in {"lookup", "state", "swap"}
                  \/ h = "mailbox" /\ j \in Queued("mail")
                  \/ h = "loop" /\ cur = j}

\* "Its final consumer must call Recycle exactly once" (facade/message.go), and
\* where the code does not: a message never has two holders, none once it is
\* recycled, and one that nobody holds has been recycled exactly once.  The
\* exception is a destroyed mailbox: onStop drops what is still queued there, and
\* a push that comes later panics, and neither recycles the message.
RecycledOnce ==
    \A j \in Mails :
        /\ \A g, h \in Holders(j) : g = h
        /\ Holders(j) # {} => recycles[j] = 0
        /\ Holders(j) = {} /\ ctx[j] # "none" =>
               recycles[j] = 1 \/ (q["mail"].C = "closed" /\ recycles[j] = 0)

\* What the caller of Invoke hears is what happened: with a business result its call
\* has run, and one that was given up while it was still queued never runs
\* (finishTyped, InvokeTarget, invokeTyped, TestTimedOutQueuedInvokeIsNotExecuted).
AnswerIsTrue ==
    /\ \A j \in Invokes : ret[j] \in {"OK", "INTERNAL"} => j \in executed
    /\ late \cap executed = {}

\* An Actor that turns to StopState while nobody is posting handles all that is
\* queued before it lets go of its queues (Actor.loop).
QuietStopDrains == lpc \in Stopping => \A j \in quiet : Handled(j)

\* "Exit requests an orderly stop after already queued mailbox and event work
\* drains" (actor.go): whatever was pushed before Exit was called is handled
\* before the Actor stops.
DrainOnExit == state = "Stop" /\ lpc \in Stopping => \A j \in owed : Handled(j)

\* Once Exit is called the Actor stops (Actor.loop, onStop, wg.Done): it never
\* waits in select for work that its counters promise and no queue holds.
ExitCompletes == (exits > 0) ~> (lpc = "ended")
=============================================================================
