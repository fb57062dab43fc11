----------------------------- MODULE QueueSpec -----------------------------
(***************************************************************************)
(* The mailbox queue in use: any number of goroutines in Push, and the one *)
(* consumer of Actor.loop, which receives from the wake-up channel C and   *)
(* pops once per receive.  Every atomic operation of queue.go is a step of *)
(* its own, so every interleaving of pushes with a pop is a behaviour.     *)
(***************************************************************************)
EXTENDS Queue, FiniteSets

CONSTANTS Producers,  \* the goroutines that call Push
          MaxPushes   \* bound: how many times each of them does

ASSUME ProducersAssumption == IsFiniteSet(Producers)
ASSUME MaxPushesAssumption == MaxPushes \in Nat

VARIABLES q,         \* the queue
          pc,        \* pc[p]: where producer p is in Push
          local,     \* local[p]: the count its AddInt32 returned
          pushed,    \* pushed[p]: how many values p has swapped in
          cpc,       \* where the consumer is
          clocal,    \* the count the consumer's AddInt32 returned
          popped     \* history: popped[p] is the last value of p's popped

vars == <<q, pc, local, pushed, cpc, clocal, popped>>
prodVars == <<pc, local, pushed>>
consVars == <<cpc, clocal, popped>>

\* The value p pushes next, and the one it is pushing.
NextValue(p) == <<p, pushed[p] + 1>>
CurValue(p) == <<p, pushed[p]>>

Init ==
    /\ q = newQueue
    /\ pc = [p \in Producers |-> "idle"]
    /\ local = [p \in Producers |-> 0]
    /\ pushed = [p \in Producers |-> 0]
    /\ cpc = "wait"
    /\ clocal = 0
    /\ popped = [p \in Producers |-> 0]

PushSwap(p) ==
    /\ pc[p] = "idle" /\ pushed[p] < MaxPushes
    /\ q' = Swap(q, NextValue(p))
    /\ pushed' = [pushed EXCEPT ![p] = @ + 1]
    /\ pc' = [pc EXCEPT ![p] = "link"]
    /\ UNCHANGED <<local, consVars>>

PushLink(p) ==
    /\ pc[p] = "link"
    /\ q' = Link(q, CurValue(p))
    /\ pc' = [pc EXCEPT ![p] = "count"]
    /\ UNCHANGED <<local, pushed, consVars>>

PushCount(p) ==
    /\ pc[p] = "count"
    /\ q' = AddCount(q, 1)
    /\ local' = [local EXCEPT ![p] = q.count + 1]
    /\ pc' = [pc EXCEPT ![p] = "signal"]
    /\ UNCHANGED <<pushed, consVars>>

\* Mutant: a push signals only when it finds the queue empty.
PushSignal_FirstOnly(p) ==
    /\ pc[p] = "signal"
    /\ q' = IF local[p] = 1 THEN Signal(q, local[p]) ELSE q
    /\ pc' = [pc EXCEPT ![p] = "idle"]
    /\ local' = [local EXCEPT ![p] = 0]
    /\ UNCHANGED <<pushed, consVars>>

PushSignal(p) ==
    /\ pc[p] = "signal"
    /\ q' = Signal(q, local[p])
    /\ pc' = [pc EXCEPT ![p] = "idle"]
    /\ local' = [local EXCEPT ![p] = 0]
    /\ UNCHANGED <<pushed, consVars>>

\* case <-C of Actor.loop.
Wake ==
    /\ cpc = "wait" /\ q.C = "full"
    /\ q' = Receive(q)
    /\ cpc' = "pop"
    /\ UNCHANGED <<clocal, popped, prodVars>>

PopValue ==
    /\ cpc = "pop" /\ CanPop(q)
    /\ LET v == Head(q.items) IN popped' = [popped EXCEPT ![v[1]] = v[2]]
    /\ q' = PopItem(q)
    /\ cpc' = "count"
    /\ UNCHANGED <<clocal, prodVars>>

\* Pop returns nil and touches neither the counter nor the channel.
PopNil ==
    /\ cpc = "pop" /\ ~CanPop(q)
    /\ cpc' = "wait"
    /\ UNCHANGED <<q, clocal, popped, prodVars>>

PopCount ==
    /\ cpc = "count"
    /\ q' = AddCount(q, -1)
    /\ clocal' = q.count - 1
    /\ cpc' = "signal"
    /\ UNCHANGED <<popped, prodVars>>

\* Mutant: Pop does not pass the wake-up on.
PopSignal_Missing ==
    /\ cpc = "signal"
    /\ cpc' = "wait"
    /\ clocal' = 0
    /\ UNCHANGED <<q, popped, prodVars>>

PopSignal ==
    /\ cpc = "signal"
    /\ q' = Signal(q, clocal)
    /\ cpc' = "wait"
    /\ clocal' = 0
    /\ UNCHANGED <<popped, prodVars>>

Push(p) == PushSwap(p) \/ PushLink(p) \/ PushCount(p) \/ PushSignal(p)
Consume == Wake \/ PopValue \/ PopNil \/ PopCount \/ PopSignal

Next == (\E p \in Producers : Push(p)) \/ Consume

\* A goroutine inside Push or Pop never blocks, so the Go scheduler runs it
\* on; whether a producer calls Push again is its own business.
Fairness ==
    /\ \A p \in Producers : WF_vars(pc[p] # "idle" /\ Push(p))
    /\ WF_vars(Consume)

Spec == Init /\ [][Next]_vars
FairSpec == Spec /\ Fairness
-----------------------------------------------------------------------------
Values == Producers \X (1..MaxPushes)

QueueType == [items : Seq(Values), linked : SUBSET Values, count : Int,
              C : {"empty", "full"}]

\* Values keep their types; the counter may go negative, see CountInv.
TypeOK ==
    /\ q \in QueueType
    /\ pc \in [Producers -> {"idle", "link", "count", "signal"}]
    /\ local \in [Producers -> Int]
    /\ pushed \in [Producers -> 0..MaxPushes]
    /\ cpc \in {"wait", "pop", "count", "signal"}
    /\ clocal \in Int
    /\ popped \in [Producers -> 0..MaxPushes]
    /\ \A p \in Producers : pc[p] # "idle" => pushed[p] > 0

\* Producers whose value is in the queue, or already out of it, uncounted.
Uncounted == {p \in Producers : pc[p] \in {"link", "count"}}

\* The producers that are about to signal a count that calls for it.
Signalling == {p \in Producers : pc[p] = "signal" /\ local[p] > 0}

\* What count really is: the length of the queue, less the pushes not yet
\* counted (whose value may be popped already), plus the pop not yet counted.
CountInv ==
    q.count = Len(q.items) - Cardinality(Uncounted)
              + (IF cpc = "count" THEN 1 ELSE 0)

\* A value whose predecessor is not linked to it belongs to a producer that is
\* still on its way to StorePointer.
LinkInv ==
    \A i \in 1..Len(q.items) :
        q.items[i] \notin q.linked =>
            \E p \in Producers : pc[p] = "link" /\ q.items[i] = CurValue(p)

\* A positive counter with an empty channel is somebody's debt: a producer
\* that has yet to count or signal, or the consumer, awake or about to signal.
WakeInv ==
    q.count > 0 /\ q.C = "empty" =>
        \/ Uncounted # {} \/ Signalling # {}
        \/ cpc \in {"pop", "count"} \/ (cpc = "signal" /\ clocal > 0)

\* The queue holds, in order, exactly the values of each producer that are
\* pushed and not yet popped.
OrderInv ==
    /\ \A i, j \in 1..Len(q.items) :
          i < j /\ q.items[i][1] = q.items[j][1] => q.items[i][2] < q.items[j][2]
    /\ \A p \in Producers : popped[p] <= pushed[p]
    /\ \A p \in Producers : \A k \in 1..MaxPushes :
          (popped[p] < k /\ k <= pushed[p])
            <=> (\E i \in 1..Len(q.items) : q.items[i] = <<p, k>>)

\* The inductive invariant of QueueSpec_proofs.
IInv == TypeOK /\ CountInv /\ LinkInv /\ WakeInv /\ OrderInv

\* No lost wake-up (queue.go Push/Pop/_setCount): the consumer never sleeps on
\* an empty channel over a non-empty queue unless some producer is still
\* inside Push and is going to signal.
NoLostWakeup ==
    cpc = "wait" /\ q.C = "empty" /\ q.items # <<>> =>
        Uncounted # {} \/ Signalling # {}

\* Count never over-states the work (queue.go Count): outside a pop it is at
\* most the number of queued values, so an actor that waits for Count < 1
\* before it stops cannot wait for a value that is not there.
CountNeverOverstates == cpc # "count" => q.count <= Len(q.items)

\* Each producer's values come out exactly once, in the order it pushed them
\* and without a gap (queue.go Push/Pop as a FIFO).
InOrder ==
    [][cpc = "pop" /\ cpc' = "count" =>
        \E p \in Producers : popped' = [popped EXCEPT ![p] = @ + 1]]_vars

\* Every value swapped in is popped in the end (Actor.loop with queue.go).
Delivered ==
    \A p \in Producers : \A k \in 1..MaxPushes :
        (pushed[p] >= k) ~> (popped[p] >= k)
=============================================================================
