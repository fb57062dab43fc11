----------------------------- MODULE NodeQueue -----------------------------
(***************************************************************************)
(* net/actor/queue.go as written: a linked list of queueNodes with a stub  *)
(* at its tail, nodes taken from and returned to queueNodePool, and        *)
(* producers that hold a raw pointer to their predecessor between          *)
(* SwapPointer and StorePointer.  The steps are those of QueueSpec, plus   *)
(* the two that only move nodes in and out of the pool.                    *)
(***************************************************************************)
EXTENDS Integers, Sequences, FiniteSets

CONSTANTS Producers, MaxPushes,
          Nodes,     \* bound: every queueNode that is ever allocated
          NIL        \* the nil pointer, and the nil value of a node

ASSUME NodesAssumption == NIL \notin Nodes /\ Nodes # {}

VARIABLES head, tail,    \* the queue's pointers
          next, val,     \* the fields of every node
          pool,          \* the nodes queueNodePool may hand out
          count, C,      \* the atomic counter and the wake-up channel
          pc, local, pushed,
          node, prev,    \* Push's n and prev
          cpc, clocal, popped,
          ctail,         \* Pop's local tail
          chain          \* history: the nodes from tail to head, swap order

queueVars == <<head, tail, next, val, pool, count, C, chain>>
prodVars == <<pc, local, pushed, node, prev>>
consVars == <<cpc, clocal, popped, ctail>>
vars == <<queueVars, prodVars, consVars>>

Init ==
    /\ \E stub \in Nodes :
         /\ head = stub /\ tail = stub
         /\ pool = Nodes \ {stub}
         /\ chain = <<stub>>
    /\ next = [n \in Nodes |-> NIL]
    /\ val = [n \in Nodes |-> NIL]
    /\ count = 0 /\ C = "empty"
    /\ pc = [p \in Producers |-> "idle"]
    /\ local = [p \in Producers |-> 0]
    /\ pushed = [p \in Producers |-> 0]
    /\ node = [p \in Producers |-> NIL]
    /\ prev = [p \in Producers |-> NIL]
    /\ cpc = "wait" /\ clocal = 0 /\ ctail = NIL
    /\ popped = [p \in Producers |-> 0]

\* queueNodePool.Get returns any pooled node, then val and next are written.
PushGet(p) ==
    /\ pc[p] = "idle" /\ pushed[p] < MaxPushes
    /\ \E n \in pool :
         /\ pool' = pool \ {n}
         /\ node' = [node EXCEPT ![p] = n]
         /\ val' = [val EXCEPT ![n] = <<p, pushed[p] + 1>>]
         /\ next' = [next EXCEPT ![n] = NIL]
    /\ pc' = [pc EXCEPT ![p] = "swap"]
    /\ UNCHANGED <<head, tail, count, C, chain, local, pushed, prev, consVars>>

PushSwap(p) ==
    /\ pc[p] = "swap"
    /\ prev' = [prev EXCEPT ![p] = head]
    /\ head' = node[p]
    /\ chain' = Append(chain, node[p])
    /\ pushed' = [pushed EXCEPT ![p] = @ + 1]
    /\ pc' = [pc EXCEPT ![p] = "link"]
    /\ UNCHANGED <<tail, next, val, pool, count, C, local, node, consVars>>

PushLink(p) ==
    /\ pc[p] = "link"
    /\ next' = [next EXCEPT ![prev[p]] = node[p]]
    /\ prev' = [prev EXCEPT ![p] = NIL]
    /\ node' = [node EXCEPT ![p] = NIL]
    /\ pc' = [pc EXCEPT ![p] = "count"]
    /\ UNCHANGED <<head, tail, val, pool, count, C, chain, local, pushed, consVars>>

PushCount(p) ==
    /\ pc[p] = "count"
    /\ count' = count + 1
    /\ local' = [local EXCEPT ![p] = count + 1]
    /\ pc' = [pc EXCEPT ![p] = "signal"]
    /\ UNCHANGED <<head, tail, next, val, pool, C, chain, pushed, node, prev, consVars>>

PushSignal(p) ==
    /\ pc[p] = "signal"
    /\ C' = IF local[p] > 0 THEN "full" ELSE C
    /\ local' = [local EXCEPT ![p] = 0]
    /\ pc' = [pc EXCEPT ![p] = "idle"]
    /\ UNCHANGED <<head, tail, next, val, pool, count, chain, pushed, node, prev, consVars>>

Wake ==
    /\ cpc = "wait" /\ C = "full"
    /\ C' = "empty"
    /\ cpc' = "pop"
    /\ UNCHANGED <<head, tail, next, val, pool, count, chain, prodVars, clocal, popped, ctail>>

\* next = tail.next is not nil: move tail, take the value out of its node.
PopValue ==
    /\ cpc = "pop" /\ next[tail] # NIL
    /\ ctail' = tail
    /\ tail' = next[tail]
    /\ LET v == val[next[tail]] IN popped' = [popped EXCEPT ![v[1]] = v[2]]
    /\ val' = [val EXCEPT ![next[tail]] = NIL]
    /\ chain' = Tail(chain)
    /\ cpc' = "recycle"
    /\ UNCHANGED <<head, next, pool, count, C, prodVars, clocal>>

PopNil ==
    /\ cpc = "pop" /\ next[tail] = NIL
    /\ cpc' = "wait"
    /\ UNCHANGED <<queueVars, prodVars, clocal, popped, ctail>>

\* Mutant: Pop recycles the node it took the value from, which is the new stub.
PopRecycle_Popped ==
    /\ cpc = "recycle"
    /\ pool' = pool \cup {tail}
    /\ ctail' = NIL
    /\ cpc' = "count"
    /\ UNCHANGED <<head, tail, next, val, count, C, chain, prodVars, clocal, popped>>

\* The node returned to the pool is the old stub, not the one just popped.
PopRecycle ==
    /\ cpc = "recycle"
    /\ next' = [next EXCEPT ![ctail] = NIL]
    /\ pool' = pool \cup {ctail}
    /\ ctail' = NIL
    /\ cpc' = "count"
    /\ UNCHANGED <<head, tail, val, count, C, chain, prodVars, clocal, popped>>

PopCount ==
    /\ cpc = "count"
    /\ count' = count - 1
    /\ clocal' = count - 1
    /\ cpc' = "signal"
    /\ UNCHANGED <<head, tail, next, val, pool, C, chain, prodVars, popped, ctail>>

\* Mutant: Pop does not pass the wake-up on.
PopSignal_Missing ==
    /\ cpc = "signal"
    /\ clocal' = 0
    /\ cpc' = "wait"
    /\ UNCHANGED <<head, tail, next, val, pool, count, C, chain, prodVars, popped, ctail>>

PopSignal ==
    /\ cpc = "signal"
    /\ C' = IF clocal > 0 THEN "full" ELSE C
    /\ clocal' = 0
    /\ cpc' = "wait"
    /\ UNCHANGED <<head, tail, next, val, pool, count, chain, prodVars, popped, ctail>>

Next ==
    \/ \E p \in Producers :
          \/ PushGet(p) \/ PushSwap(p) \/ PushLink(p)
          \/ PushCount(p) \/ PushSignal(p)
    \/ Wake \/ PopValue \/ PopNil \/ PopRecycle \/ PopCount \/ PopSignal

Spec == Init /\ [][Next]_vars
-----------------------------------------------------------------------------
Links == 1 .. Len(chain) - 1

\* A pooled node is nobody's (queue.go Pop's recycling): it is not in the
\* list, no producer is about to swap it in or to write its next pointer, and
\* no two producers got the same node.
RecyclingSafe ==
    /\ \A n \in pool : /\ \A i \in 1..Len(chain) : chain[i] # n
                       /\ n # ctail
                       /\ \A p \in Producers : node[p] # n /\ prev[p] # n
    /\ \A p, r \in Producers : p # r /\ pc[p] = "swap" => node[p] # node[r]

\* The refinement mapping: the queue value that the pointers stand for.
Abs == [items  |-> [i \in Links |-> val[chain[i + 1]]],
        linked |-> {val[chain[i + 1]] : i \in {j \in Links : next[chain[j]] # NIL}},
        count  |-> count,
        C      |-> C]

AbsQueue == INSTANCE QueueSpec WITH
    q   <- Abs,
    pc  <- [p \in Producers |-> IF pc[p] = "swap" THEN "idle" ELSE pc[p]],
    cpc <- IF cpc = "recycle" THEN "count" ELSE cpc

\* The lock-free list implements the queue of QueueSpec, step by step
\* (queue.go Push, Pop, _setCount).
ImplementsQueue == AbsQueue!Spec
=============================================================================
