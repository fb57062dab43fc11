------------------------------- MODULE Queue -------------------------------
(***************************************************************************)
(* The mailbox queue of net/actor/queue.go as a value, with one operator   *)
(* per atomic step of Push, Pop and Destroy.  A queue is a record:         *)
(*   items   the values between tail and head, oldest first, in the order  *)
(*           in which their producers swapped themselves into head;        *)
(*   linked  the values whose predecessor's next pointer is already set;   *)
(*   count   the atomic counter, which is only an estimate of Len(items);  *)
(*   C       the wake-up channel of capacity one: "empty", "full" or, once *)
(*           Destroy has run, "closed".                                    *)
(* NodeQueue shows that the pointer structure implements this value.       *)
(***************************************************************************)
EXTENDS Integers, Sequences

newQueue == [items |-> <<>>, linked |-> {}, count |-> 0, C |-> "empty"]

\* atomic.SwapPointer(&p.head, n): the value takes its place in the queue.
Swap(q, v) == [q EXCEPT !.items = Append(@, v)]

\* atomic.StorePointer(&prev.next, n): the value becomes visible to Pop.
Link(q, v) == [q EXCEPT !.linked = @ \cup {v}]

\* The counter half of _setCount; its result is the caller's local count.
AddCount(q, delta) == [q EXCEPT !.count = @ + delta]

\* The channel half of _setCount: a non-blocking send when count > 0.
Signal(q, count) ==
    IF count > 0 /\ q.C = "empty" THEN [q EXCEPT !.C = "full"] ELSE q

\* The send of Signal panics once Destroy has closed the channel.
SignalPanics(q, count) == count > 0 /\ q.C = "closed"

\* tail.next # nil.  An unlinked head of the queue hides all that follows.
CanPop(q) == q.items # <<>> /\ Head(q.items) \in q.linked

\* Mutant: Pop returns the value but forgets to advance tail.
PopItem_NoAdvance(q) == q

\* The pointer half of Pop, when CanPop; the value returned is Head(q.items).
PopItem(q) == [q EXCEPT !.items = Tail(@), !.linked = @ \ {Head(q.items)}]

\* A receive from C by the consumer's select, when C is "full".
Receive(q) == [q EXCEPT !.C = "empty"]

\* Whatever is still in the queue is dropped.
Destroy(q) == [items |-> <<>>, linked |-> {}, count |-> 0, C |-> "closed"]
=============================================================================
