---------------------------- MODULE Actor_proofs ----------------------------
(***************************************************************************)
(* Theorems about one Actor and the goroutines that post to it, for any    *)
(* number of calls, notifications, events and timers.                      *)
(***************************************************************************)
EXTENDS Actor, FiniteSetTheorems, TLAPS

QueueType == [items : Seq(Jobs), linked : SUBSET Jobs, count : Int, C : {"empty", "full", "closed"}]
JobPlaces == {"absent", "start", "lookup", "state", "swap", "link", "count", "signal", "wait", "done", "rejected", "panicked"}
\* Before and after SwapPointer.
Early == {"absent", "start", "lookup", "state", "swap"}
Late == {"link", "count", "signal", "wait", "done", "panicked"}
Answers == {"none", "OK", "INTERNAL", "REFUSED", "expired", "cancelled"}
Business == {"OK", "INTERNAL"}

ActorTypeOK ==
    /\ q \in [Queues -> QueueType] /\ curq \in Queues
    /\ pc \in [Jobs -> JobPlaces] /\ ctx \in [Mails -> {"none", "live", "expired", "cancelled"}]
    /\ recycles \in [Mails -> Nat]
    /\ result \in [Invokes -> Answers] /\ ret \in [Mails -> Answers \cup {"NOT_FOUND"}] /\ res \in Answers
    /\ late \subseteq Mails /\ cur \in Jobs \cup {NoJob}
    /\ \A j \in Jobs : pc[j] = "wait" => j \in Invokes

\* The run goroutine holds an item from the pop to the end of its handling.
HoldOK ==
    /\ lpc \in {"popCount", "popSignal", "handle", "execute", "finish"} => cur \in Jobs
    /\ lpc \notin {"popCount", "popSignal", "handle", "execute", "finish"} => cur = NoJob
    /\ lpc = "finish" => cur \in Mails

\* A queue has items of its own kind, the mailbox each of them once.
KindsOK ==
    /\ \A n \in Queues : \A i \in 1..Len(q[n].items) : QueueOf(q[n].items[i]) = n
    /\ \A i, k \in 1..Len(q["mail"].items) : q["mail"].items[i] = q["mail"].items[k] => i = k

\* Who owns a mail: its caller up to SwapPointer or the refusal, then the mailbox,
\* then the run goroutine, then nobody.
OwnerOK(j) ==
    /\ recycles[j] <= 1
    /\ pc[j] \in Early => recycles[j] = 0 /\ j \notin Queued("mail") /\ cur # j /\ j \notin executed
    /\ pc[j] \in {"lookup", "state", "swap"} \cup Late => ctx[j] # "none"
    /\ pc[j] \in {"absent", "start"} => ctx[j] = "none"
    /\ pc[j] = "rejected" => j \notin Queued("mail") /\ cur # j /\ (ctx[j] # "none" => recycles[j] = 1)
    /\ j \in Queued("mail") => recycles[j] = 0 /\ cur # j /\ j \notin executed
    /\ cur = j => recycles[j] = 0
\* What is known of the outcome of a mail at each place, and what its caller has heard.
OutcomeOK(j) ==
    /\ cur = j /\ lpc # "finish" => j \notin executed
    /\ cur = j /\ lpc = "finish" /\ res \in Business => j \in executed
    /\ j \in Invokes /\ result[j] \in Business => j \in executed
    /\ j \in Invokes /\ ret[j] \in Business => j \in executed
    /\ j \in late => /\ ctx[j] \notin {"none", "live"} /\ pc[j] = "done" /\ j \notin executed
                     /\ cur = j => lpc # "execute"

ActorInv == ActorTypeOK /\ HoldOK /\ KindsOK /\ \A j \in Mails : OwnerOK(j) /\ OutcomeOK(j)

\* Which of its fields each operator on a queue leaves alone (queue.go).
LEMMA QueueFields ==
    ASSUME NEW r \in QueueType, NEW v \in Jobs, NEW n \in Int, NEW t
    PROVE  /\ Swap(r, v) \in QueueType /\ Swap(r, v).items = Append(r.items, v)
           /\ Link(r, v) \in QueueType /\ Link(r, v).items = r.items
           /\ AddCount(r, n) \in QueueType /\ AddCount(r, n).items = r.items
           /\ Signal(r, t) \in QueueType /\ Signal(r, t).items = r.items
           /\ Receive(r) \in QueueType /\ Receive(r).items = r.items
           /\ Destroy(r) \in QueueType /\ Destroy(r).items = <<>>
<1>1. Append(r.items, v) \in Seq(Jobs)
    BY DEF QueueType
<1>2. Swap(r, v) \in QueueType /\ Swap(r, v).items = Append(r.items, v)
    BY <1>1 DEF QueueType, Swap
<1>3. Link(r, v) \in QueueType /\ Link(r, v).items = r.items
    BY DEF QueueType, Link
<1>4. AddCount(r, n) \in QueueType /\ AddCount(r, n).items = r.items
    BY DEF QueueType, AddCount
<1>5. Signal(r, t) \in QueueType /\ Signal(r, t).items = r.items
    BY DEF QueueType, Signal
<1>6. Receive(r) \in QueueType /\ Receive(r).items = r.items
    BY DEF QueueType, Receive
<1>7. Destroy(r) \in QueueType /\ Destroy(r).items = <<>>
    BY DEF QueueType, Destroy
<1> QED
    BY <1>2, <1>3, <1>4, <1>5, <1>6, <1>7

\* Pop takes the head of the list.
LEMMA PopFields ==
    ASSUME NEW r \in QueueType, r.items # <<>>
    PROVE  /\ PopItem(r) \in QueueType /\ PopItem(r).items = Tail(r.items) /\ Head(r.items) = r.items[1]
           /\ Len(r.items) \in Nat /\ Len(r.items) > 0 /\ Len(Tail(r.items)) = Len(r.items) - 1
           /\ \A i \in 1..Len(Tail(r.items)) : Tail(r.items)[i] = r.items[i + 1]
<1>1. r.items \in Seq(Jobs) /\ Tail(r.items) \in Seq(Jobs) /\ Head(r.items) = r.items[1]
    BY DEF QueueType
<1>2. Len(r.items) \in Nat /\ Len(r.items) > 0 /\ Len(Tail(r.items)) = Len(r.items) - 1
      /\ \A i \in 1..Len(Tail(r.items)) : Tail(r.items)[i] = r.items[i + 1]
    BY <1>1
<1>3. PopItem(r) \in QueueType /\ PopItem(r).items = Tail(r.items)
    BY <1>1 DEF QueueType, PopItem
<1> QED
    BY <1>1, <1>2, <1>3

\* A step after which every list is as before or empty.
LEMMA ListsKept ==
    ASSUME ActorInv, \A n \in Queues : q'[n].items \in {q[n].items, <<>>}
    PROVE  KindsOK' /\ \A k \in Mails : k \in Queued("mail")' => k \in Queued("mail")
<1>1. KindsOK /\ "mail" \in Queues
    BY DEF ActorInv, Queues
<1>2. KindsOK'
    BY <1>1 DEF KindsOK
<1>3. q'["mail"].items \in {q["mail"].items, <<>>}
    BY <1>1
<1> QED
    BY <1>2, <1>3 DEF Queued

\* A step of the goroutine of job j leaves the other mails alone.
LEMMA JobStep ==
    ASSUME ActorInv, NEW j \in Jobs, UNCHANGED <<lpc, curq, cur, res, executed, result>>, ActorTypeOK', KindsOK',
           \A k \in Mails : k # j => /\ pc'[k] = pc[k] /\ ctx'[k] = ctx[k] /\ recycles'[k] = recycles[k]
                                     /\ ret'[k] = ret[k] /\ (k \in late' => k \in late)
                                     /\ (k \in Queued("mail")' => k \in Queued("mail")),
           j \in Mails => OwnerOK(j)' /\ OutcomeOK(j)'
    PROVE  ActorInv'
<1>1. HoldOK'
    BY DEF ActorInv, HoldOK
<1>2. ASSUME NEW k \in Mails, k # j PROVE OwnerOK(k)' /\ OutcomeOK(k)'
    <2>1. OwnerOK(k) /\ OutcomeOK(k)
        BY DEF ActorInv
    <2>2. OwnerOK(k)'
        BY <1>2, <2>1 DEF OwnerOK
    <2>3. OutcomeOK(k)'
        BY <1>2, <2>1 DEF OutcomeOK
    <2> QED
        BY <2>2, <2>3
<1> QED
    BY <1>1, <1>2 DEF ActorInv

\* The steps of a job that push nothing: it moves from place to place, and its
\* context, its return value and its count of recyclings follow.
LEMMA PlainJobStep ==
    ASSUME ActorInv, NEW j \in Jobs,
           UNCHANGED <<lpc, curq, cur, res, executed, result>>,
           NEW place \in JobPlaces, pc' = [pc EXCEPT ![j] = place], place = "wait" => j \in Invokes,
           q' \in [Queues -> QueueType], \A n \in Queues : q'[n].items = q[n].items,
           ctx' \in [Mails -> {"none", "live", "expired", "cancelled"}],
           recycles' \in [Mails -> Nat], ret' \in [Mails -> Answers \cup {"NOT_FOUND"}], late' \subseteq Mails,
           \A k \in Mails : k # j => /\ ctx'[k] = ctx[k] /\ recycles'[k] = recycles[k] /\ ret'[k] = ret[k]
                                     /\ (k \in late' => k \in late),
           j \in Mails => OwnerOK(j)' /\ OutcomeOK(j)'
    PROVE  ActorInv'
<1>1. ActorTypeOK
    BY DEF ActorInv
<1>2. pc' \in [Jobs -> JobPlaces] /\ pc'[j] = place /\ \A k \in Jobs : k # j => pc'[k] = pc[k]
    BY <1>1 DEF ActorTypeOK
<1>3. ActorTypeOK'
    BY <1>1, <1>2 DEF ActorTypeOK
<1>4. KindsOK' /\ \A k \in Mails : k \in Queued("mail")' => k \in Queued("mail")
    BY ListsKept
<1> QED
    BY <1>2, <1>3, <1>4, JobStep DEF Jobs

\* The calls that begin, and the refusals of post.
LEMMA PostActorInv ==
    ASSUME ActorInv, NEW j \in Jobs, CallStart(j) \/ ChildCall(j) \/ EventStart(j) \/ Lookup(j) \/ CheckState(j)
    PROVE  ActorInv'
<1>1. ActorTypeOK /\ (j \in Mails => OwnerOK(j) /\ OutcomeOK(j))
    BY DEF ActorInv
<1>2. UNCHANGED <<lpc, curq, cur, res, executed, result, q, late>>
    BY DEF CallStart, ChildCall, EventStart, Lookup, CheckState, jobFrame, loopVars
<1>3. q' \in [Queues -> QueueType] /\ (\A n \in Queues : q'[n].items = q[n].items) /\ late' \subseteq Mails
    BY <1>1, <1>2 DEF ActorTypeOK
<1>4. Queued("mail")' = Queued("mail")
    BY <1>2 DEF Queued
<1>5. CASE j \in Mails /\ pc[j] = "start" /\ pc' = [pc EXCEPT ![j] = "lookup"] /\ ctx' = [ctx EXCEPT ![j] = "live"]
           /\ UNCHANGED <<ret, recycles>>
    <2>1. pc'[j] = "lookup" /\ ctx'[j] = "live" /\ \A k \in Mails : k # j => ctx'[k] = ctx[k]
        BY <1>1, <1>5 DEF ActorTypeOK
    <2>2. ctx' \in [Mails -> {"none", "live", "expired", "cancelled"}] /\ recycles' \in [Mails -> Nat]
          /\ ret' \in [Mails -> Answers \cup {"NOT_FOUND"}] /\ "lookup" \in JobPlaces
        BY <1>1, <1>5 DEF ActorTypeOK, JobPlaces
    <2>3. OwnerOK(j)'
        BY <1>1, <1>2, <1>4, <1>5, <2>1 DEF OwnerOK, Early, Late
    <2>4. OutcomeOK(j)'
        BY <1>1, <1>2, <1>4, <1>5, <2>1 DEF OutcomeOK
    <2> QED
        BY <1>2, <1>3, <1>5, <2>1, <2>2, <2>3, <2>4, PlainJobStep
<1>6. CASE j \in Mails /\ pc[j] = "start" /\ pc' = [pc EXCEPT ![j] = "rejected"] /\ ret' = [ret EXCEPT ![j] = "NOT_FOUND"]
           /\ UNCHANGED <<ctx, recycles>> /\ ctx[j] = "none"
    <2>1. pc'[j] = "rejected" /\ ret'[j] = "NOT_FOUND" /\ \A k \in Mails : k # j => ret'[k] = ret[k]
        BY <1>1, <1>6 DEF ActorTypeOK
    <2>2. ctx' \in [Mails -> {"none", "live", "expired", "cancelled"}] /\ recycles' \in [Mails -> Nat]
          /\ ret' \in [Mails -> Answers \cup {"NOT_FOUND"}] /\ "rejected" \in JobPlaces
        BY <1>1, <1>6 DEF ActorTypeOK, JobPlaces
    <2>3. OwnerOK(j)'
        BY <1>1, <1>2, <1>4, <1>6, <2>1 DEF OwnerOK, Early, Late
    <2>4. OutcomeOK(j)'
        BY <1>1, <1>2, <1>4, <1>6, <2>1 DEF OutcomeOK, Business
    <2> QED
        BY <1>2, <1>3, <1>6, <2>1, <2>2, <2>3, <2>4, PlainJobStep
<1>7. ASSUME pc[j] \in {"start", "lookup", "state"}, NEW place \in {"lookup", "state", "swap"}, pc' = [pc EXCEPT ![j] = place],
             UNCHANGED <<ret, recycles, ctx>>, pc[j] = "start" => j \notin Mails
      PROVE  ActorInv'
    <2>1. pc'[j] = place /\ place \in JobPlaces /\ pc[j] \in Early
        BY <1>1, <1>7 DEF ActorTypeOK, JobPlaces, Early
    <2>2. ctx' \in [Mails -> {"none", "live", "expired", "cancelled"}] /\ recycles' \in [Mails -> Nat]
          /\ ret' \in [Mails -> Answers \cup {"NOT_FOUND"}]
        BY <1>1, <1>7 DEF ActorTypeOK
    <2>3. ASSUME j \in Mails PROVE OwnerOK(j)'
        BY <1>1, <1>2, <1>4, <1>7, <2>1, <2>3 DEF OwnerOK, Late
    <2>4. ASSUME j \in Mails PROVE OutcomeOK(j)'
        BY <1>1, <1>2, <1>4, <1>7, <2>1, <2>4 DEF OutcomeOK
    <2> QED
        BY <1>2, <1>3, <1>7, <2>1, <2>2, <2>3, <2>4, PlainJobStep
<1>8. ASSUME pc[j] \in {"lookup", "state"}, Rejected(j) PROVE ActorInv'
    <2>1. pc' = [pc EXCEPT ![j] = "rejected"] /\ pc'[j] = "rejected" /\ "rejected" \in JobPlaces /\ pc[j] \in Early
        BY <1>1, <1>8 DEF ActorTypeOK, Rejected, JobPlaces, Early
    <2>2. CASE j \in Mails
        <3>1. /\ recycles' = [recycles EXCEPT ![j] = @ + 1] /\ ret' = [ret EXCEPT ![j] = "NOT_FOUND"]
              /\ ctx' = [ctx EXCEPT ![j] = IF j \in Notifies /\ @ = "live" THEN "cancelled" ELSE @]
            BY <1>8, <2>2 DEF Rejected, Recycle
        <3>2. recycles[j] = 0 /\ ctx[j] # "none" /\ ctx[j] \in {"live", "expired", "cancelled"}
            BY <1>1, <1>8, <2>1, <2>2 DEF OwnerOK, ActorTypeOK
        <3>3. /\ recycles'[j] = 1 /\ ctx'[j] \in {"live", "expired", "cancelled"} /\ ret'[j] = "NOT_FOUND"
              /\ \A k \in Mails : k # j => ctx'[k] = ctx[k] /\ recycles'[k] = recycles[k] /\ ret'[k] = ret[k]
            BY <1>1, <2>2, <3>1, <3>2 DEF ActorTypeOK
        <3>4. ctx' \in [Mails -> {"none", "live", "expired", "cancelled"}] /\ recycles' \in [Mails -> Nat]
              /\ ret' \in [Mails -> Answers \cup {"NOT_FOUND"}]
            BY <1>1, <2>2, <3>1 DEF ActorTypeOK
        <3>5. OwnerOK(j)'
            BY <1>1, <1>2, <1>4, <2>1, <2>2, <3>3 DEF OwnerOK, Early, Late
        <3>6. OutcomeOK(j)'
            BY <1>1, <1>2, <1>4, <1>8, <2>1, <2>2, <3>3 DEF OutcomeOK, Business
        <3> QED
            BY <1>2, <1>3, <2>1, <3>3, <3>4, <3>5, <3>6, PlainJobStep
    <2>3. CASE j \notin Mails
        BY <1>1, <1>2, <1>3, <1>8, <2>1, <2>3, PlainJobStep DEF Rejected, ActorTypeOK
    <2> QED
        BY <2>2, <2>3
<1> QED
    <2>1. CASE CallStart(j)
        <3>1. CASE routed
            BY <1>5, <2>1, <3>1 DEF CallStart
        <3>2. CASE ~routed
            <4>1. j \in Mails /\ ctx[j] = "none"
                BY <1>1, <2>1 DEF CallStart, OwnerOK
            <4> QED
                BY <1>6, <2>1, <3>2, <4>1 DEF CallStart
        <3> QED
            BY <3>1, <3>2
    <2>2. CASE ChildCall(j)
        BY <1>5, <2>2 DEF ChildCall
    <2>3. CASE EventStart(j)
        BY <1>7, <2>3, JobsAssumption DEF EventStart
    <2>4. CASE Lookup(j)
        BY <1>7, <1>8, <2>4 DEF Lookup
    <2>5. CASE CheckState(j)
        BY <1>7, <1>8, <2>5 DEF CheckState
    <2> QED
        BY <2>1, <2>2, <2>3, <2>4, <2>5

\* The push of post: SwapPointer hands the mail to the mailbox, what follows only
\* links, counts and signals it.
LEMMA PushActorInv ==
    ASSUME ActorInv, NEW j \in Jobs, PushSwap(j) \/ PushLink(j) \/ PushCount(j) \/ PushSignal(j)
    PROVE  ActorInv'
<1>1. ActorTypeOK /\ KindsOK /\ (j \in Mails => OwnerOK(j) /\ OutcomeOK(j))
    BY DEF ActorInv
<1>2. UNCHANGED <<lpc, curq, cur, res, executed, result, late, ctx, recycles>>
    BY DEF PushSwap, PushLink, PushCount, PushSignal, jobFrame, loopVars
<1>3. QueueOf(j) \in Queues /\ q[QueueOf(j)] \in QueueType /\ "mail" \in Queues /\ (j \in Mails => QueueOf(j) = "mail")
    BY <1>1 DEF QueueOf, Queues, ActorTypeOK
<1>4. /\ ctx' \in [Mails -> {"none", "live", "expired", "cancelled"}]
      /\ recycles' \in [Mails -> Nat] /\ late' \subseteq Mails
    BY <1>1, <1>2 DEF ActorTypeOK
<1>5. ASSUME NEW place \in {"count", "signal", "wait", "done", "panicked"}, pc' = [pc EXCEPT ![j] = place],
             pc[j] \in {"swap", "link", "count", "signal"}, place = "wait" => j \in Invokes,
             q' \in [Queues -> QueueType], \A n \in Queues : q'[n].items = q[n].items,
             ret' \in [Mails -> Answers \cup {"NOT_FOUND"}],
             \A k \in Mails : ret'[k] = ret[k] \/ (k = j /\ k \in Notifies)
      PROVE  ActorInv'
    <2>1. pc'[j] = place /\ place \in JobPlaces
        BY <1>1, <1>5 DEF ActorTypeOK, JobPlaces
    <2>2. Queued("mail")' = Queued("mail")
        BY <1>3, <1>5 DEF Queued
    <2>3. ASSUME j \in Mails PROVE OwnerOK(j)'
        BY <1>1, <1>2, <1>5, <2>1, <2>2, <2>3 DEF OwnerOK, Early, Late
    <2>4. ASSUME j \in Mails PROVE OutcomeOK(j)'
        <3>1. j \in Invokes => ret'[j] = ret[j]
            BY <1>5, <2>4, JobsAssumption
        <3> QED
            BY <1>1, <1>2, <1>5, <2>1, <2>2, <2>4, <3>1 DEF OutcomeOK
    <2> QED
        BY <1>2, <1>4, <1>5, <2>1, <2>3, <2>4, PlainJobStep
<1>6. CASE PushSwap(j) /\ q[QueueOf(j)].C = "closed"
    BY <1>1, <1>5, <1>6 DEF PushSwap, ActorTypeOK
<1>7. CASE PushSwap(j) /\ q[QueueOf(j)].C # "closed"
    <2> DEFINE m == QueueOf(j)
               s == q[m].items
    <2>1. pc' = [pc EXCEPT ![j] = "link"] /\ q' = [q EXCEPT ![m] = Swap(@, j)] /\ UNCHANGED ret /\ pc[j] = "swap"
        BY <1>7 DEF PushSwap
    <2>2. q' \in [Queues -> QueueType] /\ q'[m].items = Append(s, j) /\ (\A n \in Queues : n # m => q'[n] = q[n])
        <3>1. Swap(q[m], j) \in QueueType /\ Swap(q[m], j).items = Append(s, j)
            BY <1>3, 0 \in Int, QueueFields
        <3> QED
            BY <1>1, <1>3, <2>1, <3>1 DEF ActorTypeOK
    <2>3. pc' \in [Jobs -> JobPlaces] /\ pc'[j] = "link" /\ \A k \in Jobs : k # j => pc'[k] = pc[k]
        BY <1>1, <2>1 DEF ActorTypeOK, JobPlaces
    <2>4. s \in Seq(Jobs) /\ Len(s) \in Nat
        BY <1>3 DEF QueueType
    <2>5. /\ Len(Append(s, j)) = Len(s) + 1 /\ Append(s, j)[Len(s) + 1] = j
          /\ \A i \in 1..Len(s) : Append(s, j)[i] = s[i]
        BY <2>4
    <2>6. ActorTypeOK'
        <3>1. \A k \in Jobs : pc'[k] = "wait" => k \in Invokes
            BY <1>1, <2>3 DEF ActorTypeOK
        <3> QED
            BY <1>1, <1>2, <2>1, <2>2, <2>3, <3>1 DEF ActorTypeOK
    <2>7. \A n \in Queues : \A i \in 1..Len(q'[n].items) : QueueOf(q'[n].items[i]) = n
        <3> SUFFICES ASSUME NEW n \in Queues, NEW i \in 1..Len(q'[n].items) PROVE QueueOf(q'[n].items[i]) = n
            OBVIOUS
        <3>1. CASE n # m
            BY <1>1, <2>2, <3>1 DEF KindsOK
        <3>2. CASE n = m
            <4>1. i \in 1..(Len(s) + 1) /\ q'[n].items[i] = Append(s, j)[i]
                BY <2>2, <2>5, <3>2
            <4>2. CASE i = Len(s) + 1
                BY <2>5, <3>2, <4>1, <4>2
            <4>3. CASE i \in 1..Len(s)
                BY <1>1, <1>3, <2>5, <3>2, <4>1, <4>3 DEF KindsOK
            <4> QED
                BY <2>4, <4>1, <4>2, <4>3
        <3> QED
            BY <3>1, <3>2
    <2>8. ASSUME j \in Mails
          PROVE  /\ \A i, k \in 1..Len(q'["mail"].items) : q'["mail"].items[i] = q'["mail"].items[k] => i = k
                 /\ \A k \in Mails : k # j /\ k \in Queued("mail")' => k \in Queued("mail")
        <3>1. m = "mail" /\ j \notin Queued("mail")
            BY <1>1, <1>3, <2>1, <2>8 DEF OwnerOK, Early
        <3>2. q'["mail"].items = Append(s, j) /\ s = q["mail"].items
            BY <2>2, <3>1
        <3>3. \A i \in 1..Len(s) : s[i] # j
            BY <3>1, <3>2 DEF Queued
        <3>4. \A i, k \in 1..Len(s) : s[i] = s[k] => i = k
            BY <1>1, <3>2 DEF KindsOK
        <3>5. \A i, k \in 1..(Len(s) + 1) : Append(s, j)[i] = Append(s, j)[k] => i = k
            <4> SUFFICES ASSUME NEW i \in 1..(Len(s) + 1), NEW k \in 1..(Len(s) + 1), Append(s, j)[i] = Append(s, j)[k]
                         PROVE  i = k
                OBVIOUS
            <4>1. (i \in 1..Len(s) \/ i = Len(s) + 1) /\ (k \in 1..Len(s) \/ k = Len(s) + 1)
                BY <2>4
            <4> HIDE DEF s
            <4> QED
                BY <2>5, <3>3, <3>4, <4>1
        <3>6. \A k \in Mails : k # j /\ k \in Queued("mail")' => k \in Queued("mail")
            BY <2>4, <2>5, <3>2 DEF Queued
        <3> QED
            BY <2>5, <3>2, <3>5, <3>6
    <2>9. ASSUME j \notin Mails PROVE q'["mail"] = q["mail"]
        <3>1. m # "mail"
            BY <2>9 DEF QueueOf
        <3> QED
            BY <1>3, <2>2, <3>1
    <2>10. KindsOK' /\ \A k \in Mails : k # j /\ k \in Queued("mail")' => k \in Queued("mail")
        <3>1. CASE j \in Mails
            BY <2>7, <2>8, <3>1 DEF KindsOK
        <3>2. CASE j \notin Mails
            BY <1>1, <2>7, <2>9, <3>2 DEF KindsOK, Queued
        <3> QED
            BY <3>1, <3>2
    <2>11. ASSUME j \in Mails PROVE OwnerOK(j)' /\ OutcomeOK(j)'
        <3>1. OwnerOK(j)'
            BY <1>1, <1>2, <2>1, <2>3, <2>11 DEF OwnerOK, Early, Late
        <3>2. OutcomeOK(j)'
            BY <1>1, <1>2, <2>1, <2>3, <2>11 DEF OutcomeOK
        <3> QED
            BY <3>1, <3>2
    <2> QED
        BY <1>2, <2>1, <2>3, <2>6, <2>10, <2>11, JobStep DEF Jobs
<1>8. ASSUME NEW e \in QueueType, e.items = q[QueueOf(j)].items, q' = [q EXCEPT ![QueueOf(j)] = e]
      PROVE  q' \in [Queues -> QueueType] /\ \A n \in Queues : q'[n].items = q[n].items
    BY <1>1, <1>3, <1>8 DEF ActorTypeOK
<1>9. CASE PushLink(j)
    <2>1. q' \in [Queues -> QueueType] /\ \A n \in Queues : q'[n].items = q[n].items
        <3>1. Link(q[QueueOf(j)], j) \in QueueType /\ Link(q[QueueOf(j)], j).items = q[QueueOf(j)].items
            BY <1>3, 0 \in Int, QueueFields
        <3> QED
            BY <1>8, <1>9, <3>1 DEF PushLink
    <2> QED
        BY <1>1, <1>5, <1>9, <2>1 DEF PushLink, ActorTypeOK
<1>10. CASE PushCount(j)
    <2>1. q' \in [Queues -> QueueType] /\ \A n \in Queues : q'[n].items = q[n].items
        <3>1. AddCount(q[QueueOf(j)], 1) \in QueueType /\ AddCount(q[QueueOf(j)], 1).items = q[QueueOf(j)].items
            BY <1>3, 1 \in Int, QueueFields
        <3> QED
            BY <1>8, <1>10, <3>1 DEF PushCount
    <2> QED
        BY <1>1, <1>5, <1>10, <2>1 DEF PushCount, ActorTypeOK
<1>11. CASE PushSignal(j)
    <2>1. CASE SignalPanics(q[QueueOf(j)], local[j])
        BY <1>1, <1>5, <1>11, <2>1 DEF PushSignal, ActorTypeOK
    <2>2. CASE ~SignalPanics(q[QueueOf(j)], local[j])
        <3>1. q' \in [Queues -> QueueType] /\ \A n \in Queues : q'[n].items = q[n].items
            <4>1. /\ Signal(q[QueueOf(j)], local[j]) \in QueueType
                  /\ Signal(q[QueueOf(j)], local[j]).items = q[QueueOf(j)].items
                BY <1>3, 0 \in Int, QueueFields
            <4> QED
                BY <1>8, <1>11, <2>2, <4>1 DEF PushSignal
        <3>2. pc[j] = "signal" /\ pc' = [pc EXCEPT ![j] = IF j \in Invokes THEN "wait" ELSE "done"]
              /\ ret' = IF j \in Notifies THEN [ret EXCEPT ![j] = "OK"] ELSE ret
            BY <1>11, <2>2 DEF PushSignal
        <3>3. ret' \in [Mails -> Answers \cup {"NOT_FOUND"}] /\ \A k \in Mails : ret'[k] = ret[k] \/ (k = j /\ k \in Notifies)
            BY <1>1, <3>2 DEF ActorTypeOK, Answers, Mails
        <3>4. CASE j \in Invokes
            BY <1>5, <3>1, <3>2, <3>3, <3>4
        <3>5. CASE j \notin Invokes
            BY <1>5, <3>1, <3>2, <3>3, <3>5
        <3> QED
            BY <3>4, <3>5
    <2> QED
        BY <2>1, <2>2
<1> QED
    BY <1>6, <1>7, <1>9, <1>10, <1>11

\* The return of Invoke, which may give up a mail that is still queued.
LEMMA ReturnActorInv ==
    ASSUME ActorInv, NEW j \in Jobs, InvokeReturn(j)
    PROVE  ActorInv'
<1>1. ActorTypeOK /\ (j \in Mails => OwnerOK(j) /\ OutcomeOK(j)) /\ pc[j] = "wait"
    BY DEF ActorInv, InvokeReturn
<1>2. UNCHANGED <<lpc, curq, cur, res, executed, result, q, recycles>> /\ pc' = [pc EXCEPT ![j] = "done"]
    BY DEF InvokeReturn, jobFrame, loopVars
<1>3. CASE j \in Mails
    <2>1. j \in Invokes /\ ctx[j] \in {"live", "expired", "cancelled"}
        BY <1>1, <1>3 DEF OwnerOK, Late, ActorTypeOK
    <2>2. /\ ctx' \in [Mails -> {"none", "live", "expired", "cancelled"}] /\ ctx'[j] \in {"expired", "cancelled"}
          /\ \A k \in Mails : k # j => ctx'[k] = ctx[k]
        BY <1>1, <1>3, <2>1 DEF InvokeReturn, ActorTypeOK
    <2>3. pc'[j] = "done" /\ "done" \in JobPlaces
        BY <1>1, <1>2 DEF ActorTypeOK, JobPlaces
    <2>4. Queued("mail")' = Queued("mail")
        BY <1>2 DEF Queued
    <2>5. q' \in [Queues -> QueueType] /\ (\A n \in Queues : q'[n].items = q[n].items) /\ recycles' \in [Mails -> Nat]
        BY <1>1, <1>2 DEF ActorTypeOK
    <2>6. /\ ret' \in [Mails -> Answers \cup {"NOT_FOUND"}] /\ late' \subseteq Mails
          /\ \A k \in Mails : k # j => ret'[k] = ret[k] /\ (k \in late' => k \in late)
          /\ ret'[j] \in Business => j \in executed
          /\ j \in late' => j \in late \/ j \in Queued("mail")
        <3>1. CASE result[j] # "none" /\ ret' = [ret EXCEPT ![j] = result[j]] /\ UNCHANGED late
            BY <1>1, <1>3, <2>1, <3>1 DEF ActorTypeOK, OutcomeOK
        <3>2. CASE ret' = [ret EXCEPT ![j] = ctx[j]] /\ ctx[j] # "live"
                   /\ late' = IF j \in Queued("mail") THEN late \cup {j} ELSE late
            BY <1>1, <1>3, <2>1, <3>2 DEF ActorTypeOK, Answers, Business
        <3> QED
            BY <3>1, <3>2 DEF InvokeReturn
    <2>7. OwnerOK(j)'
        BY <1>1, <1>2, <1>3, <2>2, <2>3, <2>4 DEF OwnerOK, Early, Late
    <2>8. OutcomeOK(j)'
        BY <1>1, <1>2, <1>3, <2>1, <2>2, <2>3, <2>4, <2>6 DEF OutcomeOK, OwnerOK
    <2> QED
        BY <1>2, <2>2, <2>3, <2>5, <2>6, <2>7, <2>8, PlainJobStep
<1>4. CASE j \notin Mails
    BY <1>1, <1>4 DEF ActorTypeOK, Mails
<1> QED
    BY <1>3, <1>4

\* A context that ends by itself or by its ingress.
LEMMA ContextActorInv ==
    ASSUME ActorInv, NEW j \in Mails, Expire(j) \/ IngressCancel(j)
    PROVE  ActorInv'
<1>1. ActorTypeOK /\ KindsOK /\ OwnerOK(j) /\ OutcomeOK(j) /\ j \in Jobs
    BY DEF ActorInv, Jobs
<1>2. UNCHANGED <<lpc, curq, cur, res, executed, result, q, recycles, ret, pc, late>>
    BY DEF Expire, IngressCancel, loopVars, histVars
<1>3. /\ ctx[j] = "live" /\ ctx' \in [Mails -> {"none", "live", "expired", "cancelled"}]
      /\ ctx'[j] \in {"expired", "cancelled"} /\ \A k \in Mails : k # j => ctx'[k] = ctx[k]
    BY <1>1 DEF Expire, IngressCancel, ActorTypeOK
<1>4. Queued("mail")' = Queued("mail") /\ KindsOK'
    BY <1>1, <1>2 DEF Queued, KindsOK
<1>5. ActorTypeOK'
    BY <1>1, <1>2, <1>3 DEF ActorTypeOK
<1>6. OwnerOK(j)'
    BY <1>1, <1>2, <1>3, <1>4 DEF OwnerOK
<1>7. OutcomeOK(j)'
    BY <1>1, <1>2, <1>3, <1>4 DEF OutcomeOK
<1> QED
    BY <1>1, <1>2, <1>3, <1>4, <1>5, <1>6, <1>7, JobStep

\* The steps of the run goroutine that neither take up nor finish an item.
LEMMA PlainRunStep ==
    ASSUME ActorInv, UNCHANGED <<pc, ret, late, cur, ctx, recycles, result, executed>>,
           res' \in Answers, curq' \in Queues, HoldOK',
           q' \in [Queues -> QueueType], \A n \in Queues : q'[n].items \in {q[n].items, <<>>},
           lpc # "finish", lpc' = "finish" => res' \notin Business, lpc' = "execute" /\ cur \in Mails => ctx[cur] = "live"
    PROVE  ActorInv'
<1>1. ActorTypeOK
    BY DEF ActorInv
<1>2. ActorTypeOK'
    BY <1>1 DEF ActorTypeOK
<1>3. KindsOK' /\ \A k \in Mails : k \in Queued("mail")' => k \in Queued("mail")
    BY ListsKept
<1>4. ASSUME NEW k \in Mails PROVE OwnerOK(k)' /\ OutcomeOK(k)'
    <2>1. OwnerOK(k) /\ OutcomeOK(k)
        BY DEF ActorInv
    <2>2. OwnerOK(k)'
        BY <1>3, <2>1 DEF OwnerOK
    <2>3. OutcomeOK(k)'
        BY <2>1 DEF OutcomeOK
    <2> QED
        BY <2>2, <2>3
<1> QED
    BY <1>2, <1>3, <1>4 DEF ActorInv

\* OnInit, the head of the loop, select, the rest of Pop, invokeTyped up to the
\* business function and onStop.
LEMMA LoopActorInv ==
    ASSUME ActorInv, \/ OnInitRegister \/ InitDone \/ LoopCheck \/ (\E n \in Queues : SelectQueue(n)) \/ SelectClose
                     \/ LoopPopCount \/ Handle \/ OnStopUnpublish \/ OnStopHandler \/ OnStopQueues \/ WgDone
    PROVE  ActorInv'
<1>1. ActorTypeOK /\ HoldOK /\ "event" \in Queues /\ "mail" \in Queues /\ curq \in Queues /\ q[curq] \in QueueType
    BY DEF ActorInv, ActorTypeOK, Queues
<1>2. ASSUME UNCHANGED q PROVE q' \in [Queues -> QueueType] /\ \A n \in Queues : q'[n].items \in {q[n].items, <<>>}
    BY <1>1, <1>2 DEF ActorTypeOK
<1>3. ASSUME NEW n \in Queues, NEW e \in QueueType, e.items \in {q[n].items, <<>>}, q' = [q EXCEPT ![n] = e]
      PROVE  q' \in [Queues -> QueueType] /\ \A k \in Queues : q'[k].items \in {q[k].items, <<>>}
    BY <1>1, <1>3 DEF ActorTypeOK
<1>4. ASSUME NEW n \in Queues, NEW t
      PROVE  /\ Receive(q[n]) \in QueueType /\ Receive(q[n]).items = q[n].items
             /\ Signal(q[n], t) \in QueueType /\ Signal(q[n], t).items = q[n].items
             /\ AddCount(q[n], -1) \in QueueType /\ AddCount(q[n], -1).items = q[n].items
             /\ Destroy(q[n]) \in QueueType /\ Destroy(q[n]).items = <<>>
    <2>1. q[n] \in QueueType /\ -1 \in Int
        BY <1>1 DEF ActorTypeOK
    <2>2. CASE Jobs # {}
        <3>1. PICK v \in Jobs : TRUE
            BY <2>2
        <3> QED
            BY <2>1, <3>1, QueueFields
    <2>3. CASE Jobs = {}
        BY <2>1, <2>3 DEF QueueType, Receive, Signal, AddCount, Destroy
    <2> QED
        BY <2>2, <2>3
<1>5. CASE OnInitRegister \/ InitDone \/ LoopCheck \/ SelectClose \/ OnStopUnpublish \/ OnStopHandler \/ WgDone
    <2>1. /\ UNCHANGED <<pc, ret, late, cur, ctx, recycles, result, executed, res, curq, q>>
          /\ lpc \in {"init", "registered", "loop", "loopEvent", "select", "unroute", "remove", "handlerStop", "wgDone"}
          /\ lpc' \in {"registered", "loop", "loopEvent", "select", "unroute", "remove", "handlerStop", "timerStop", "wgDone", "ended"}
        BY <1>5 DEF OnInitRegister, InitDone, LoopCheck, SelectClose, OnStopUnpublish, OnStopHandler, WgDone,
                    stopFrame, loopFrame
    <2>2. HoldOK' /\ res' \in Answers
        BY <1>1, <2>1 DEF HoldOK, ActorTypeOK
    <2> QED
        BY <1>1, <1>2, <2>1, <2>2, PlainRunStep
<1>6. CASE OnStopQueues
    <2>1. /\ UNCHANGED <<pc, ret, late, cur, ctx, recycles, result, executed, res, curq>>
          /\ lpc \in {"timerStop", "eventStop", "mailStop"} /\ lpc' \in {"eventStop", "mailStop", "wgDone"}
        BY <1>6 DEF OnStopQueues, stopFrame, loopFrame
    <2>2. HoldOK' /\ res' \in Answers
        BY <1>1, <2>1 DEF HoldOK, ActorTypeOK
    <2>3. UNCHANGED q \/ \E n \in {"event", "mail"} : q' = [q EXCEPT ![n] = Destroy(q[n])]
        BY <1>6 DEF OnStopQueues
    <2>4. q' \in [Queues -> QueueType] /\ \A n \in Queues : q'[n].items \in {q[n].items, <<>>}
        BY <1>1, <1>2, <1>3, <1>4, <2>3
    <2> QED
        BY <1>1, <2>1, <2>2, <2>4, PlainRunStep
<1>7. ASSUME NEW n \in Queues, SelectQueue(n) PROVE ActorInv'
    <2>1. /\ UNCHANGED <<pc, ret, late, cur, ctx, recycles, result, executed, res>>
          /\ lpc = "select" /\ lpc' = "pop" /\ curq' = n /\ q' = [q EXCEPT ![n] = Receive(q[n])]
        BY <1>7 DEF SelectQueue, loopFrame
    <2>2. HoldOK' /\ res' \in Answers
        BY <1>1, <2>1 DEF HoldOK, ActorTypeOK
    <2>3. q' \in [Queues -> QueueType] /\ \A k \in Queues : q'[k].items \in {q[k].items, <<>>}
        BY <1>3, <1>4, <2>1
    <2> QED
        BY <2>1, <2>2, <2>3, PlainRunStep
<1>8. CASE LoopPopCount
    <2>1. /\ UNCHANGED <<pc, ret, late, cur, ctx, recycles, result, executed, res, curq>>
          /\ lpc \in {"popCount", "popSignal"} /\ lpc' \in {"popSignal", "handle"}
          /\ q' = [q EXCEPT ![curq] = AddCount(q[curq], -1)] \/ q' = [q EXCEPT ![curq] = Signal(q[curq], llocal)]
        BY <1>8 DEF LoopPopCount, loopFrame
    <2>2. HoldOK' /\ res' \in Answers
        BY <1>1, <2>1 DEF HoldOK, ActorTypeOK
    <2>3. q' \in [Queues -> QueueType] /\ \A k \in Queues : q'[k].items \in {q[k].items, <<>>}
        BY <1>1, <1>3, <1>4, <2>1
    <2> QED
        BY <1>1, <2>1, <2>2, <2>3, PlainRunStep
<1>9. CASE Handle
    <2>1. /\ UNCHANGED <<pc, ret, late, cur, ctx, recycles, result, executed, q, curq>> /\ lpc = "handle" /\ cur \in Jobs
        BY <1>1, <1>9 DEF Handle, loopFrame, HoldOK
    <2>2. \/ cur \in Mails /\ ctx[cur] # "live" /\ res' = ctx[cur] /\ lpc' = "finish"
          \/ cur \in Mails /\ res' = "REFUSED" /\ lpc' = "finish"
          \/ (cur \in Mails => ctx[cur] = "live") /\ lpc' = "execute" /\ res' = res
        BY <1>9 DEF Handle
    <2>3. HoldOK'
        BY <2>1, <2>2 DEF HoldOK
    <2>4. res' \in Answers /\ (lpc' = "finish" => res' \notin Business)
        BY <1>1, <2>1, <2>2 DEF ActorTypeOK, Answers, Business
    <2>5. lpc' = "execute" /\ cur \in Mails => ctx[cur] = "live"
        BY <2>2
    <2> QED
        BY <1>1, <1>2, <2>1, <2>3, <2>4, <2>5, PlainRunStep
<1> QED
    BY <1>5, <1>6, <1>7, <1>8, <1>9

\* Pop: the item leaves the list and is held, and no other is.
LEMMA PopActorInv ==
    ASSUME ActorInv, LoopPop
    PROVE  ActorInv'
<1> DEFINE s == q[curq].items
           v == Head(s)
<1>1. ActorTypeOK /\ HoldOK /\ KindsOK /\ curq \in Queues /\ q[curq] \in QueueType /\ lpc = "pop" /\ cur = NoJob
      /\ "mail" \in Queues
    BY DEF ActorInv, ActorTypeOK, LoopPop, HoldOK, Queues
<1>2. UNCHANGED <<pc, ret, late, ctx, recycles, result, executed, res, curq>>
    BY DEF LoopPop, loopFrame
<1>3. CASE ~CanPop(q[curq])
    <2>1. UNCHANGED <<q, cur>> /\ lpc' = "loop"
        BY <1>3 DEF LoopPop
    <2>2. HoldOK' /\ res' \in Answers /\ q' \in [Queues -> QueueType] /\ \A n \in Queues : q'[n].items \in {q[n].items, <<>>}
        BY <1>1, <1>2, <2>1 DEF HoldOK, ActorTypeOK
    <2> QED
        BY <1>1, <1>2, <2>1, <2>2, PlainRunStep
<1>4. CASE CanPop(q[curq])
    <2>1. cur' = v /\ q' = [q EXCEPT ![curq] = PopItem(q[curq])] /\ lpc' = "popCount" /\ s # <<>>
        BY <1>4 DEF LoopPop, CanPop
    <2>2. /\ PopItem(q[curq]) \in QueueType /\ PopItem(q[curq]).items = Tail(s) /\ v = s[1] /\ s \in Seq(Jobs)
          /\ Len(s) \in Nat /\ Len(s) > 0 /\ Len(Tail(s)) = Len(s) - 1
          /\ \A i \in 1..Len(Tail(s)) : Tail(s)[i] = s[i + 1]
        BY <1>1, <2>1, PopFields DEF QueueType
    <2>3. v \in Jobs /\ v # NoJob /\ QueueOf(v) = curq
        BY <1>1, <2>2, JobsAssumption DEF KindsOK
    <2>4. /\ q' \in [Queues -> QueueType] /\ q'[curq].items = Tail(s)
          /\ \A n \in Queues : n # curq => q'[n] = q[n]
        BY <1>1, <2>1, <2>2 DEF ActorTypeOK
    <2>5. ActorTypeOK' /\ HoldOK'
        BY <1>1, <1>2, <2>1, <2>3, <2>4 DEF ActorTypeOK, HoldOK
    <2> HIDE DEF v, s
    <2>6. \A n \in Queues : \A i \in 1..Len(q'[n].items) : QueueOf(q'[n].items[i]) = n
        <3> SUFFICES ASSUME NEW n \in Queues, NEW i \in 1..Len(q'[n].items) PROVE QueueOf(q'[n].items[i]) = n
            OBVIOUS
        <3>1. CASE n # curq
            BY <1>1, <2>4, <3>1 DEF KindsOK
        <3>2. CASE n = curq
            <4>1. i + 1 \in 1..Len(s) /\ q'[n].items[i] = s[i + 1]
                BY <2>2, <2>4, <3>2
            <4> QED
                BY <1>1, <3>2, <4>1 DEF KindsOK, s
        <3> QED
            BY <3>1, <3>2
    <2>7. CASE curq = "mail"
        <3>1. s = q["mail"].items /\ q'["mail"].items = Tail(s) /\ \A i, k \in 1..Len(s) : s[i] = s[k] => i = k
            BY <1>1, <2>4, <2>7 DEF KindsOK, s
        <3>2. \A i, k \in 1..Len(Tail(s)) : Tail(s)[i] = Tail(s)[k] => i = k
            <4> SUFFICES ASSUME NEW i \in 1..Len(Tail(s)), NEW k \in 1..Len(Tail(s)), Tail(s)[i] = Tail(s)[k]
                         PROVE  i = k
                OBVIOUS
            <4>1. i + 1 \in 1..Len(s) /\ k + 1 \in 1..Len(s) /\ s[i + 1] = s[k + 1]
                BY <2>2
            <4>2. i + 1 = k + 1
                BY <3>1, <4>1
            <4> QED
                BY <2>2, <4>2
        <3>3. \A i \in 1..Len(Tail(s)) : Tail(s)[i] # v
            <4> SUFFICES ASSUME NEW i \in 1..Len(Tail(s)), Tail(s)[i] = v PROVE FALSE
                OBVIOUS
            <4>1. i + 1 \in 1..Len(s) /\ 1 \in 1..Len(s) /\ s[i + 1] = s[1]
                BY <2>2
            <4>2. i + 1 = 1
                BY <3>1, <4>1
            <4> QED
                BY <2>2, <4>2
        <3>4. KindsOK'
            BY <2>6, <3>1, <3>2 DEF KindsOK
        <3>5. v \in Queued("mail") /\ v \notin Queued("mail")'
            BY <2>2, <3>1, <3>3 DEF Queued
        <3>6. \A k \in Mails : k \in Queued("mail")' => k \in Queued("mail")
            <4> SUFFICES ASSUME NEW k \in Mails, k \in Queued("mail")' PROVE k \in Queued("mail")
                OBVIOUS
            <4>1. PICK i \in 1..Len(Tail(s)) : k = Tail(s)[i]
                BY <3>1 DEF Queued
            <4>2. i + 1 \in 1..Len(s) /\ k = s[i + 1]
                BY <2>2, <4>1
            <4> QED
                BY <3>1, <4>2 DEF Queued
        <3>7. ASSUME NEW k \in Mails PROVE OwnerOK(k)' /\ OutcomeOK(k)'
            <4>1. OwnerOK(k) /\ OutcomeOK(k)
                BY DEF ActorInv
            <4>2. OwnerOK(k)'
                BY <1>2, <2>1, <3>5, <3>6, <4>1 DEF OwnerOK, Early
            <4>3. OutcomeOK(k)'
                BY <1>2, <2>1, <3>5, <4>1 DEF OutcomeOK, OwnerOK
            <4> QED
                BY <4>2, <4>3
        <3> QED
            BY <2>5, <3>4, <3>7 DEF ActorInv
    <2>8. CASE curq # "mail"
        <3>1. q'["mail"] = q["mail"] /\ v \notin Mails
            BY <1>1, <2>3, <2>4, <2>8 DEF QueueOf
        <3>2. KindsOK' /\ Queued("mail")' = Queued("mail")
            BY <1>1, <2>6, <3>1 DEF KindsOK, Queued
        <3>3. ASSUME NEW k \in Mails PROVE OwnerOK(k)' /\ OutcomeOK(k)'
            <4>1. OwnerOK(k) /\ OutcomeOK(k) /\ cur' # k
                BY <2>1, <3>1 DEF ActorInv
            <4>2. OwnerOK(k)'
                BY <1>2, <3>2, <4>1 DEF OwnerOK
            <4>3. OutcomeOK(k)'
                BY <1>2, <4>1 DEF OutcomeOK
            <4> QED
                BY <4>2, <4>3
        <3> QED
            BY <2>5, <3>2, <3>3 DEF ActorInv
    <2> QED
        BY <2>7, <2>8
<1> QED
    BY <1>3, <1>4

\* The business function runs.
LEMMA ExecuteActorInv ==
    ASSUME ActorInv, Execute
    PROVE  ActorInv'
<1>1. ActorTypeOK /\ HoldOK /\ KindsOK /\ lpc = "execute" /\ cur \in Jobs /\ cur # NoJob
    BY JobsAssumption DEF ActorInv, Execute, HoldOK
<1>2. UNCHANGED <<pc, ret, late, ctx, recycles, result, q, curq>> /\ executed' = executed \cup {cur}
    BY DEF Execute, loopFrame
<1>3. \/ cur \in Mails /\ res' \in {"OK", "INTERNAL"} /\ lpc' = "finish" /\ cur' = cur
      \/ cur \notin Mails /\ cur' = NoJob /\ lpc' = "loop" /\ res' = res
    BY DEF Execute
<1>4. res' \in Answers /\ cur' \in Jobs \cup {NoJob}
    BY <1>1, <1>3 DEF ActorTypeOK, Answers
<1>5. ActorTypeOK' /\ HoldOK'
    BY <1>1, <1>2, <1>3, <1>4 DEF ActorTypeOK, HoldOK
<1>6. KindsOK' /\ Queued("mail")' = Queued("mail")
    BY <1>1, <1>2 DEF KindsOK, Queued
<1>7. ASSUME NEW k \in Mails PROVE OwnerOK(k)' /\ OutcomeOK(k)'
    <2>1. OwnerOK(k) /\ OutcomeOK(k) /\ k # NoJob
        BY JobsAssumption DEF ActorInv, Jobs
    <2>2. OwnerOK(k)'
        BY <1>2, <1>3, <1>6, <2>1 DEF OwnerOK
    <2>3. OutcomeOK(k)'
        BY <1>1, <1>2, <1>3, <2>1 DEF OutcomeOK
    <2> QED
        BY <2>2, <2>3
<1> QED
    BY <1>5, <1>6, <1>7 DEF ActorInv

\* finishTyped sends the result and recycles the mail.
LEMMA FinishActorInv ==
    ASSUME ActorInv, Finish
    PROVE  ActorInv'
<1>1. ActorTypeOK /\ HoldOK /\ KindsOK /\ lpc = "finish" /\ cur \in Mails /\ cur # NoJob /\ OwnerOK(cur) /\ OutcomeOK(cur)
    BY JobsAssumption DEF ActorInv, Finish, HoldOK, Jobs
<1>2. UNCHANGED <<pc, ret, late, q, curq, executed>> /\ cur' = NoJob /\ res' = "none" /\ lpc' = "loop"
    BY DEF Finish, loopFrame
<1>3. /\ recycles' = [recycles EXCEPT ![cur] = @ + 1]
      /\ ctx' = [ctx EXCEPT ![cur] = IF cur \in Notifies /\ @ = "live" THEN "cancelled" ELSE @]
    BY DEF Finish, Recycle
<1>4. /\ result' \in [Invokes -> Answers]
      /\ \A k \in Invokes : k # cur => result'[k] = result[k]
      /\ cur \in Invokes => result'[cur] = res
    BY <1>1 DEF Finish, ActorTypeOK
<1>5. /\ recycles' \in [Mails -> Nat] /\ recycles[cur] = 0 /\ recycles'[cur] = 1
      /\ \A k \in Mails : k # cur => recycles'[k] = recycles[k]
    BY <1>1, <1>3 DEF ActorTypeOK, OwnerOK
<1>6. /\ ctx' \in [Mails -> {"none", "live", "expired", "cancelled"}]
      /\ \A k \in Mails : ctx'[k] = ctx[k] \/ (ctx[k] = "live" /\ ctx'[k] = "cancelled")
    BY <1>1, <1>3 DEF ActorTypeOK
<1>7. ActorTypeOK' /\ HoldOK'
    BY <1>1, <1>2, <1>4, <1>5, <1>6 DEF ActorTypeOK, HoldOK, Answers
<1>8. KindsOK' /\ Queued("mail")' = Queued("mail")
    BY <1>1, <1>2 DEF KindsOK, Queued
<1>9. ASSUME NEW k \in Mails PROVE OwnerOK(k)' /\ OutcomeOK(k)'
    <2>1. OwnerOK(k) /\ OutcomeOK(k) /\ k # NoJob
        BY JobsAssumption DEF ActorInv, Jobs
    <2>2. CASE k # cur
        <3>1. recycles'[k] = recycles[k] /\ (ctx'[k] = ctx[k] \/ (ctx[k] = "live" /\ ctx'[k] = "cancelled"))
              /\ (k \in Invokes => result'[k] = result[k])
            BY <1>4, <1>5, <1>6, <2>2
        <3>2. OwnerOK(k)'
            BY <1>2, <1>8, <2>1, <3>1 DEF OwnerOK
        <3>3. OutcomeOK(k)'
            BY <1>2, <2>1, <3>1 DEF OutcomeOK
        <3> QED
            BY <3>2, <3>3
    <2>3. CASE k = cur
        <3>1. recycles[k] = 0 /\ recycles'[k] = 1 /\ (ctx'[k] = ctx[k] \/ (ctx[k] = "live" /\ ctx'[k] = "cancelled"))
              /\ (k \in Invokes => result'[k] = res) /\ k \notin Queued("mail")
            BY <1>1, <1>4, <1>5, <1>6, <2>3 DEF OwnerOK
        <3>2. OwnerOK(k)'
            BY <1>2, <1>8, <2>1, <2>3, <3>1 DEF OwnerOK
        <3>3. OutcomeOK(k)'
            BY <1>1, <1>2, <2>1, <2>3, <3>1 DEF OutcomeOK
        <3> QED
            BY <3>2, <3>3
    <2> QED
        BY <2>2, <2>3
<1> QED
    BY <1>7, <1>8, <1>9 DEF ActorInv

\* Exit leaves the goroutines and the queues where they are.
LEMMA StutterActorInv ==
    ASSUME ActorInv, Exit \/ UNCHANGED vars
    PROVE  ActorInv'
<1>1. UNCHANGED <<loopVars, q, jobVars, executed, late>>
    BY DEF Exit, vars, histVars
<1> QED
    BY <1>1 DEF ActorInv, ActorTypeOK, HoldOK, KindsOK, OwnerOK, OutcomeOK, Queued, loopVars, jobVars

\* A new Actor has empty queues and no caller has posted anything.
LEMMA InitActorInv ==
    ASSUME Init
    PROVE  ActorInv
<1>1. newQueue \in QueueType /\ newQueue.items = <<>> /\ Len(newQueue.items) = 0
    BY DEF newQueue, QueueType
<1>2. pc \in [Jobs -> {"start", "absent"}]
    BY DEF Init
<1>3. ActorTypeOK
    BY <1>1, <1>2 DEF Init, ActorTypeOK, JobPlaces, Answers, Queues
<1>4. \A n \in Queues : q[n].items = <<>> /\ Len(q[n].items) = 0
    BY <1>1 DEF Init
<1>5. KindsOK /\ Queued("mail") = {} /\ HoldOK
    BY <1>4 DEF Init, KindsOK, Queued, HoldOK, Queues
<1>6. ASSUME NEW j \in Mails PROVE OwnerOK(j) /\ OutcomeOK(j)
    <2>1. /\ pc[j] \in {"start", "absent"} /\ cur # j /\ recycles[j] = 0 /\ ctx[j] = "none" /\ executed = {} /\ late = {}
          /\ ret[j] = "none" /\ (j \in Invokes => result[j] = "none")
        BY <1>2, JobsAssumption DEF Init, Jobs
    <2>2. OwnerOK(j)
        BY <1>5, <2>1 DEF OwnerOK, Early, Late
    <2>3. OutcomeOK(j)
        BY <2>1 DEF OutcomeOK, Business
    <2> QED
        BY <2>2, <2>3
<1> QED
    BY <1>3, <1>5, <1>6 DEF ActorInv

\* Every behaviour of an Actor stays within ActorInv.
LEMMA ActorInvariant == Spec => []ActorInv
<1>1. Init => ActorInv
    BY InitActorInv
<1>2. ActorInv /\ [Next]_vars => ActorInv'
    <2> SUFFICES ASSUME ActorInv, [Next]_vars PROVE ActorInv'
        OBVIOUS
    <2>1. CASE Run
        BY <2>1, LoopActorInv, PopActorInv, ExecuteActorInv, FinishActorInv DEF Run
    <2>2. CASE Exit \/ UNCHANGED vars
        BY <2>2, StutterActorInv
    <2>3. ASSUME NEW j \in Jobs, CallStart(j) \/ ChildCall(j) \/ EventStart(j) \/ Step(j) PROVE ActorInv'
        BY <2>3, PostActorInv, PushActorInv, ReturnActorInv DEF Step
    <2>4. ASSUME NEW j \in Mails, Expire(j) \/ IngressCancel(j) PROVE ActorInv'
        BY <2>4, ContextActorInv
    <2> QED
        BY <2>1, <2>2, <2>3, <2>4 DEF Next
<1> QED
    BY <1>1, <1>2, PTL DEF Spec

\* A message that has reached its push is recycled, queued, held by the loop, or was
\* in a mailbox that has been destroyed.
LeftOK(j) == pc[j] \in Late => recycles[j] = 1 \/ j \in Queued("mail") \/ cur = j \/ q["mail"].C = "closed"
LeftInv == (q["mail"].C = "closed" => lpc \in {"wgDone", "ended"}) /\ \A j \in Mails : LeftOK(j)

\* The steps that neither open nor close the mailbox's channel for good, nor take
\* a message from where it is.
LEMMA PlainLeft ==
    ASSUME LeftInv, (q["mail"].C = "closed") <=> (q'["mail"].C = "closed"),
           lpc \in {"wgDone", "ended"} => lpc' \in {"wgDone", "ended"},
           \A k \in Mails : pc'[k] \in Late => \/ recycles'[k] = 1 \/ k \in Queued("mail")' \/ cur' = k
                                               \/ q'["mail"].C = "closed" \/ pc[k] \in Late,
           \A k \in Mails : pc[k] \in Late => /\ (recycles[k] = 1 => recycles'[k] = 1)
                                              /\ (k \in Queued("mail") => k \in Queued("mail")')
                                              /\ (cur = k => cur' = k)
    PROVE  LeftInv'
BY DEF LeftInv, LeftOK

\* The operators of module Queue that neither queue nor drop an item close no channel.
LEMMA ChannelKept ==
    ASSUME ActorInv, NEW n \in Queues, NEW v, NEW c, NEW t,
           \/ UNCHANGED q
           \/ q' = [q EXCEPT ![n] = Link(q[n], v)]
           \/ q' = [q EXCEPT ![n] = AddCount(q[n], c)]
           \/ q' = [q EXCEPT ![n] = Signal(q[n], t)]
           \/ q' = [q EXCEPT ![n] = Receive(q[n])] /\ q[n].C = "full"
    PROVE  q'["mail"].items = q["mail"].items /\ ((q["mail"].C = "closed") <=> (q'["mail"].C = "closed"))
<1>1. q \in [Queues -> QueueType] /\ "mail" \in Queues /\ q[n] \in QueueType
    BY DEF ActorInv, ActorTypeOK, Queues
<1>2. CASE UNCHANGED q
    BY <1>2
<1>3. ASSUME NEW e, q' = [q EXCEPT ![n] = e], e.items = q[n].items, (e.C = "closed") <=> (q[n].C = "closed")
      PROVE  q'["mail"].items = q["mail"].items /\ ((q["mail"].C = "closed") <=> (q'["mail"].C = "closed"))
    BY <1>1, <1>3
<1>4. /\ Link(q[n], v).items = q[n].items /\ Link(q[n], v).C = q[n].C
      /\ AddCount(q[n], c).items = q[n].items /\ AddCount(q[n], c).C = q[n].C
      /\ Receive(q[n]).items = q[n].items /\ Receive(q[n]).C = "empty"
    BY <1>1 DEF QueueType, Link, AddCount, Receive
<1>5. Signal(q[n], t).items = q[n].items /\ ((Signal(q[n], t).C = "closed") <=> (q[n].C = "closed"))
    BY <1>1 DEF QueueType, Signal
<1> QED
    BY <1>2, <1>3, <1>4, <1>5

\* The job j: it becomes the mailbox's at the swap, unless the mailbox is destroyed.
LEMMA JobLeft ==
    ASSUME ActorInv, LeftInv, NEW j \in Jobs, CallStart(j) \/ ChildCall(j) \/ EventStart(j) \/ Step(j)
    PROVE  LeftInv'
<1>1. ActorTypeOK /\ "mail" \in Queues /\ q["mail"] \in QueueType /\ QueueOf(j) \in Queues
    BY DEF ActorInv, ActorTypeOK, Queues, QueueOf
<1>2. UNCHANGED <<lpc, cur>>
    BY DEF CallStart, ChildCall, EventStart, Step, Lookup, CheckState, PushSwap, PushLink, PushCount, PushSignal,
           InvokeReturn, jobFrame, loopVars
<1>3. CASE CallStart(j) \/ ChildCall(j) \/ EventStart(j)
    <2>1. UNCHANGED <<q, recycles>> /\ pc[j] = "start" /\ \E p \in {"lookup", "rejected", "swap"} : pc' = [pc EXCEPT ![j] = p]
        BY <1>3 DEF CallStart, ChildCall, EventStart
    <2>2. \A k \in Mails : pc'[k] \in Late => pc[k] \in Late
        BY <1>1, <2>1 DEF ActorTypeOK, Late, Jobs
    <2> QED
        BY <1>2, <2>1, <2>2, PlainLeft DEF Queued
<1>4. CASE Lookup(j) \/ CheckState(j)
    <2>1. /\ UNCHANGED q /\ pc[j] \in {"lookup", "state"}
          /\ \E p \in {"rejected", "swap", "state"} : pc' = [pc EXCEPT ![j] = p]
          /\ recycles' = recycles \/ recycles' = [recycles EXCEPT ![j] = @ + 1]
        BY <1>4 DEF Lookup, CheckState, Rejected, Recycle
    <2>2. \A k \in Mails : /\ pc'[k] \in Late => pc[k] \in Late
                           /\ pc[k] \in Late => recycles'[k] = recycles[k]
        BY <1>1, <2>1 DEF ActorTypeOK, Late, Jobs
    <2> QED
        BY <1>2, <2>1, <2>2, PlainLeft DEF Queued
<1>5. CASE PushSwap(j)
    <2>1. pc[j] = "swap" /\ UNCHANGED recycles
        BY <1>5 DEF PushSwap
    <2>2. CASE q[QueueOf(j)].C = "closed" /\ pc' = [pc EXCEPT ![j] = "panicked"] /\ UNCHANGED q
        <3>1. \A k \in Mails : pc'[k] \in Late => q["mail"].C = "closed" \/ pc[k] \in Late
            BY <1>1, <2>2 DEF ActorTypeOK, Late, Jobs, QueueOf
        <3> QED
            BY <1>2, <2>1, <2>2, <3>1, PlainLeft DEF Queued
    <2>3. CASE /\ pc' = [pc EXCEPT ![j] = "link"] /\ q' = [q EXCEPT ![QueueOf(j)] = Swap(q[QueueOf(j)], j)]
        <3> DEFINE n == QueueOf(j)
        <3>1. q[n] \in QueueType /\ Swap(q[n], j).items = Append(q[n].items, j) /\ Swap(q[n], j).C = q[n].C
            <4>1. q[n] \in QueueType
                BY <1>1 DEF ActorTypeOK
            <4> QED
                BY <4>1, QueueFields DEF Swap, QueueType
        <3>2. q'["mail"].C = q["mail"].C
            BY <1>1, <2>3, <3>1 DEF ActorTypeOK
        <3>3. \A k \in Mails : k \in Queued("mail") => k \in Queued("mail")'
            <4>1. CASE n = "mail"
                <5>1. q'["mail"].items = Append(q["mail"].items, j) /\ q["mail"].items \in Seq(Jobs)
                    BY <1>1, <2>3, <3>1, <4>1 DEF ActorTypeOK, QueueType
                <5>2. /\ Len(q'["mail"].items) = Len(q["mail"].items) + 1 /\ Len(q["mail"].items) \in Nat
                      /\ \A i \in 1..Len(q["mail"].items) : q'["mail"].items[i] = q["mail"].items[i]
                    BY <5>1
                <5> QED
                    BY <5>2 DEF Queued
            <4>2. CASE n # "mail"
                BY <1>1, <2>3, <4>2 DEF ActorTypeOK, Queued
            <4> QED
                BY <4>1, <4>2
        <3>4. j \in Mails => j \in Queued("mail")'
            <4> SUFFICES ASSUME j \in Mails PROVE j \in Queued("mail")'
                OBVIOUS
            <4>1. n = "mail"
                BY DEF QueueOf
            <4>2. q'["mail"].items = Append(q["mail"].items, j) /\ q["mail"].items \in Seq(Jobs)
                BY <1>1, <2>3, <3>1, <4>1 DEF ActorTypeOK, QueueType
            <4>3. Len(q'["mail"].items) \in 1..Len(q'["mail"].items) /\ q'["mail"].items[Len(q'["mail"].items)] = j
                BY <4>2
            <4> QED
                BY <4>3 DEF Queued
        <3>5. \A k \in Jobs : k # j => pc'[k] = pc[k]
            BY <1>1, <2>3 DEF ActorTypeOK
        <3> QED
            BY <1>2, <2>1, <3>2, <3>3, <3>4, <3>5, PlainLeft DEF Jobs
    <2> QED
        BY <1>5, <2>2, <2>3 DEF PushSwap
<1>6. CASE PushLink(j) \/ PushCount(j) \/ PushSignal(j) \/ InvokeReturn(j)
    <2>1. /\ pc[j] \in Late /\ UNCHANGED recycles
          /\ \E p \in JobPlaces : pc' = [pc EXCEPT ![j] = p]
        BY <1>6 DEF PushLink, PushCount, PushSignal, InvokeReturn, Late, JobPlaces
    <2>2. \A k \in Jobs : pc[k] \notin Late => pc'[k] = pc[k]
        BY <1>1, <2>1 DEF ActorTypeOK
    <2>3. \/ UNCHANGED q
          \/ q' = [q EXCEPT ![QueueOf(j)] = Link(q[QueueOf(j)], j)]
          \/ q' = [q EXCEPT ![QueueOf(j)] = AddCount(q[QueueOf(j)], 1)]
          \/ q' = [q EXCEPT ![QueueOf(j)] = Signal(q[QueueOf(j)], local[j])]
        BY <1>6 DEF PushLink, PushCount, PushSignal, InvokeReturn
    <2>4. q'["mail"].items = q["mail"].items /\ ((q["mail"].C = "closed") <=> (q'["mail"].C = "closed"))
        BY <1>1, <2>3, ChannelKept
    <2> QED
        BY <1>2, <2>1, <2>2, <2>4, PlainLeft DEF Queued, Jobs
<1> QED
    BY <1>3, <1>4, <1>5, <1>6 DEF Step

\* The run goroutine: a pop takes a message over, the end of its handling recycles
\* it, and only the last queue of onStop lets go of what nobody has handled.
LEMMA RunLeft ==
    ASSUME ActorInv, LeftInv, Run
    PROVE  LeftInv'
<1>1. /\ ActorTypeOK /\ HoldOK /\ "mail" \in Queues /\ "event" \in Queues /\ q["mail"] \in QueueType
      /\ \A j \in Mails : OwnerOK(j)
    BY DEF ActorInv, ActorTypeOK, Queues
<1>2. CASE OnInitRegister \/ InitDone \/ LoopCheck \/ SelectClose \/ Handle \/ OnStopUnpublish \/ OnStopHandler \/ WgDone
    <2>1. UNCHANGED <<pc, recycles, cur, q>>
        BY <1>2 DEF OnInitRegister, InitDone, LoopCheck, SelectClose, Handle, OnStopUnpublish, OnStopHandler, WgDone,
                    stopFrame, loopFrame
    <2>2. lpc \in {"wgDone", "ended"} => lpc' \in {"wgDone", "ended"}
        BY <1>2 DEF OnInitRegister, InitDone, LoopCheck, SelectClose, Handle, OnStopUnpublish, OnStopHandler, WgDone
    <2> QED
        BY <2>1, <2>2, PlainLeft DEF Queued
<1>3. CASE (\E n \in Queues : SelectQueue(n)) \/ LoopPopCount
    <2>1. /\ UNCHANGED <<pc, recycles, cur>> /\ lpc \notin {"wgDone", "ended"}
          /\ \E n \in Queues : \/ q' = [q EXCEPT ![n] = Receive(q[n])] /\ q[n].C = "full"
                               \/ q' = [q EXCEPT ![n] = AddCount(q[n], -1)]
                               \/ q' = [q EXCEPT ![n] = Signal(q[n], llocal)]
        BY <1>1, <1>3 DEF SelectQueue, LoopPopCount, loopFrame, ActorTypeOK
    <2>2. PICK n \in Queues : \/ q' = [q EXCEPT ![n] = Receive(q[n])] /\ q[n].C = "full"
                              \/ q' = [q EXCEPT ![n] = AddCount(q[n], -1)]
                              \/ q' = [q EXCEPT ![n] = Signal(q[n], llocal)]
        BY <2>1
    <2>3. q'["mail"].items = q["mail"].items /\ ((q["mail"].C = "closed") <=> (q'["mail"].C = "closed"))
        BY <1>1, <2>2, ChannelKept
    <2> QED
        BY <2>1, <2>3, PlainLeft DEF Queued
<1>4. CASE LoopPop
    <2>1. UNCHANGED <<pc, recycles, curq>> /\ lpc = "pop" /\ cur = NoJob /\ curq \in Queues /\ q[curq] \in QueueType
        BY <1>1, <1>4 DEF LoopPop, loopFrame, HoldOK, ActorTypeOK
    <2>2. \A k \in Mails : cur # k
        BY <2>1, JobsAssumption DEF Jobs
    <2>3. CASE UNCHANGED <<q, cur>> /\ lpc' = "loop"
        BY <2>1, <2>3, PlainLeft DEF Queued
    <2>4. CASE CanPop(q[curq]) /\ cur' = Head(q[curq].items) /\ q' = [q EXCEPT ![curq] = PopItem(q[curq])]
        <3>1. /\ PopItem(q[curq]).items = Tail(q[curq].items) /\ Head(q[curq].items) = q[curq].items[1]
              /\ Len(q[curq].items) \in Nat /\ Len(q[curq].items) > 0
              /\ Len(Tail(q[curq].items)) = Len(q[curq].items) - 1
              /\ \A i \in 1..Len(Tail(q[curq].items)) : Tail(q[curq].items)[i] = q[curq].items[i + 1]
            BY <2>1, <2>4, PopFields DEF CanPop
        <3>2. PopItem(q[curq]).C = q[curq].C
            BY <2>1 DEF PopItem, QueueType
        <3>3. q'["mail"].C = q["mail"].C
            BY <1>1, <2>1, <2>4, <3>2 DEF ActorTypeOK
        <3>4. \A k \in Mails : k \in Queued("mail") => k \in Queued("mail")' \/ cur' = k
            <4>1. CASE curq = "mail"
                <5>1. q'["mail"].items = Tail(q["mail"].items)
                    BY <1>1, <2>4, <3>1, <4>1 DEF ActorTypeOK
                <5> SUFFICES ASSUME NEW k \in Mails, k \in Queued("mail"), cur' # k PROVE k \in Queued("mail")'
                    OBVIOUS
                <5>2. PICK i \in 1..Len(q["mail"].items) : q["mail"].items[i] = k
                    BY DEF Queued
                <5>3. i # 1
                    BY <2>4, <3>1, <4>1, <5>2
                <5>4. i - 1 \in 1..Len(Tail(q["mail"].items)) /\ Tail(q["mail"].items)[i - 1] = k
                    BY <3>1, <4>1, <5>2, <5>3
                <5> QED
                    BY <5>1, <5>4 DEF Queued
            <4>2. CASE curq # "mail"
                BY <1>1, <2>1, <2>4, <4>2 DEF ActorTypeOK, Queued
            <4> QED
                BY <4>1, <4>2
        <3>5. ASSUME NEW k \in Mails PROVE LeftOK(k)'
            BY <2>1, <2>2, <3>3, <3>4 DEF LeftInv, LeftOK
        <3> QED
            BY <2>1, <3>3, <3>5 DEF LeftInv
    <2> QED
        BY <1>4, <2>3, <2>4 DEF LoopPop
<1>5. CASE Execute
    <2>1. UNCHANGED <<pc, recycles, q>> /\ lpc = "execute" /\ (cur' = cur \/ cur \notin Mails)
        BY <1>5 DEF Execute, loopFrame
    <2> QED
        BY <2>1, PlainLeft DEF Queued
<1>6. CASE Finish
    <2>1. UNCHANGED <<pc, q>> /\ lpc = "finish" /\ cur \in Mails /\ recycles' = [recycles EXCEPT ![cur] = @ + 1]
        BY <1>1, <1>6 DEF Finish, Recycle, loopFrame, HoldOK
    <2>2. recycles[cur] = 0
        BY <1>1, <2>1 DEF OwnerOK
    <2>3. recycles'[cur] = 1 /\ \A k \in Mails : k # cur => recycles'[k] = recycles[k]
        BY <1>1, <2>1, <2>2 DEF ActorTypeOK
    <2>4. ASSUME NEW k \in Mails PROVE LeftOK(k)'
        BY <2>1, <2>3 DEF LeftInv, LeftOK, Queued
    <2> QED
        BY <2>1, <2>4 DEF LeftInv
<1>7. CASE OnStopQueues
    <2>1. UNCHANGED <<pc, recycles, cur>>
        BY <1>7 DEF OnStopQueues, stopFrame, loopFrame
    <2>2. CASE lpc = "mailStop" /\ lpc' = "wgDone" /\ q' = [q EXCEPT !["mail"] = Destroy(q["mail"])]
        <3>1. q'["mail"].C = "closed"
            BY <1>1, <2>2 DEF ActorTypeOK, Destroy
        <3> QED
            BY <2>2, <3>1 DEF LeftInv, LeftOK
    <2>3. CASE lpc \in {"timerStop", "eventStop"} /\ q'["mail"] = q["mail"]
        BY <2>1, <2>3, PlainLeft DEF Queued
    <2> QED
        BY <1>1, <1>7, <2>2, <2>3 DEF OnStopQueues, ActorTypeOK
<1> QED
    BY <1>2, <1>3, <1>4, <1>5, <1>6, <1>7 DEF Run

\* Every behaviour of an Actor keeps track of its messages.
LEMMA LeftInvariant == Spec => []LeftInv
<1>1. Init => LeftInv
    <2> SUFFICES ASSUME Init PROVE LeftInv
        OBVIOUS
    <2>1. q["mail"].C = "empty"
        BY DEF Init, Queues, newQueue
    <2>2. \A j \in Jobs : pc[j] \in {"start", "absent"}
        BY DEF Init
    <2> QED
        BY <2>1, <2>2 DEF LeftInv, LeftOK, Late, Jobs
<1>2. ActorInv /\ LeftInv /\ [Next]_vars => LeftInv'
    <2> SUFFICES ASSUME ActorInv, LeftInv, [Next]_vars PROVE LeftInv'
        OBVIOUS
    <2>1. CASE Run
        BY <2>1, RunLeft
    <2>2. ASSUME NEW j \in Jobs, CallStart(j) \/ ChildCall(j) \/ EventStart(j) \/ Step(j) PROVE LeftInv'
        BY <2>2, JobLeft
    <2>3. CASE Exit \/ (\E j \in Mails : Expire(j) \/ IngressCancel(j)) \/ UNCHANGED vars
        <3>1. UNCHANGED <<q, pc, lpc, cur, recycles>>
            BY <2>3 DEF Exit, Expire, IngressCancel, vars, loopVars, jobVars
        <3> QED
            BY <3>1, PlainLeft DEF Queued
    <2> QED
        BY <2>1, <2>2, <2>3 DEF Next
<1> QED
    BY <1>1, <1>2, ActorInvariant, PTL DEF Spec

\* A message has one holder at a time, and when nobody holds it any more it has been
\* recycled exactly once, unless it was left to a mailbox that onStop has destroyed:
\* still queued there, or pushed by a goroutine that the destroyed queue made panic.
THEOREM MessagesAreRecycledOnce == Spec => []RecycledOnce
<1>1. ActorInv /\ LeftInv => RecycledOnce
    <2> SUFFICES ASSUME ActorInv, LeftInv, NEW j \in Mails
                 PROVE  /\ \A g, h \in Holders(j) : g = h
                        /\ Holders(j) # {} => recycles[j] = 0
                        /\ Holders(j) = {} /\ ctx[j] # "none" =>
                               recycles[j] = 1 \/ (q["mail"].C = "closed" /\ recycles[j] = 0)
        BY DEF RecycledOnce
    <2>1. OwnerOK(j) /\ LeftOK(j) /\ pc[j] \in JobPlaces /\ recycles[j] \in Nat
        BY DEF ActorInv, ActorTypeOK, LeftInv, Jobs
    <2>2. \A g, h \in Holders(j) : g = h
        BY <2>1 DEF Holders, OwnerOK, Early
    <2>3. Holders(j) # {} => recycles[j] = 0
        BY <2>1 DEF Holders, OwnerOK, Early
    <2>4. ASSUME Holders(j) = {}, ctx[j] # "none"
          PROVE  recycles[j] = 1 \/ (q["mail"].C = "closed" /\ recycles[j] = 0)
        <3>1. pc[j] \notin {"lookup", "state", "swap"} /\ j \notin Queued("mail") /\ cur # j
            BY <2>4 DEF Holders
        <3>2. pc[j] = "rejected" \/ pc[j] \in Late
            BY <2>1, <2>4, <3>1 DEF JobPlaces, Late, OwnerOK
        <3>3. recycles[j] = 0 \/ recycles[j] = 1
            BY <2>1 DEF OwnerOK
        <3> QED
            BY <2>1, <2>4, <3>1, <3>2, <3>3 DEF OwnerOK, LeftOK
    <2> QED
        BY <2>2, <2>3, <2>4
<1> QED
    BY <1>1, ActorInvariant, LeftInvariant, PTL

\* A business result reaches the caller of Invoke only after its call has run, and a
\* call given up in the mailbox never runs (InvokeTarget, invokeTyped, finishTyped).
THEOREM AnswersAreTrue == Spec => []AnswerIsTrue
<1>1. ActorInv => AnswerIsTrue
    BY DEF ActorInv, ActorTypeOK, OutcomeOK, AnswerIsTrue, Business, Mails
<1> QED
    BY <1>1, ActorInvariant, PTL
-----------------------------------------------------------------------------
\* How far the push of a job is: into the list, and into the counter.
Swapped(j) == pc[j] \in {"link", "count", "signal", "wait", "done"}
Counted(j) == pc[j] \in {"signal", "wait", "done"}
Of(n) == {j \in Jobs : QueueOf(j) = n}
CountedSet(n) == {j \in Of(n) : Counted(j)}
\* The items that Pop has taken out and subtracted.
GoneSet(n) == {j \in Of(n) : Swapped(j) /\ j \notin Queued(n) /\ ~(lpc = "popCount" /\ cur = j)}

\* Where the jobs of a queue that is not destroyed are.
PlacesOK(n) ==
    /\ q[n].C # "closed"
    /\ \A i, k \in 1..Len(q[n].items) : q[n].items[i] = q[n].items[k] => i = k
    /\ \A j \in Of(n) : /\ pc[j] # "panicked" /\ (~Swapped(j) => j \notin Queued(n) /\ cur # j)
                        /\ j \in Queued(n) => cur # j
\* What the counter counts.
CountOK(n) == q[n].count = Cardinality(CountedSet(n)) - Cardinality(GoneSet(n))
\* The quiet items are the oldest, and while one of them is queued whatever was popped is
\* counted: no pop can have run ahead of its push.
QuietOK(n) ==
    /\ \A i, k \in 1..Len(q[n].items) : i < k /\ q[n].items[k] \in quiet => q[n].items[i] \in quiet
    /\ quiet \cap Queued(n) # {} => \A j \in Of(n) : Swapped(j) /\ j \notin Queued(n) => Counted(j)
QueueOK(n) == PlacesOK(n) /\ CountOK(n) /\ QuietOK(n)

\* Until it stops, the Actor has handled a quiet item, holds it, or has it in a queue.
LoopOK ==
    /\ \A n \in Queues : QueueOK(n)
    /\ \A j \in quiet : pc[j] \in {"wait", "done"} /\ (Handled(j) \/ cur = j \/ j \in Queued(QueueOf(j)))
    /\ lpc = "loopEvent" => \A j \in quiet \cap Mails : Handled(j)
    /\ lpc = "popCount" => QueueOf(cur) = curq

DrainInv ==
    /\ ActorInv /\ quiet \subseteq Mails \cup Events
    /\ lpc \in {"init", "registered"} \/ state # "Stop" => quiet = {}
    /\ lpc \in Stopping => \A j \in quiet : Handled(j)
    /\ lpc \notin Stopping => LoopOK

\* What the Actor is through with stays so.
LEMMA HandledKept ==
    ASSUME ActorInv, [Next]_vars, NEW j \in Mails \cup Events, Handled(j)
    PROVE  Handled(j)'
<1>1. executed \subseteq executed'
    BY DEF Next, Run, Step, OnInitRegister, InitDone, LoopCheck, SelectQueue, SelectClose, LoopPop, LoopPopCount, Handle,
           Execute, Finish, OnStopUnpublish, OnStopHandler, OnStopQueues, WgDone, stopFrame, Exit, CallStart, ChildCall,
           EventStart, Lookup, CheckState, PushSwap, PushLink, PushCount, PushSignal, InvokeReturn, jobFrame, Expire,
           IngressCancel, vars, histVars
<1>2. \/ UNCHANGED recycles
      \/ \E k \in Jobs : Rejected(k) /\ pc[k] \in {"lookup", "state"}
      \/ Finish
    BY DEF Next, Run, Step, OnInitRegister, InitDone, LoopCheck, SelectQueue, SelectClose, LoopPop, LoopPopCount, Handle,
           Execute, OnStopUnpublish, OnStopHandler, OnStopQueues, WgDone, stopFrame, Exit, CallStart, ChildCall,
           EventStart, Lookup, CheckState, PushSwap, PushLink, PushCount, PushSignal, InvokeReturn, Expire,
           IngressCancel, vars, jobVars
<1>3. ASSUME j \in Mails PROVE recycles'[j] = 1
    <2>1. recycles[j] = 1 /\ ActorTypeOK /\ OwnerOK(j) /\ HoldOK
        BY <1>3 DEF Handled, ActorInv
    <2>2. ASSUME NEW k \in Jobs, Rejected(k), pc[k] \in {"lookup", "state"} PROVE recycles'[j] = recycles[j]
        BY <1>3, <2>1, <2>2 DEF Rejected, Recycle, OwnerOK, Early, ActorTypeOK
    <2>3. ASSUME Finish PROVE recycles'[j] = recycles[j]
        BY <1>3, <2>1, <2>3 DEF Finish, Recycle, OwnerOK, ActorTypeOK, HoldOK
    <2> QED
        BY <1>2, <2>1, <2>2, <2>3
<1> QED
    BY <1>1, <1>3 DEF Handled

\* A step that does not concern queue n.
LEMMA QueueFrame ==
    ASSUME NEW n \in Queues, QueueOK(n), q'[n].items = q[n].items, q'[n].count = q[n].count,
           q'[n].C # "closed", quiet' = quiet,
           \A j \in Of(n) : /\ pc'[j] # "panicked" /\ (Swapped(j)' <=> Swapped(j)) /\ (Counted(j)' <=> Counted(j))
                            /\ cur' = j => cur = j
                            /\ (lpc' = "popCount" /\ cur' = j) <=> (lpc = "popCount" /\ cur = j)
    PROVE  QueueOK(n)'
<1>1. Queued(n)' = Queued(n)
    BY DEF Queued
<1>2. CountedSet(n)' = CountedSet(n) /\ GoneSet(n)' = GoneSet(n)
    BY <1>1 DEF CountedSet, GoneSet, Of
<1>3. PlacesOK(n)'
    BY <1>1 DEF QueueOK, PlacesOK, Of
<1>4. CountOK(n)'
    BY <1>2 DEF QueueOK, CountOK
<1>5. QuietOK(n)'
    BY <1>1 DEF QueueOK, QuietOK, Of
<1> QED
    BY <1>3, <1>4, <1>5 DEF QueueOK

\* The jobs of a queue are finitely many, and a queue holds jobs of its own.
LEMMA OfFacts ==
    ASSUME ActorInv, NEW n \in Queues
    PROVE  /\ IsFiniteSet(CountedSet(n)) /\ Cardinality(CountedSet(n)) \in Nat
           /\ IsFiniteSet(GoneSet(n)) /\ Cardinality(GoneSet(n)) \in Nat
           /\ n \in Queues /\ q[n] \in QueueType /\ q[n].items \in Seq(Jobs) /\ Queued(n) \subseteq Of(n)
<1>1. IsFiniteSet(CountedSet(n)) /\ IsFiniteSet(GoneSet(n))
    BY JobsAssumption, FS_Subset DEF CountedSet, GoneSet, Of
<1>2. n \in Queues /\ q[n] \in QueueType
    BY DEF ActorInv, ActorTypeOK, Queues
<1>3. q[n].items \in Seq(Jobs)
    BY <1>2 DEF QueueType
<1>4. Queued(n) \subseteq Of(n)
    BY <1>2, <1>3 DEF ActorInv, KindsOK, Queued, Of
<1> QED
    BY <1>1, <1>2, <1>3, <1>4, FS_CardinalityType

\* A quiet item in the queue keeps the counter above zero.
LEMMA CountPositive ==
    ASSUME ActorInv, NEW n \in Queues, QueueOK(n), NEW j \in quiet, j \in Queued(n), Counted(j)
    PROVE  ~(q[n].count < 1)
<1>1. j \in Of(n) /\ IsFiniteSet(CountedSet(n)) /\ Cardinality(CountedSet(n)) \in Nat /\ Cardinality(GoneSet(n)) \in Nat
    BY OfFacts
<1>2. GoneSet(n) \subseteq CountedSet(n) /\ j \in CountedSet(n) /\ j \notin GoneSet(n)
    BY <1>1 DEF QueueOK, QuietOK, CountedSet, GoneSet
<1>3. Cardinality(GoneSet(n)) <= Cardinality(CountedSet(n)) /\ Cardinality(GoneSet(n)) # Cardinality(CountedSet(n))
    BY <1>1, <1>2, FS_Subset
<1>4. q[n].count = Cardinality(CountedSet(n)) - Cardinality(GoneSet(n))
    BY DEF QueueOK, CountOK
<1> QED
    BY <1>1, <1>3, <1>4

\* SwapPointer: the newest item, which nobody has counted or promised.
LEMMA SwapQueue ==
    ASSUME ActorInv, NEW n \in Queues, QueueOK(n), NEW j \in Of(n), pc[j] = "swap", j \notin quiet,
           pc' = [pc EXCEPT ![j] = "link"], UNCHANGED <<cur, lpc, quiet>>,
           q'[n].items = Append(q[n].items, j), q'[n].count = q[n].count, q'[n].C = q[n].C
    PROVE  QueueOK(n)'
<1> DEFINE s == q[n].items
           t == q'[n].items
           len == Len(s)
<1>1. s \in Seq(Jobs) /\ len \in Nat /\ j \in Jobs /\ pc \in [Jobs -> JobPlaces] /\ Queued(n) \subseteq Of(n)
    BY OfFacts DEF Of, ActorInv, ActorTypeOK
<1>2. Len(t) = len + 1 /\ t[len + 1] = j /\ \A i \in 1..len : t[i] = s[i]
    BY <1>1
<1>3. ~Swapped(j) /\ j \notin Queued(n) /\ cur # j
    BY DEF Swapped, QueueOK, PlacesOK
<1>4. \A i \in 1..len : s[i] # j
    BY <1>3 DEF Queued
<1> HIDE DEF s, t, len
<1>5. \A i \in 1..(len + 1) : i \in 1..len \/ i = len + 1
    BY <1>1
<1>6. \A k : k \in Queued(n)' <=> k \in Queued(n) \/ k = j
    <2>1. \A k : k \in Queued(n)' <=> \E i \in 1..(len + 1) : k = t[i]
        BY <1>2 DEF Queued, t
    <2>2. \A k : k \in Queued(n) <=> \E i \in 1..len : k = s[i]
        BY DEF Queued, s, len
    <2>3. len + 1 \in 1..(len + 1) /\ \A i \in 1..len : i \in 1..(len + 1)
        BY <1>1
    <2>4. ASSUME NEW k, k \in Queued(n)' PROVE k \in Queued(n) \/ k = j
        <3>1. PICK i \in 1..(len + 1) : k = t[i]
            BY <2>1, <2>4
        <3> QED
            BY <1>2, <1>5, <2>2, <3>1
    <2>5. \A k : k \in Queued(n) => k \in Queued(n)'
        BY <1>2, <2>1, <2>2, <2>3
    <2>6. j \in Queued(n)'
        BY <1>2, <2>1, <2>3
    <2> QED
        BY <2>4, <2>5, <2>6
<1>7. /\ \A k \in Of(n) : k # j => pc'[k] = pc[k]
      /\ pc'[j] = "link"
    BY <1>1 DEF Of
<1>8. PlacesOK(n)'
    <2>1. \A i, k \in 1..Len(t) : t[i] = t[k] => i = k
        <3>1. \A i, k \in 1..len : s[i] = s[k] => i = k
            BY DEF QueueOK, PlacesOK, s, len
        <3> QED
            BY <1>2, <1>4, <1>5, <3>1
    <2>2. \A k \in Of(n) : /\ pc'[k] # "panicked" /\ (~Swapped(k)' => k \notin Queued(n)' /\ cur # k)
                           /\ k \in Queued(n)' => cur # k
        BY <1>3, <1>6, <1>7 DEF QueueOK, PlacesOK, Swapped
    <2> QED
        BY <2>1, <2>2 DEF QueueOK, PlacesOK, t, Of
<1>9. CountOK(n)'
    <2>1. CountedSet(n)' = CountedSet(n)
        BY <1>7 DEF CountedSet, Counted, Of
    <2>2. GoneSet(n)' = GoneSet(n)
        BY <1>3, <1>6, <1>7 DEF GoneSet, Swapped, Of
    <2> QED
        BY <2>1, <2>2 DEF QueueOK, CountOK
<1>10. QuietOK(n)'
    <2>1. \A i, k \in 1..Len(t) : i < k /\ t[k] \in quiet => t[i] \in quiet
        <3> SUFFICES ASSUME NEW i \in 1..Len(t), NEW k \in 1..Len(t), i < k, t[k] \in quiet PROVE t[i] \in quiet
            OBVIOUS
        <3>1. k \in 1..len
            BY <1>2, <1>5
        <3>2. i \in 1..len
            BY <1>1, <3>1
        <3> QED
            BY <1>2, <3>1, <3>2 DEF QueueOK, QuietOK, s, len
    <2>2. ASSUME quiet \cap Queued(n)' # {}, NEW k \in Of(n), Swapped(k)', k \notin Queued(n)' PROVE Counted(k)'
        <3>1. quiet \cap Queued(n) # {} /\ k # j /\ k \notin Queued(n) /\ Swapped(k)
            BY <1>6, <1>7, <2>2 DEF Swapped
        <3> QED
            BY <1>7, <2>2, <3>1 DEF QueueOK, QuietOK, Counted
    <2> QED
        BY <2>1, <2>2 DEF QuietOK, t, Of
<1> QED
    BY <1>8, <1>9, <1>10 DEF QueueOK

\* AddInt32 of the push.
LEMMA CountQueue ==
    ASSUME ActorInv, NEW n \in Queues, QueueOK(n), NEW j \in Of(n), pc[j] = "count",
           pc' = [pc EXCEPT ![j] = "signal"], UNCHANGED <<cur, lpc, quiet>>,
           q'[n].items = q[n].items, q'[n].count = q[n].count + 1, q'[n].C = q[n].C
    PROVE  QueueOK(n)'
<1>1. Queued(n)' = Queued(n)
    BY DEF Queued
<1>2. pc'[j] = "signal" /\ \A k \in Of(n) : k # j => pc'[k] = pc[k]
    BY DEF Of, ActorInv, ActorTypeOK
<1>3. \A k \in Of(n) : Swapped(k)' <=> Swapped(k)
    BY <1>2 DEF Swapped
<1>4. PlacesOK(n)'
    BY <1>1, <1>2, <1>3 DEF QueueOK, PlacesOK, Of
<1>5. CountedSet(n)' = CountedSet(n) \cup {j} /\ j \notin CountedSet(n)
    BY <1>2 DEF CountedSet, Counted, Of
<1>6. GoneSet(n)' = GoneSet(n)
    BY <1>1, <1>3 DEF GoneSet, Of
<1>7. IsFiniteSet(CountedSet(n)) /\ Cardinality(CountedSet(n)) \in Nat /\ Cardinality(GoneSet(n)) \in Nat
    BY OfFacts
<1>8. Cardinality(CountedSet(n)') = Cardinality(CountedSet(n)) + 1
    BY <1>5, <1>7, FS_AddElement
<1>9. CountOK(n)'
    BY <1>6, <1>7, <1>8 DEF QueueOK, CountOK
<1>10. QuietOK(n)'
    <2>1. \A k \in Of(n) : Counted(k) => Counted(k)'
        BY <1>2 DEF Counted
    <2> QED
        BY <1>1, <1>3, <2>1 DEF QueueOK, QuietOK, Of
<1> QED
    BY <1>4, <1>9, <1>10 DEF QueueOK

\* Pop takes the oldest item; a quiet one behind it says that it is counted.
LEMMA PopQueue ==
    ASSUME ActorInv, NEW n \in Queues, QueueOK(n), \A k \in quiet : Counted(k), cur = NoJob, lpc = "pop",
           q[n].items # <<>>, cur' = Head(q[n].items), lpc' = "popCount", UNCHANGED <<pc, quiet>>,
           q'[n].items = Tail(q[n].items), q'[n].count = q[n].count, q'[n].C = q[n].C
    PROVE  QueueOK(n)' /\ cur' \in Of(n) /\ \A k : k \in Queued(n) <=> k \in Queued(n)' \/ k = cur'
<1> DEFINE s == q[n].items
           t == q'[n].items
           len == Len(s)
<1>1. s \in Seq(Jobs) /\ s # <<>> /\ Queued(n) \subseteq Of(n) /\ q[n] \in QueueType
    BY OfFacts
<1>2. len \in Nat /\ len > 0 /\ Head(s) = s[1] /\ Len(t) = len - 1 /\ \A i \in 1..Len(t) : t[i] = s[i + 1]
    BY <1>1, PopFields
<1>3. \A i, k \in 1..len : s[i] = s[k] => i = k
    BY DEF QueueOK, PlacesOK
<1>4. cur' = s[1]
    BY <1>2
<1>5. \A k : k \in Queued(n)' <=> \E i \in 1..Len(t) : k = t[i]
    BY DEF Queued
<1>6. \A k : k \in Queued(n) <=> \E i \in 1..len : k = s[i]
    BY DEF Queued
<1> HIDE DEF s, t, len
<1>7. 1 \in 1..len /\ (\A i \in 1..Len(t) : i + 1 \in 1..len /\ i + 1 # 1)
      /\ \A i \in 1..len : i # 1 => i - 1 \in 1..Len(t) /\ (i - 1) + 1 = i
    BY <1>2
<1>8. \A k : k \in Queued(n) <=> k \in Queued(n)' \/ k = cur'
    <2>1. \A k : k \in Queued(n)' => k \in Queued(n)
        BY <1>2, <1>5, <1>6, <1>7
    <2>2. ASSUME NEW k \in Queued(n), k # cur' PROVE k \in Queued(n)'
        <3>1. PICK i \in 1..len : k = s[i]
            BY <1>6
        <3>2. i - 1 \in 1..Len(t) /\ t[i - 1] = k
            BY <1>2, <1>4, <1>7, <2>2, <3>1
        <3> QED
            BY <1>5, <3>2
    <2> QED
        BY <1>4, <1>6, <1>7, <2>1, <2>2
<1>9. cur' \in Of(n) /\ cur' \notin Queued(n)'
    <2>1. cur' \in Of(n)
        BY <1>1, <1>8
    <2>2. ASSUME NEW i \in 1..Len(t), cur' = t[i] PROVE FALSE
        <3>1. s[i + 1] = s[1] /\ i + 1 \in 1..len /\ 1 \in 1..len /\ i + 1 # 1
            BY <1>2, <1>4, <1>7, <2>2
        <3> QED
            BY <1>3, <3>1
    <2> QED
        BY <1>5, <2>1, <2>2
<1>10. \A k \in Of(n) : Swapped(k)' <=> Swapped(k)
    BY DEF Swapped
<1>11. PlacesOK(n)'
    <2>1. \A i, k \in 1..Len(t) : t[i] = t[k] => i = k
        <3> SUFFICES ASSUME NEW i \in 1..Len(t), NEW k \in 1..Len(t), t[i] = t[k] PROVE i = k
            OBVIOUS
        <3>1. i + 1 = k + 1
            BY <1>2, <1>3, <1>7
        <3> QED
            BY <1>2, <3>1
    <2>2. \A k \in Of(n) : /\ pc'[k] # "panicked" /\ (~Swapped(k)' => k \notin Queued(n)' /\ cur' # k)
                           /\ k \in Queued(n)' => cur' # k
        BY <1>8, <1>9, <1>10 DEF QueueOK, PlacesOK
    <2> QED
        BY <2>1, <2>2 DEF QueueOK, PlacesOK, t, Of
<1>12. CountOK(n)'
    <2>1. CountedSet(n)' = CountedSet(n)
        BY DEF CountedSet, Counted, Of
    <2>2. GoneSet(n)' = GoneSet(n)
        BY <1>8, <1>10 DEF GoneSet, Of
    <2> QED
        BY <2>1, <2>2 DEF QueueOK, CountOK
<1>13. QuietOK(n)'
    <2>1. ASSUME NEW i \in 1..len, NEW k \in 1..len, i < k, s[k] \in quiet PROVE s[i] \in quiet
        BY <2>1 DEF QueueOK, QuietOK, s, len
    <2>2. \A i, k \in 1..Len(t) : i < k /\ t[k] \in quiet => t[i] \in quiet
        <3> SUFFICES ASSUME NEW i \in 1..Len(t), NEW k \in 1..Len(t), i < k, t[k] \in quiet PROVE t[i] \in quiet
            OBVIOUS
        <3>1. i + 1 \in 1..len /\ k + 1 \in 1..len /\ i + 1 < k + 1 /\ s[k + 1] \in quiet
            BY <1>2, <1>7
        <3>2. s[i + 1] \in quiet
            BY <2>1, <3>1
        <3> QED
            BY <1>2, <3>2
    <2>3. ASSUME quiet \cap Queued(n)' # {}, NEW k \in Of(n), Swapped(k)', k \notin Queued(n)' PROVE Counted(k)'
        <3>1. PICK i \in 1..Len(t) : t[i] \in quiet
            BY <1>5, <2>3
        <3>2. i + 1 \in 1..len /\ 1 < i + 1 /\ s[i + 1] \in quiet
            BY <1>2, <1>7, <3>1
        <3>3. cur' \in quiet
            BY <1>4, <1>7, <2>1, <3>2
        <3>4. quiet \cap Queued(n) # {}
            BY <1>8, <2>3
        <3>5. CASE k = cur'
            BY <3>3, <3>5 DEF Counted
        <3>6. CASE k # cur'
            BY <1>8, <1>10, <2>3, <3>4, <3>6 DEF QueueOK, QuietOK, Counted
        <3> QED
            BY <3>5, <3>6
    <2> QED
        BY <2>2, <2>3 DEF QuietOK, t, Of
<1> QED
    BY <1>8, <1>9, <1>11, <1>12, <1>13 DEF QueueOK

\* AddInt32 of the pop.
LEMMA PopCountQueue ==
    ASSUME ActorInv, NEW n \in Queues, QueueOK(n), cur \in Of(n), lpc = "popCount", lpc' = "popSignal",
           UNCHANGED <<pc, quiet, cur>>, q'[n].items = q[n].items, q'[n].count = q[n].count - 1, q'[n].C = q[n].C
    PROVE  QueueOK(n)'
<1>1. Queued(n)' = Queued(n)
    BY DEF Queued
<1>2. Swapped(cur) /\ cur \notin Queued(n)
    BY DEF QueueOK, PlacesOK
<1>3. \A k \in Of(n) : (Swapped(k)' <=> Swapped(k)) /\ (Counted(k)' <=> Counted(k))
    BY DEF Swapped, Counted
<1>4. PlacesOK(n)'
    BY <1>1, <1>3 DEF QueueOK, PlacesOK, Of
<1>5. CountedSet(n)' = CountedSet(n)
    BY <1>3 DEF CountedSet, Of
<1>6. GoneSet(n)' = GoneSet(n) \cup {cur} /\ cur \notin GoneSet(n)
    BY <1>1, <1>2, <1>3 DEF GoneSet, Of
<1>7. IsFiniteSet(GoneSet(n)) /\ Cardinality(CountedSet(n)) \in Nat /\ Cardinality(GoneSet(n)) \in Nat
    BY OfFacts
<1>8. Cardinality(GoneSet(n)') = Cardinality(GoneSet(n)) + 1
    BY <1>6, <1>7, FS_AddElement
<1>9. CountOK(n)'
    BY <1>5, <1>7, <1>8 DEF QueueOK, CountOK
<1>10. QuietOK(n)'
    BY <1>1, <1>3 DEF QueueOK, QuietOK, Of
<1> QED
    BY <1>4, <1>9, <1>10 DEF QueueOK

\* A step of a job that neither swaps, nor counts, nor panics.
LEMMA MoveQueue ==
    ASSUME ActorInv, NEW n \in Queues, QueueOK(n), NEW j \in Jobs, NEW place, pc' = [pc EXCEPT ![j] = place],
           UNCHANGED <<cur, lpc, quiet>>,
           j \in Of(n) => /\ place # "panicked" /\ (place \in {"link", "count", "signal", "wait", "done"} <=> Swapped(j))
                          /\ place \in {"signal", "wait", "done"} <=> Counted(j),
           q'[n].items = q[n].items, q'[n].count = q[n].count, q'[n].C # "closed"
    PROVE  QueueOK(n)'
<1>1. pc'[j] = place /\ \A k \in Jobs : k # j => pc'[k] = pc[k]
    BY DEF ActorInv, ActorTypeOK
<1>2. \A k \in Of(n) : pc'[k] # "panicked" /\ (Swapped(k)' <=> Swapped(k)) /\ (Counted(k)' <=> Counted(k))
    <2> SUFFICES ASSUME NEW k \in Of(n)
                 PROVE  pc'[k] # "panicked" /\ (Swapped(k)' <=> Swapped(k)) /\ (Counted(k)' <=> Counted(k))
        OBVIOUS
    <2>1. CASE k = j
        BY <1>1, <2>1 DEF Swapped, Counted
    <2>2. CASE k # j
        BY <1>1, <2>2 DEF Swapped, Counted, Of, QueueOK, PlacesOK
    <2> QED
        BY <2>1, <2>2
<1> QED
    BY <1>2, QueueFrame

\* Every step of a job keeps the queues in order.
LEMMA JobQueue ==
    ASSUME ActorInv, NEW n \in Queues, QueueOK(n), NEW j \in Jobs,
           \A k \in quiet : pc[k] \in {"wait", "done"},
           CallStart(j) \/ ChildCall(j) \/ EventStart(j) \/ Step(j)
    PROVE  QueueOK(n)'
<1>1. UNCHANGED <<cur, lpc, quiet>>
    BY DEF CallStart, ChildCall, EventStart, Step, Lookup, CheckState, PushSwap, PushLink, PushCount, PushSignal,
           InvokeReturn, jobFrame, loopVars
<1>2. n \in Queues /\ q \in [Queues -> QueueType] /\ q[n].C # "closed" /\ QueueOf(j) \in Queues
      /\ (j \in Of(n) <=> QueueOf(j) = n)
    BY DEF ActorInv, ActorTypeOK, QueueOK, PlacesOK, Queues, QueueOf, Of
<1>3. CASE CallStart(j) \/ ChildCall(j) \/ EventStart(j) \/ Lookup(j) \/ CheckState(j)
    <2>1. UNCHANGED q /\ pc[j] \in {"start", "lookup", "state"}
          /\ \E place \in {"lookup", "state", "swap", "rejected"} : pc' = [pc EXCEPT ![j] = place]
        BY <1>3 DEF CallStart, ChildCall, EventStart, Lookup, CheckState, Rejected
    <2> QED
        BY <1>1, <1>2, <2>1, MoveQueue DEF Swapped, Counted
<1>4. CASE InvokeReturn(j)
    <2>1. UNCHANGED q /\ pc[j] = "wait" /\ pc' = [pc EXCEPT ![j] = "done"]
        BY <1>4 DEF InvokeReturn
    <2> QED
        BY <1>1, <1>2, <2>1, MoveQueue DEF Swapped, Counted
<1>5. CASE PushSwap(j)
    <2>1. CASE QueueOf(j) = n
        <3>1. pc[j] = "swap" /\ pc' = [pc EXCEPT ![j] = "link"] /\ q' = [q EXCEPT ![n] = Swap(@, j)]
            BY <1>2, <1>5, <2>1 DEF PushSwap
        <3>2. q'[n].items = Append(q[n].items, j) /\ q'[n].count = q[n].count /\ q'[n].C = q[n].C
            BY <1>2, <3>1 DEF Swap, QueueType
        <3>3. j \notin quiet
            BY <3>1
        <3> QED
            BY <1>1, <1>2, <2>1, <3>1, <3>2, <3>3, SwapQueue
    <2>2. CASE QueueOf(j) # n
        <3>1. q'[n] = q[n] /\ \E place \in {"panicked", "link"} : pc' = [pc EXCEPT ![j] = place]
            BY <1>2, <1>5, <2>2 DEF PushSwap
        <3>2. PICK place : pc' = [pc EXCEPT ![j] = place]
            BY <3>1
        <3>3. j \notin Of(n) /\ q'[n].items = q[n].items /\ q'[n].count = q[n].count /\ q'[n].C # "closed"
            BY <1>2, <2>2, <3>1
        <3> QED
            BY <1>1, <3>2, <3>3, MoveQueue
    <2> QED
        BY <2>1, <2>2
<1>6. CASE PushLink(j)
    <2>1. pc[j] = "link" /\ pc' = [pc EXCEPT ![j] = "count"] /\ q' = [q EXCEPT ![QueueOf(j)] = Link(@, j)]
        BY <1>6 DEF PushLink
    <2>2. q'[n].items = q[n].items /\ q'[n].count = q[n].count /\ q'[n].C = q[n].C
        BY <1>2, <2>1 DEF Link, QueueType
    <2> QED
        BY <1>1, <1>2, <2>1, <2>2, MoveQueue DEF Swapped, Counted
<1>7. CASE PushCount(j)
    <2>1. pc[j] = "count" /\ pc' = [pc EXCEPT ![j] = "signal"] /\ q' = [q EXCEPT ![QueueOf(j)] = AddCount(@, 1)]
        BY <1>7 DEF PushCount
    <2>2. CASE QueueOf(j) = n
        <3>1. q'[n].items = q[n].items /\ q'[n].count = q[n].count + 1 /\ q'[n].C = q[n].C
            BY <1>2, <2>1, <2>2 DEF AddCount, QueueType
        <3> QED
            BY <1>1, <1>2, <2>1, <2>2, <3>1, CountQueue
    <2>3. CASE QueueOf(j) # n
        <3>1. q'[n] = q[n]
            BY <1>2, <2>1, <2>3
        <3> QED
            BY <1>1, <1>2, <2>1, <2>3, <3>1, MoveQueue
    <2> QED
        BY <2>2, <2>3
<1>8. CASE PushSignal(j)
    <2>1. CASE QueueOf(j) = n
        <3>1. /\ pc[j] = "signal" /\ q' = [q EXCEPT ![n] = Signal(@, local[j])]
              /\ \E place \in {"wait", "done"} : pc' = [pc EXCEPT ![j] = place]
            BY <1>2, <1>8, <2>1 DEF PushSignal, SignalPanics
        <3>2. q'[n].items = q[n].items /\ q'[n].count = q[n].count /\ q'[n].C # "closed"
            BY <1>2, <3>1 DEF Signal, QueueType
        <3> QED
            BY <1>1, <1>2, <2>1, <3>1, <3>2, MoveQueue DEF Swapped, Counted
    <2>2. CASE QueueOf(j) # n
        <3>1. q'[n] = q[n] /\ \E place \in {"panicked", "wait", "done"} : pc' = [pc EXCEPT ![j] = place]
            BY <1>2, <1>8, <2>2 DEF PushSignal
        <3>2. PICK place : pc' = [pc EXCEPT ![j] = place]
            BY <3>1
        <3>3. j \notin Of(n) /\ q'[n].items = q[n].items /\ q'[n].count = q[n].count /\ q'[n].C # "closed"
            BY <1>2, <2>2, <3>1
        <3> QED
            BY <1>1, <3>2, <3>3, MoveQueue
    <2> QED
        BY <2>1, <2>2
<1> QED
    BY <1>3, <1>4, <1>5, <1>6, <1>7, <1>8 DEF Step

\* A step of the run goroutine that takes nothing out of a list.
LEMMA RunQueue ==
    ASSUME ActorInv, NEW n \in Queues, QueueOK(n), lpc = "popCount" => QueueOf(cur) = curq,
           \/ OnInitRegister \/ InitDone \/ LoopCheck \/ (\E m \in Queues : SelectQueue(m))
           \/ LoopPopCount \/ Handle \/ Execute \/ Finish
    PROVE  QueueOK(n)' /\ Queued(n)' = Queued(n)
<1>1. n \in Queues /\ q \in [Queues -> QueueType] /\ q[n].C # "closed" /\ curq \in Queues /\ NoJob \notin Of(n)
      /\ cur \in Jobs \cup {NoJob} /\ \A j \in Of(n) : pc[j] # "panicked"
    BY JobsAssumption DEF ActorInv, ActorTypeOK, QueueOK, PlacesOK, Queues, Of
<1>2. UNCHANGED <<pc, quiet>> /\ cur' \in {cur, NoJob}
    BY DEF OnInitRegister, InitDone, LoopCheck, SelectQueue, LoopPopCount, Handle, Execute, Finish, loopFrame
<1>3. \A j \in Of(n) : pc'[j] # "panicked" /\ (Swapped(j)' <=> Swapped(j)) /\ (Counted(j)' <=> Counted(j)) /\ (cur' = j => cur = j)
    BY <1>1, <1>2 DEF Swapped, Counted
<1>4. ASSUME q'[n].items = q[n].items PROVE Queued(n)' = Queued(n)
    BY <1>4 DEF Queued
<1>5. CASE OnInitRegister \/ InitDone \/ LoopCheck \/ Handle \/ Execute \/ Finish
    <2>1. UNCHANGED q /\ lpc # "popCount" /\ lpc' # "popCount"
        BY <1>5 DEF OnInitRegister, InitDone, LoopCheck, Handle, Execute, Finish
    <2>2. q'[n].items = q[n].items /\ q'[n].count = q[n].count /\ q'[n].C # "closed"
        BY <1>1, <2>1
    <2> QED
        BY <1>2, <1>3, <1>4, <2>1, <2>2, QueueFrame
<1>6. ASSUME NEW m \in Queues, SelectQueue(m) PROVE QueueOK(n)' /\ Queued(n)' = Queued(n)
    <2>1. q' = [q EXCEPT ![m] = Receive(@)] /\ lpc # "popCount" /\ lpc' # "popCount"
        BY <1>6 DEF SelectQueue
    <2>2. q'[n].items = q[n].items /\ q'[n].count = q[n].count /\ q'[n].C # "closed"
        BY <1>1, <2>1 DEF Receive, QueueType
    <2> QED
        BY <1>2, <1>3, <1>4, <2>1, <2>2, QueueFrame
<1>7. CASE LoopPopCount /\ lpc = "popSignal"
    <2>1. q' = [q EXCEPT ![curq] = Signal(@, llocal)] /\ lpc # "popCount" /\ lpc' # "popCount"
        BY <1>7 DEF LoopPopCount
    <2>2. q'[n].items = q[n].items /\ q'[n].count = q[n].count /\ q'[n].C # "closed"
        BY <1>1, <2>1 DEF Signal, QueueType
    <2> QED
        BY <1>2, <1>3, <1>4, <2>1, <2>2, QueueFrame
<1>8. CASE LoopPopCount /\ lpc = "popCount"
    <2>1. q' = [q EXCEPT ![curq] = AddCount(@, -1)] /\ lpc' = "popSignal" /\ UNCHANGED cur /\ cur \in Jobs
          /\ (cur \in Of(n) <=> curq = n)
        BY <1>8 DEF LoopPopCount, Of, ActorInv, HoldOK
    <2>2. CASE curq = n
        <3>1. q'[n].items = q[n].items /\ q'[n].count = q[n].count - 1 /\ q'[n].C = q[n].C
            BY <1>1, <2>1, <2>2 DEF AddCount, QueueType
        <3> QED
            BY <1>2, <1>4, <1>8, <2>1, <2>2, <3>1, PopCountQueue
    <2>3. CASE curq # n
        <3>1. q'[n].items = q[n].items /\ q'[n].count = q[n].count /\ q'[n].C # "closed"
            BY <1>1, <2>1, <2>3
        <3>2. \A j \in Of(n) : cur # j
            BY <2>1, <2>3
        <3> QED
            BY <1>2, <1>3, <1>4, <2>1, <3>1, <3>2, QueueFrame
    <2> QED
        BY <2>2, <2>3
<1> QED
    BY <1>5, <1>6, <1>7, <1>8 DEF LoopPopCount

\* Pop takes the item it returns out of its own list, and out of no other.
LEMMA PopRunQueue ==
    ASSUME ActorInv, NEW n \in Queues, QueueOK(n), \A k \in quiet : Counted(k), LoopPop
    PROVE  /\ QueueOK(n)' /\ (lpc' = "popCount" => QueueOf(cur') = curq')
           /\ \A k \in Queued(n) : k \in Queued(n)' \/ k = cur'
<1>1. n \in Queues /\ q \in [Queues -> QueueType] /\ q[n].C # "closed" /\ curq \in Queues /\ NoJob \notin Of(n)
      /\ cur \in Jobs \cup {NoJob} /\ (\A j \in Of(n) : pc[j] # "panicked") /\ q[curq] \in QueueType /\ q[curq].items \in Seq(Jobs)
    BY JobsAssumption DEF ActorInv, ActorTypeOK, QueueOK, PlacesOK, Queues, Of, QueueType
<1>2. UNCHANGED <<pc, quiet, curq>> /\ lpc = "pop" /\ cur = NoJob
    BY DEF LoopPop, loopFrame, ActorInv, HoldOK
<1>3. CASE CanPop(q[curq])
    <2>1. /\ q[curq].items # <<>> /\ cur' = Head(q[curq].items) /\ lpc' = "popCount" /\ q' = [q EXCEPT ![curq] = PopItem(@)]
        BY <1>3 DEF LoopPop, CanPop
    <2>2. /\ PopItem(q[curq]).items = Tail(q[curq].items) /\ PopItem(q[curq]).count = q[curq].count
          /\ PopItem(q[curq]).C = q[curq].C
        BY <1>1 DEF PopItem, QueueType
    <2>3. QueueOf(cur') = curq /\ cur' \in Jobs
        <3> DEFINE s == q[curq].items
        <3>1. s \in Seq(Jobs) /\ s # <<>>
            BY <1>1, <2>1
        <3>2. 1 \in 1..Len(s) /\ Head(s) = s[1] /\ s[1] \in Jobs
            BY <3>1
        <3> QED
            BY <1>1, <2>1, <3>2 DEF ActorInv, KindsOK
    <2>4. CASE curq = n
        <3>1. q'[n].items = Tail(q[n].items) /\ q'[n].count = q[n].count /\ q'[n].C = q[n].C
            BY <1>1, <2>1, <2>2, <2>4
        <3> QED
            BY <1>2, <2>1, <2>3, <2>4, <3>1, PopQueue
    <2>5. CASE curq # n
        <3>1. q'[n] = q[n] /\ cur' \notin Of(n)
            BY <1>1, <2>1, <2>3, <2>5 DEF Of
        <3>2. Queued(n)' = Queued(n)
            BY <3>1 DEF Queued
        <3>3. \A j \in Of(n) : /\ pc'[j] # "panicked" /\ (Swapped(j)' <=> Swapped(j)) /\ (Counted(j)' <=> Counted(j))
                               /\ cur' # j /\ cur # j
            BY <1>1, <1>2, <3>1 DEF Swapped, Counted
        <3>4. QueueOK(n)'
            BY <1>1, <1>2, <3>1, <3>3, QueueFrame
        <3> QED
            BY <1>2, <2>3, <3>2, <3>4
    <2> QED
        BY <2>4, <2>5
<1>4. CASE ~CanPop(q[curq])
    <2>1. UNCHANGED <<q, cur>> /\ lpc' = "loop"
        BY <1>4 DEF LoopPop
    <2>2. \A j \in Of(n) : /\ pc'[j] # "panicked" /\ (Swapped(j)' <=> Swapped(j)) /\ (Counted(j)' <=> Counted(j))
                           /\ cur' # j /\ cur # j
        BY <1>1, <1>2, <2>1 DEF Swapped, Counted
    <2>3. QueueOK(n)'
        BY <1>1, <1>2, <2>1, <2>2, QueueFrame
    <2> QED
        BY <2>1, <2>3 DEF Queued
<1> QED
    BY <1>3, <1>4

\* No push takes an item out of a list.
LEMMA JobKeepsQueued ==
    ASSUME ActorInv, NEW n \in Queues, NEW j \in Jobs, CallStart(j) \/ ChildCall(j) \/ EventStart(j) \/ Step(j)
    PROVE  Queued(n) \subseteq Queued(n)'
<1>1. n \in Queues /\ q \in [Queues -> QueueType] /\ q[n] \in QueueType /\ q[n].items \in Seq(Jobs) /\ QueueOf(j) \in Queues
    BY DEF ActorInv, ActorTypeOK, Queues, QueueOf, QueueType
<1>2. q' = q \/ \E r \in {Swap(q[QueueOf(j)], j), Link(q[QueueOf(j)], j), AddCount(q[QueueOf(j)], 1), Signal(q[QueueOf(j)], local[j])} :
                     q' = [q EXCEPT ![QueueOf(j)] = r]
    BY DEF CallStart, ChildCall, EventStart, Step, Lookup, CheckState, PushSwap, PushLink, PushCount, PushSignal, InvokeReturn
<1>3. /\ Swap(q[n], j).items = Append(q[n].items, j) /\ Link(q[n], j).items = q[n].items
      /\ AddCount(q[n], 1).items = q[n].items /\ Signal(q[n], local[j]).items = q[n].items
    BY <1>1 DEF Swap, Link, AddCount, Signal, QueueType
<1>4. q'[n].items = q[n].items \/ q'[n].items = Append(q[n].items, j)
    BY <1>1, <1>2, <1>3
<1>5. CASE q'[n].items = q[n].items
    BY <1>5 DEF Queued
<1>6. CASE q'[n].items = Append(q[n].items, j)
    <2> DEFINE s == q[n].items
               t == q'[n].items
    <2>1. s \in Seq(Jobs) /\ t = Append(s, j)
        BY <1>1, <1>6
    <2> HIDE DEF s, t
    <2>2. Len(s) \in Nat /\ Len(t) = Len(s) + 1 /\ \A i \in 1..Len(s) : t[i] = s[i]
        BY <2>1
    <2>3. \A i \in 1..Len(s) : i \in 1..Len(t)
        BY <2>2
    <2> QED
        BY <2>2, <2>3 DEF Queued, s, t
<1> QED
    BY <1>4, <1>5, <1>6

\* Posting, at any place of the push, neither disturbs the counters nor what is promised.
LEMMA JobDrainInv ==
    ASSUME DrainInv, NEW j \in Jobs, CallStart(j) \/ ChildCall(j) \/ EventStart(j) \/ Step(j)
    PROVE  DrainInv'
<1>1. ActorInv' /\ ActorInv
    BY PostActorInv, PushActorInv, ReturnActorInv DEF Step, DrainInv
<1>2. UNCHANGED <<state, lpc, curq, cur, quiet>>
    BY DEF CallStart, ChildCall, EventStart, Step, Lookup, CheckState, PushSwap, PushLink, PushCount, PushSignal,
           InvokeReturn, jobFrame, loopVars
<1>3. \A k \in quiet : k \in Mails \cup Events /\ (Handled(k) => Handled(k)')
    BY <1>1, HandledKept DEF DrainInv, Next
<1>4. ASSUME lpc \notin Stopping PROVE LoopOK'
    <2>1. LoopOK /\ (\A k \in quiet : pc[k] \in {"wait", "done"}) /\ pc \in [Jobs -> JobPlaces]
        BY <1>1, <1>4 DEF DrainInv, LoopOK, ActorInv, ActorTypeOK
    <2>2. \A n \in Queues : QueueOK(n)'
        BY <1>1, <2>1, JobQueue DEF LoopOK
    <2>3. \A n \in Queues : Queued(n) \subseteq Queued(n)'
        BY <1>1, JobKeepsQueued
    <2>4. ASSUME NEW k \in quiet PROVE pc'[k] \in {"wait", "done"}
        <3>1. pc[k] \in {"wait", "done"} /\ k \in Jobs
            BY <1>3, <2>1 DEF Jobs
        <3>2. CASE k = j
            BY <2>1, <3>1, <3>2 DEF CallStart, ChildCall, EventStart, Step, Lookup, CheckState, PushSwap, PushLink, PushCount,
                                    PushSignal, InvokeReturn
        <3>3. CASE k # j
            <4>1. pc'[k] = pc[k]
                BY <2>1, <3>1, <3>3 DEF CallStart, ChildCall, EventStart, Step, Lookup, CheckState, PushSwap, PushLink,
                                        PushCount, PushSignal, InvokeReturn, Rejected
            <4> QED
                BY <3>1, <4>1
        <3> QED
            BY <3>2, <3>3
    <2>5. ASSUME NEW k \in quiet PROVE Handled(k)' \/ cur' = k \/ k \in Queued(QueueOf(k))'
        <3>1. QueueOf(k) \in Queues
            BY <1>3 DEF QueueOf, Queues
        <3> QED
            BY <1>2, <1>3, <2>1, <2>3, <3>1 DEF LoopOK
    <2> QED
        BY <1>2, <1>3, <2>1, <2>2, <2>4, <2>5 DEF LoopOK
<1> QED
    BY <1>1, <1>2, <1>3, <1>4 DEF DrainInv

\* What a step of the run goroutine owes to the items that are promised: it hands one on
\* from its queue to the loop, and lets go of it only when it is handled.
LEMMA HoldKept ==
    ASSUME DrainInv, Run, lpc \notin Stopping, quiet' = quiet, NEW k \in quiet,
           k \in Queued(QueueOf(k)) => k \in Queued(QueueOf(k))' \/ cur' = k
    PROVE  Handled(k)' \/ cur' = k \/ k \in Queued(QueueOf(k))'
<1>1. ActorInv /\ LoopOK /\ k \in Mails \cup Events /\ k \in Jobs
    BY DEF DrainInv, Jobs
<1>2. Handled(k) \/ cur = k \/ k \in Queued(QueueOf(k))
    BY <1>1 DEF LoopOK
<1>3. CASE Handled(k)
    BY <1>1, <1>3, HandledKept DEF Next
<1>4. CASE cur = k /\ cur' # k
    <2>1. k # NoJob /\ HoldOK /\ ActorTypeOK
        BY <1>1, JobsAssumption DEF ActorInv
    <2>2. Execute \/ Finish
        <3>1. lpc # "pop"
            BY <1>4, <2>1 DEF HoldOK
        <3> QED
            BY <1>4, <3>1 DEF Run, OnInitRegister, InitDone, LoopCheck, SelectQueue, SelectClose, LoopPop, LoopPopCount, Handle,
                       OnStopUnpublish, OnStopHandler, OnStopQueues, WgDone, stopFrame
    <2>3. CASE Execute
        BY <1>4, <2>3 DEF Execute, Handled
    <2>4. CASE Finish
        <3>1. k \in Mails /\ recycles[k] = 0
            BY <1>1, <1>4, <2>1, <2>4 DEF Finish, HoldOK, ActorInv, OwnerOK
        <3> QED
            BY <1>4, <2>1, <2>4, <3>1 DEF Finish, Recycle, Handled, ActorTypeOK
    <2> QED
        BY <2>2, <2>3, <2>4
<1> QED
    BY <1>2, <1>3, <1>4

\* The loop, up to the moment it leaves: it leaves only with both counters at zero, and
\* then nothing that was promised is queued.
LEMMA RunDrainInv ==
    ASSUME DrainInv, lpc \notin Stopping,
           \/ OnInitRegister \/ InitDone \/ LoopCheck \/ (\E m \in Queues : SelectQueue(m)) \/ LoopPop
           \/ LoopPopCount \/ Handle \/ Execute \/ Finish
    PROVE  DrainInv'
<1>1. ActorInv /\ LoopOK /\ quiet \subseteq Mails \cup Events /\ Run
    BY DEF DrainInv, Run
<1>2. ActorInv'
    BY <1>1, LoopActorInv, PopActorInv, ExecuteActorInv, FinishActorInv
<1>3. UNCHANGED <<pc, quiet>>
    BY DEF OnInitRegister, InitDone, LoopCheck, SelectQueue, LoopPop, LoopPopCount, Handle, Execute, Finish, loopFrame
<1>4. \A k \in quiet : pc[k] \in {"wait", "done"} /\ Counted(k) /\ QueueOf(k) \in Queues
    BY <1>1 DEF LoopOK, Counted, QueueOf, Queues
<1>5. \A n \in Queues : QueueOK(n)'
    BY <1>1, <1>4, RunQueue, PopRunQueue DEF LoopOK
<1>6. ASSUME NEW k \in quiet PROVE Handled(k)' \/ cur' = k \/ k \in Queued(QueueOf(k))'
    <2>1. ASSUME NEW n \in Queues, QueueOf(k) = n, k \in Queued(n) PROVE k \in Queued(n)' \/ cur' = k
        BY <1>1, <1>4, <2>1, RunQueue, PopRunQueue DEF LoopOK
    <2>2. k \in Queued(QueueOf(k)) => k \in Queued(QueueOf(k))' \/ cur' = k
        BY <1>4, <2>1
    <2> QED
        BY <1>1, <1>3, <2>2, HoldKept
<1>7. lpc' = "popCount" => QueueOf(cur)' = curq'
    <2>1. lpc' = "popCount" => LoopPop
        BY DEF OnInitRegister, InitDone, LoopCheck, SelectQueue, LoopPopCount, Handle, Execute, Finish
    <2>2. LoopPop /\ lpc' = "popCount" => QueueOf(cur') = curq'
        BY <1>1, <1>4, PopRunQueue DEF LoopOK, Queues
    <2> QED
        BY <2>1, <2>2 DEF QueueOf
<1>8. lpc' \in {"init", "registered"} \/ state' # "Stop" => quiet' = {}
    <2>1. lpc' \in {"init", "registered"} => lpc = "init"
        BY DEF OnInitRegister, InitDone, LoopCheck, SelectQueue, LoopPop, LoopPopCount, Handle, Execute, Finish
    <2>2. state' = state \/ lpc = "registered"
        BY DEF OnInitRegister, InitDone, LoopCheck, SelectQueue, LoopPop, LoopPopCount, Handle, Execute, Finish
    <2> QED
        BY <1>3, <2>1, <2>2 DEF DrainInv
\* The counters that the head of the loop reads.
<1>9. ASSUME NEW n \in Queues, NEW k \in quiet, QueueOf(k) = n, cur = NoJob, q[n].count < 1
      PROVE  Handled(k)
    <2>1. k \notin Queued(n) /\ k # NoJob
        BY <1>1, <1>4, <1>9, CountPositive, JobsAssumption DEF LoopOK, Jobs
    <2> QED
        BY <1>1, <1>9, <2>1 DEF LoopOK
<1>10. \A k \in quiet : Handled(k) => Handled(k)'
    BY <1>1, HandledKept DEF Next
<1>11. lpc' = "loopEvent" => \A k \in (quiet \cap Mails)' : Handled(k)'
    <2> SUFFICES ASSUME lpc' = "loopEvent", NEW k \in quiet, k \in Mails PROVE Handled(k)'
        BY <1>3
    <2>1. q["mail"].count < 1 /\ lpc = "loop"
        BY DEF OnInitRegister, InitDone, LoopCheck, SelectQueue, LoopPop, LoopPopCount, Handle, Execute, Finish
    <2>2. cur = NoJob /\ QueueOf(k) = "mail"
        BY <1>1, <2>1 DEF ActorInv, HoldOK, QueueOf
    <2>3. "mail" \in Queues
        BY DEF Queues
    <2> QED
        BY <1>9, <1>10, <2>1, <2>2, <2>3
<1>12. ASSUME lpc' \in Stopping, NEW k \in quiet PROVE Handled(k)'
    <2>1. lpc \in {"init", "registered"} \/ (lpc = "loopEvent" /\ q["event"].count < 1)
        BY <1>12 DEF Stopping, OnInitRegister, InitDone, LoopCheck, SelectQueue, LoopPop, LoopPopCount, Handle, Execute, Finish
    <2>2. lpc = "loopEvent" /\ q["event"].count < 1 /\ cur = NoJob
        BY <1>1, <2>1 DEF DrainInv, ActorInv, HoldOK
    <2>3. CASE k \in Mails
        BY <1>1, <1>10, <2>2, <2>3 DEF LoopOK
    <2>4. CASE k \notin Mails
        <3>1. QueueOf(k) = "event" /\ "event" \in Queues
            BY <1>1, <1>3, <2>4 DEF QueueOf, Queues
        <3> QED
            BY <1>9, <1>10, <2>2, <3>1
    <2> QED
        BY <2>3, <2>4
<1>13. LoopOK'
    BY <1>3, <1>4, <1>5, <1>6, <1>7, <1>11 DEF LoopOK
<1> QED
    BY <1>1, <1>2, <1>3, <1>8, <1>12, <1>13 DEF DrainInv

\* The close channel: what is queued while nobody is posting becomes a promise.
LEMMA CloseDrainInv ==
    ASSUME DrainInv, SelectClose
    PROVE  DrainInv'
<1>1. ActorInv /\ LoopOK /\ ActorInv'
    BY LoopActorInv DEF DrainInv, SelectClose, Stopping
<1>2. UNCHANGED <<pc, q, cur, executed, recycles>> /\ lpc = "select" /\ lpc' = "loop" /\ state' = "Stop" /\ cur = NoJob
    BY <1>1 DEF SelectClose, loopFrame, ActorInv, HoldOK
<1>3. \A n : Queued(n)' = Queued(n) /\ CountedSet(n)' = CountedSet(n) /\ GoneSet(n)' = GoneSet(n)
    BY <1>2 DEF Queued, CountedSet, GoneSet, Counted, Swapped, Of
<1>4. ASSUME NEW n \in Queues PROVE PlacesOK(n)' /\ CountOK(n)' /\ Queued(n) \subseteq Of(n)
    <2>1. QueueOK(n)
        BY <1>1 DEF LoopOK
    <2>2. PlacesOK(n)'
        BY <1>2, <1>3, <2>1 DEF QueueOK, PlacesOK, Swapped, Of
    <2>3. CountOK(n)'
        BY <1>2, <1>3, <2>1 DEF QueueOK, CountOK
    <2> QED
        BY <1>1, <2>2, <2>3, OfFacts
<1>5. CASE quiet' = quiet
    <2>1. \A n \in Queues : QuietOK(n)'
        BY <1>1, <1>2, <1>3, <1>5 DEF LoopOK, QueueOK, QuietOK, Swapped, Counted, Of
    <2>2. \A k \in quiet' : (pc[k] \in {"wait", "done"})' /\ (Handled(k) \/ cur = k \/ k \in Queued(QueueOf(k)))'
        BY <1>1, <1>2, <1>3, <1>5 DEF LoopOK, Handled
    <2>3. LoopOK'
        BY <1>2, <1>4, <2>1, <2>2 DEF LoopOK, QueueOK
    <2> QED
        BY <1>1, <1>2, <1>5, <2>3 DEF DrainInv, Stopping
<1>6. CASE quiet' # quiet
    <2>1. quiet' = Queued("mail") \cup Queued("event") /\ \A j \in Jobs : ~Posting(j)
        BY <1>6 DEF SelectClose
    <2>2. \A j \in Jobs : Swapped(j) => pc[j] \in {"wait", "done"}
        BY <2>1 DEF Swapped, Posting
    <2>3. ASSUME NEW n \in Queues PROVE QuietOK(n)'
        <3>1. CASE n = "timer"
            <4>1. \A k \in quiet' : QueueOf(k) # "timer"
                BY <1>4, <2>1 DEF Of, Queues
            <4>2. quiet' \cap Queued(n) = {} /\ \A i \in 1..Len(q[n].items) : q[n].items[i] \notin quiet'
                BY <1>1, <3>1, <4>1 DEF ActorInv, KindsOK, Queued
            <4> QED
                BY <1>2, <1>3, <4>2 DEF QuietOK
        <3>2. CASE n # "timer"
            <4>1. \A i \in 1..Len(q[n].items) : q[n].items[i] \in quiet'
                BY <2>1, <3>2 DEF Queued, Queues
            <4> QED
                BY <1>2, <2>2, <4>1 DEF QuietOK, Of, Swapped, Counted
        <3> QED
            BY <3>1, <3>2
    <2>4. ASSUME NEW k \in quiet' PROVE pc'[k] \in {"wait", "done"} /\ k \in Queued(QueueOf(k))' /\ k \in Mails \cup Events
        <3>1. PICK n \in {"mail", "event"} : k \in Queued(n)
            BY <2>1
        <3> n \in Queues
            BY DEF Queues
        <3>2. k \in Of(n) /\ Swapped(k)
            BY <1>1, <1>4, <3>1 DEF LoopOK, QueueOK, PlacesOK
        <3>3. k \in Jobs /\ QueueOf(k) = n
            BY <3>2 DEF Of
        <3> QED
            BY <1>2, <1>3, <2>2, <3>1, <3>2, <3>3 DEF QueueOf
    <2>5. LoopOK'
        BY <1>2, <1>4, <2>3, <2>4 DEF LoopOK, QueueOK
    <2> QED
        BY <1>1, <1>2, <2>4, <2>5 DEF DrainInv, Stopping
<1> QED
    BY <1>5, <1>6

\* onStop: the promises are kept already.
LEMMA StopDrainInv ==
    ASSUME DrainInv, Run, lpc \in Stopping
    PROVE  DrainInv'
<1>1. OnStopUnpublish \/ OnStopHandler \/ OnStopQueues \/ WgDone
    BY DEF Run, Stopping, OnInitRegister, InitDone, LoopCheck, SelectQueue, SelectClose, LoopPop, LoopPopCount, Handle, Execute, Finish
<1>2. ActorInv' /\ ActorInv
    BY <1>1, LoopActorInv DEF DrainInv
<1>3. UNCHANGED <<quiet, state>> /\ lpc' \in Stopping /\ lpc' \notin {"init", "registered"} /\ lpc \notin {"init", "registered"}
    BY <1>1 DEF OnStopUnpublish, OnStopHandler, OnStopQueues, WgDone, stopFrame, Stopping
<1>4. \A k \in quiet : Handled(k)'
    BY <1>2, HandledKept DEF DrainInv, Next
<1> QED
    BY <1>2, <1>3, <1>4 DEF DrainInv

\* Nothing is queued and nothing is promised.
LEMMA InitDrainInv == Init => DrainInv
<1> SUFFICES ASSUME Init PROVE DrainInv
    OBVIOUS
<1>1. ActorInv
    BY InitActorInv
<1>2. quiet = {} /\ lpc = "init" /\ cur = NoJob /\ pc \in [Jobs -> {"start", "absent"}]
    BY DEF Init
<1>3. ASSUME NEW n \in Queues PROVE QueueOK(n)
    <2>1. q[n].items = <<>> /\ q[n].count = 0 /\ q[n].C = "empty"
        BY DEF Init, newQueue, Queues
    <2>2. Len(q[n].items) = 0 /\ Queued(n) = {}
        BY <2>1 DEF Queued
    <2>3. \A j \in Of(n) : ~Swapped(j) /\ ~Counted(j) /\ pc[j] # "panicked" /\ cur # j
        BY <1>2, JobsAssumption DEF Of, Swapped, Counted
    <2>4. PlacesOK(n)
        BY <2>1, <2>2, <2>3 DEF PlacesOK
    <2>5. CountedSet(n) = {} /\ GoneSet(n) = {}
        BY <2>3 DEF CountedSet, GoneSet
    <2>6. CountOK(n)
        BY <2>1, <2>5, FS_EmptySet DEF CountOK
    <2>7. QuietOK(n)
        BY <1>2, <2>2 DEF QuietOK
    <2> QED
        BY <2>4, <2>6, <2>7 DEF QueueOK
<1> QED
    BY <1>1, <1>2, <1>3 DEF DrainInv, LoopOK, Stopping

\* What the counters promise holds throughout.
LEMMA DrainInvariant == Spec => []DrainInv
<1>1. Init => DrainInv
    BY InitDrainInv
<1>2. DrainInv /\ [Next]_vars => DrainInv'
    <2> SUFFICES ASSUME DrainInv, [Next]_vars PROVE DrainInv'
        OBVIOUS
    <2>1. CASE Run
        <3>1. CASE lpc \in Stopping
            BY <2>1, <3>1, StopDrainInv
        <3>2. CASE lpc \notin Stopping
            <4>1. ~(OnStopUnpublish \/ OnStopHandler \/ OnStopQueues \/ WgDone)
                BY <3>2 DEF OnStopUnpublish, OnStopHandler, OnStopQueues, WgDone, Stopping
            <4> QED
                BY <2>1, <3>2, <4>1, RunDrainInv, CloseDrainInv DEF Run
        <3> QED
            BY <3>1, <3>2
    <2>2. ASSUME NEW j \in Jobs, CallStart(j) \/ ChildCall(j) \/ EventStart(j) \/ Step(j) PROVE DrainInv'
        BY <2>2, JobDrainInv
    <2>3. CASE Exit \/ (\E j \in Mails : Expire(j) \/ IngressCancel(j)) \/ UNCHANGED vars
        <3>1. ActorInv /\ ActorInv'
            BY <2>3, ContextActorInv, StutterActorInv DEF DrainInv
        <3>2. UNCHANGED <<state, lpc, curq, cur, q, pc, recycles, executed, quiet>>
            BY <2>3 DEF Exit, Expire, IngressCancel, vars, loopVars, jobVars, histVars
        <3>3. ASSUME NEW n \in Queues, QueueOK(n) PROVE QueueOK(n)'
            <4>1. Queued(n)' = Queued(n) /\ CountedSet(n)' = CountedSet(n) /\ GoneSet(n)' = GoneSet(n)
                BY <3>2 DEF Queued, CountedSet, GoneSet, Of, Swapped, Counted
            <4> QED
                BY <3>2, <3>3, <4>1 DEF QueueOK, PlacesOK, CountOK, QuietOK, Of, Swapped, Counted
        <3> QED
            BY <3>1, <3>2, <3>3 DEF DrainInv, LoopOK, Queued, Handled
    <2> QED
        BY <2>1, <2>2, <2>3 DEF Next
<1> QED
    BY <1>1, <1>2, PTL DEF Spec

\* An Actor that turns to StopState while nobody is posting has handled all that was queued
\* at that moment when it leaves its loop, however many goroutines start to post after it:
\* no pop that runs ahead of its push's AddInt32 can make the counters hide it (Actor.loop).
THEOREM QuietStopsDrain == Spec => []QuietStopDrains
<1>1. DrainInv => QuietStopDrains
    BY DEF DrainInv, QuietStopDrains
<1> QED
    BY <1>1, DrainInvariant, PTL
-----------------------------------------------------------------------------
\* A push that will still signal: it has yet to count its item, or has counted one too many
\* for the consumer to sleep on.
Owes(j) == pc[j] \in {"link", "count"} \/ (pc[j] = "signal" /\ local[j] > 0)

\* An item is hidden from Pop only while its push stands before StorePointer.
LinkOK(n) == \A i \in 1..Len(q[n].items) : q[n].items[i] \in q[n].linked \/ pc[q[n].items[i]] = "link"

\* The loop is awake for this queue, or about to pass its wake-up on.
Serves(n) == curq = n /\ (lpc \in {"pop", "popCount"} \/ (lpc = "popSignal" /\ llocal > 0))
\* A positive counter over an empty channel is the debt of a push or of the loop.
WakeOK(n) == q[n].count > 0 /\ q[n].C = "empty" => (\E j \in Of(n) : Owes(j)) \/ Serves(n)

\* What the head of the loop has seen of the counters before it went on to wait.
StopOK == lpc = "select" /\ state = "Stop" => q["mail"].count > 0 \/ q["event"].count > 0

WakeInv ==
    /\ DrainInv /\ local \in [Jobs -> Int] /\ llocal \in Int
    /\ lpc \notin Stopping => StopOK /\ \A n \in Queues : LinkOK(n) /\ WakeOK(n)

\* What the loop of an Actor may rely on when it waits in select: a counter above zero is
\* that of a queue with items, over items the channel is full or a push is going to fill
\* it, and an Actor that is stopping waits only for items.
Awake ==
    lpc = "select" =>
        /\ \A n \in Queues : q[n].count > 0 => q[n].items # <<>>
        /\ \A n \in Queues : q[n].items # <<>> /\ q[n].C = "empty" => \E j \in Of(n) : Owes(j)
        /\ state = "Stop" => q["mail"].count > 0 \/ q["event"].count > 0

\* A step that leaves the list and the counter of queue n alone and pays no debt of it.
LEMMA WakeFrame ==
    ASSUME ActorInv, NEW n \in Queues, LinkOK(n), WakeOK(n),
           q'[n].items = q[n].items, q'[n].linked = q[n].linked, q'[n].count = q[n].count,
           q'[n].C = q[n].C \/ q'[n].C = "full", Serves(n) => Serves(n)',
           \A k \in Of(n) : (pc[k] = "link" => pc'[k] = "link") /\ (Owes(k) => Owes(k)')
    PROVE  LinkOK(n)' /\ WakeOK(n)'
<1>1. \A i \in 1..Len(q[n].items) : q[n].items[i] \in Of(n)
    BY OfFacts DEF Queued
<1>2. LinkOK(n)'
    BY <1>1 DEF LinkOK
<1>3. WakeOK(n)'
    BY DEF WakeOK, Of
<1> QED
    BY <1>2, <1>3

\* The steps of a push: each leaves a debt that the next one takes over, until the channel
\* is full or the counter says that the consumer needs no wake-up.
LEMMA JobWake ==
    ASSUME WakeInv, lpc \notin Stopping, NEW n \in Queues, NEW j \in Jobs,
           CallStart(j) \/ ChildCall(j) \/ EventStart(j) \/ Step(j)
    PROVE  LinkOK(n)' /\ WakeOK(n)' /\ q'[n].count \in Int /\ q'[n].count >= q[n].count
<1>1. /\ ActorInv /\ LinkOK(n) /\ WakeOK(n) /\ q \in [Queues -> QueueType] /\ q[n].C # "closed" /\ pc \in [Jobs -> JobPlaces]
      /\ QueueOf(j) \in Queues /\ (j \in Of(n) <=> QueueOf(j) = n) /\ local \in [Jobs -> Int] /\ q[n].count \in Int
      /\ q[n].items \in Seq(Jobs) /\ \A i \in 1..Len(q[n].items) : q[n].items[i] \in Of(n)
    <2>1. ActorInv /\ LinkOK(n) /\ WakeOK(n) /\ PlacesOK(n) /\ local \in [Jobs -> Int]
        BY DEF WakeInv, DrainInv, LoopOK, QueueOK
    <2>2. q \in [Queues -> QueueType] /\ pc \in [Jobs -> JobPlaces] /\ QueueOf(j) \in Queues /\ (j \in Of(n) <=> QueueOf(j) = n)
        BY <2>1 DEF ActorInv, ActorTypeOK, Queues, QueueOf, Of
    <2>3. q[n].items \in Seq(Jobs) /\ \A i \in 1..Len(q[n].items) : q[n].items[i] \in Of(n)
        BY <2>1, OfFacts DEF Queued
    <2> QED
        BY <2>1, <2>2, <2>3 DEF PlacesOK, QueueType
<1>2. UNCHANGED <<curq, lpc, llocal>> /\ (Serves(n) <=> Serves(n)')
    BY DEF CallStart, ChildCall, EventStart, Step, Lookup, CheckState, PushSwap, PushLink, PushCount, PushSignal,
           InvokeReturn, jobFrame, loopVars, Serves
<1>3. CASE CallStart(j) \/ ChildCall(j) \/ EventStart(j) \/ Lookup(j) \/ CheckState(j) \/ InvokeReturn(j)
    <2>1. UNCHANGED <<q, local>> /\ pc[j] \in {"start", "lookup", "state", "wait"} /\ \A k \in Jobs : k # j => pc'[k] = pc[k]
        BY <1>1, <1>3 DEF CallStart, ChildCall, EventStart, Lookup, CheckState, InvokeReturn, Rejected
    <2>2. \A k \in Of(n) : (pc[k] = "link" => pc'[k] = "link") /\ (Owes(k) => Owes(k)')
        BY <2>1 DEF Owes, Of
    <2> QED
        BY <1>1, <1>2, <2>1, <2>2, WakeFrame
<1>4. ASSUME QueueOf(j) # n, PushSwap(j) \/ PushLink(j) \/ PushCount(j) \/ PushSignal(j)
      PROVE  LinkOK(n)' /\ WakeOK(n)' /\ q'[n] = q[n]
    <2>1. q'[n] = q[n] /\ \A k \in Jobs : k # j => pc'[k] = pc[k] /\ local'[k] = local[k]
        BY <1>1, <1>4 DEF PushSwap, PushLink, PushCount, PushSignal
    <2>2. \A k \in Of(n) : (pc[k] = "link" => pc'[k] = "link") /\ (Owes(k) => Owes(k)')
        BY <1>1, <1>4, <2>1 DEF Owes, Of
    <2> QED
        BY <1>1, <1>2, <2>1, <2>2, WakeFrame
<1>5. CASE QueueOf(j) = n /\ PushSwap(j)
    <2>1. /\ pc[j] = "swap" /\ pc'[j] = "link" /\ (\A k \in Jobs : k # j => pc'[k] = pc[k])
          /\ q'[n].items = Append(q[n].items, j) /\ q'[n].linked = q[n].linked /\ q'[n].count = q[n].count
        BY <1>1, <1>5 DEF PushSwap, Swap, QueueType
    <2>2. WakeOK(n)'
        BY <1>1, <1>5, <2>1 DEF WakeOK, Owes, Of
    <2>3. LinkOK(n)'
        <3> SUFFICES ASSUME NEW i \in 1..Len(q'[n].items) PROVE q'[n].items[i] \in q'[n].linked \/ pc'[q'[n].items[i]] = "link"
            BY DEF LinkOK
        <3>1. CASE i \in 1..Len(q[n].items)
            <4>1. q'[n].items[i] = q[n].items[i] /\ q[n].items[i] \in Jobs
                BY <1>1, <2>1, <3>1
            <4> QED
                BY <1>1, <2>1, <3>1, <4>1 DEF LinkOK
        <3>2. CASE i \notin 1..Len(q[n].items)
            <4>1. q'[n].items[i] = j
                BY <1>1, <2>1, <3>2
            <4> QED
                BY <2>1, <4>1
        <3> QED
            BY <3>1, <3>2
    <2> QED
        BY <1>1, <2>1, <2>2, <2>3
<1>6. CASE QueueOf(j) = n /\ PushLink(j)
    <2>1. /\ pc[j] = "link" /\ pc'[j] = "count" /\ (\A k \in Jobs : k # j => pc'[k] = pc[k])
          /\ q'[n].items = q[n].items /\ q'[n].linked = q[n].linked \cup {j} /\ q'[n].count = q[n].count
        BY <1>1, <1>6 DEF PushLink, Link, QueueType
    <2>2. WakeOK(n)'
        BY <1>1, <1>6, <2>1 DEF WakeOK, Owes, Of
    <2>3. LinkOK(n)'
        BY <1>1, <2>1 DEF LinkOK, Of
    <2> QED
        BY <1>1, <2>1, <2>2, <2>3
<1>7. CASE QueueOf(j) = n /\ PushCount(j)
    <2>1. /\ pc[j] = "count" /\ pc'[j] = "signal" /\ (\A k \in Jobs : k # j => pc'[k] = pc[k])
          /\ q'[n].items = q[n].items /\ q'[n].linked = q[n].linked /\ q'[n].count = q[n].count + 1
          /\ local'[j] = q[n].count + 1
        BY <1>1, <1>7 DEF PushCount, AddCount, QueueType
    <2>2. WakeOK(n)'
        BY <1>1, <1>7, <2>1 DEF WakeOK, Owes, Of
    <2>3. LinkOK(n)'
        BY <1>1, <2>1 DEF LinkOK, Of
    <2> QED
        BY <1>1, <2>1, <2>2, <2>3
<1>8. CASE QueueOf(j) = n /\ PushSignal(j)
    <2>1. /\ pc[j] = "signal" /\ q' = [q EXCEPT ![n] = Signal(@, local[j])]
          /\ \A k \in Jobs : k # j => pc'[k] = pc[k] /\ local'[k] = local[k]
        BY <1>1, <1>8 DEF PushSignal, SignalPanics
    <2>2. q'[n].items = q[n].items /\ q'[n].linked = q[n].linked /\ q'[n].count = q[n].count
          /\ q'[n].C = (IF local[j] > 0 /\ q[n].C = "empty" THEN "full" ELSE q[n].C)
        BY <1>1, <2>1 DEF Signal, QueueType
    <2>3. LinkOK(n)'
        BY <1>1, <2>1, <2>2 DEF LinkOK, Of
    <2>4. CASE local[j] > 0
        <3>1. q'[n].C # "empty"
            BY <2>2, <2>4
        <3> QED
            BY <1>1, <2>2, <2>3, <3>1 DEF WakeOK
    <2>5. CASE ~(local[j] > 0)
        <3>1. \A k \in Of(n) : (pc[k] = "link" => pc'[k] = "link") /\ (Owes(k) => Owes(k)')
            BY <2>1, <2>5 DEF Owes, Of
        <3> QED
            BY <1>1, <1>2, <2>2, <2>5, <3>1, WakeFrame
    <2> QED
        BY <2>4, <2>5
<1>9. CASE PushSwap(j) \/ PushLink(j) \/ PushCount(j) \/ PushSignal(j)
    BY <1>1, <1>4, <1>5, <1>6, <1>7, <1>8, <1>9
<1> QED
    BY <1>3, <1>9 DEF Step

\* A counter above zero has an item to show, but between the two halves of a pop.
LEMMA CountHolds ==
    ASSUME ActorInv, NEW n \in Queues, CountOK(n), lpc # "popCount", q[n].count > 0
    PROVE  q[n].items # <<>>
<1> SUFFICES ASSUME q[n].items = <<>> PROVE FALSE
    OBVIOUS
<1>1. Queued(n) = {}
    BY DEF Queued
<1>2. CountedSet(n) \subseteq GoneSet(n)
    BY <1>1 DEF CountedSet, GoneSet, Counted, Swapped
<1>3. IsFiniteSet(GoneSet(n)) /\ Cardinality(CountedSet(n)) \in Nat /\ Cardinality(GoneSet(n)) \in Nat
    BY OfFacts
<1>4. Cardinality(CountedSet(n)) <= Cardinality(GoneSet(n))
    BY <1>2, <1>3, FS_Subset
<1> QED
    BY <1>3, <1>4 DEF CountOK

\* Items that no push owes a count are counted.
LEMMA ItemsCount ==
    ASSUME ActorInv, NEW n \in Queues, PlacesOK(n), CountOK(n), q[n].items # <<>>, \A j \in Of(n) : ~Owes(j)
    PROVE  q[n].count > 0
<1>1. Queued(n) \subseteq Of(n) /\ q[n].items \in Seq(Jobs)
    BY OfFacts
<1>2. PICK j : j \in Queued(n)
    <2>1. 1 \in 1..Len(q[n].items)
        BY <1>1
    <2> QED
        BY <2>1 DEF Queued
<1>3. \A k \in Of(n) : Swapped(k) => Counted(k)
    BY DEF Owes, Swapped, Counted
<1>4. GoneSet(n) \subseteq CountedSet(n) /\ j \in CountedSet(n) /\ j \notin GoneSet(n)
    BY <1>1, <1>2, <1>3 DEF PlacesOK, CountedSet, GoneSet
<1>5. IsFiniteSet(CountedSet(n)) /\ Cardinality(CountedSet(n)) \in Nat /\ Cardinality(GoneSet(n)) \in Nat
    BY OfFacts
<1>6. Cardinality(GoneSet(n)) <= Cardinality(CountedSet(n)) /\ Cardinality(GoneSet(n)) # Cardinality(CountedSet(n))
    BY <1>4, <1>5, FS_Subset
<1> QED
    BY <1>5, <1>6 DEF CountOK

\* Pop: the loop keeps serving the queue it took from, and a queue that shows nothing is
\* empty or has a push before StorePointer at its head.
LEMMA PopWake ==
    ASSUME WakeInv, lpc \notin Stopping, NEW n \in Queues, LoopPop
    PROVE  LinkOK(n)' /\ WakeOK(n)'
<1>1. /\ ActorInv /\ LinkOK(n) /\ WakeOK(n) /\ PlacesOK(n) /\ CountOK(n) /\ q \in [Queues -> QueueType] /\ curq \in Queues
      /\ q[n].count \in Int /\ q[n].items \in Seq(Jobs) /\ \A i \in 1..Len(q[n].items) : q[n].items[i] \in Of(n)
    <2>1. ActorInv /\ LinkOK(n) /\ WakeOK(n) /\ PlacesOK(n) /\ CountOK(n)
        BY DEF WakeInv, DrainInv, LoopOK, QueueOK
    <2>2. q \in [Queues -> QueueType] /\ curq \in Queues
        BY <2>1 DEF ActorInv, ActorTypeOK
    <2>3. q[n].items \in Seq(Jobs) /\ \A i \in 1..Len(q[n].items) : q[n].items[i] \in Of(n)
        BY <2>1, OfFacts DEF Queued
    <2> QED
        BY <2>1, <2>2, <2>3 DEF QueueType
<1>2. UNCHANGED <<pc, local, curq, llocal>> /\ lpc = "pop"
    BY DEF LoopPop, loopFrame
<1>3. \A k \in Of(n) : Owes(k)' <=> Owes(k)
    BY <1>2 DEF Owes
<1>4. CASE curq # n
    <2>1. q'[n] = q[n] /\ ~Serves(n)
        BY <1>1, <1>2, <1>4 DEF LoopPop, Serves
    <2> QED
        BY <1>1, <1>2, <1>3, <2>1, WakeFrame
<1>5. CASE curq = n /\ CanPop(q[n])
    <2> DEFINE s == q[n].items
               t == q'[n].items
    <2>1. q'[n] = PopItem(q[n]) /\ lpc' = "popCount" /\ s # <<>>
        BY <1>1, <1>5 DEF LoopPop, CanPop
    <2>2. WakeOK(n)'
        BY <1>2, <1>5, <2>1 DEF WakeOK, Serves
    <2>3. Len(s) \in Nat /\ Len(s) > 0 /\ Head(s) = s[1] /\ Len(t) = Len(s) - 1 /\ \A i \in 1..Len(t) : t[i] = s[i + 1]
        <3>1. q[n] \in QueueType /\ q[n].items # <<>>
            BY <1>1, <2>1
        <3>2. t = Tail(s)
            BY <2>1, <3>1, PopFields
        <3>3. /\ Len(s) \in Nat /\ Len(s) > 0 /\ Head(s) = s[1] /\ Len(Tail(s)) = Len(s) - 1
              /\ \A i \in 1..Len(Tail(s)) : Tail(s)[i] = s[i + 1]
            BY <3>1, PopFields
        <3> QED
            BY <3>2, <3>3
    <2>4. q'[n].linked = q[n].linked \ {s[1]}
        BY <1>1, <2>1, <2>3 DEF PopItem, QueueType
    <2>5. ASSUME NEW i \in 1..Len(t) PROVE t[i] \in q'[n].linked \/ pc'[t[i]] = "link"
        <3>1. i + 1 \in 1..Len(s) /\ 1 \in 1..Len(s) /\ i + 1 # 1 /\ t[i] = s[i + 1]
            BY <2>3
        <3>2. t[i] # s[1]
            BY <1>1, <3>1 DEF PlacesOK
        <3>3. t[i] \in q[n].linked \/ pc[t[i]] = "link"
            BY <1>1, <3>1 DEF LinkOK
        <3> QED
            BY <1>2, <2>4, <3>2, <3>3
    <2> QED
        BY <2>2, <2>5 DEF LinkOK
<1>6. CASE curq = n /\ ~CanPop(q[n])
    <2>1. q' = q
        BY <1>1, <1>6 DEF LoopPop
    <2>2. LinkOK(n)'
        BY <1>1, <1>2, <2>1 DEF LinkOK
    <2>3. ASSUME q[n].count > 0 PROVE \E k \in Of(n) : Owes(k)
        <3>1. q[n].items # <<>>
            BY <1>1, <1>2, <2>3, CountHolds
        <3>2. 1 \in 1..Len(q[n].items) /\ Head(q[n].items) = q[n].items[1]
            BY <1>1, <3>1
        <3>3. pc[q[n].items[1]] = "link"
            BY <1>1, <1>6, <3>1, <3>2 DEF CanPop, LinkOK
        <3> QED
            BY <1>1, <3>2, <3>3 DEF Owes
    <2> QED
        BY <1>3, <2>1, <2>2, <2>3 DEF WakeOK, Of
<1> QED
    BY <1>4, <1>5, <1>6

\* The other steps of the loop.
LEMMA RunWake ==
    ASSUME WakeInv, lpc \notin Stopping, NEW n \in Queues,
           \/ OnInitRegister \/ InitDone \/ LoopCheck \/ (\E m \in Queues : SelectQueue(m)) \/ SelectClose
           \/ LoopPopCount \/ Handle \/ Execute \/ Finish
    PROVE  LinkOK(n)' /\ WakeOK(n)'
<1>1. /\ ActorInv /\ LinkOK(n) /\ WakeOK(n) /\ q[n].C # "closed" /\ q \in [Queues -> QueueType] /\ curq \in Queues
      /\ q[n].count \in Int /\ llocal \in Int
    <2>1. ActorInv /\ LinkOK(n) /\ WakeOK(n) /\ PlacesOK(n) /\ llocal \in Int
        BY DEF WakeInv, DrainInv, LoopOK, QueueOK
    <2>2. q \in [Queues -> QueueType] /\ curq \in Queues
        BY <2>1 DEF ActorInv, ActorTypeOK
    <2> QED
        BY <2>1, <2>2 DEF PlacesOK, QueueType
<1>2. UNCHANGED <<pc, local>>
    BY DEF OnInitRegister, InitDone, LoopCheck, SelectQueue, SelectClose, LoopPopCount, Handle, Execute, Finish, loopFrame
<1>3. \A k \in Of(n) : (pc[k] = "link" => pc'[k] = "link") /\ (Owes(k) => Owes(k)')
    BY <1>2 DEF Owes
<1>4. CASE OnInitRegister \/ InitDone \/ LoopCheck \/ SelectClose \/ Handle \/ Execute \/ Finish
    <2>1. UNCHANGED q /\ lpc \notin {"pop", "popCount", "popSignal"}
        BY <1>4 DEF OnInitRegister, InitDone, LoopCheck, SelectClose, Handle, Execute, Finish
    <2> QED
        BY <1>1, <1>3, <2>1, WakeFrame DEF Serves
<1>5. ASSUME NEW m \in Queues, SelectQueue(m) PROVE LinkOK(n)' /\ WakeOK(n)'
    <2>1. q' = [q EXCEPT ![m] = Receive(@)] /\ lpc = "select" /\ lpc' = "pop" /\ curq' = m
        BY <1>5 DEF SelectQueue
    <2>2. CASE m # n
        <3>1. q'[n] = q[n] /\ ~Serves(n)
            BY <1>1, <2>1, <2>2 DEF Serves
        <3> QED
            BY <1>1, <1>3, <3>1, WakeFrame
    <2>3. CASE m = n
        <3>1. q'[n].items = q[n].items /\ q'[n].linked = q[n].linked
            BY <1>1, <2>1, <2>3 DEF Receive, QueueType
        <3>2. LinkOK(n)'
            BY <1>1, <1>2, <3>1 DEF LinkOK
        <3> QED
            BY <2>1, <2>3, <3>2 DEF WakeOK, Serves
    <2> QED
        BY <2>2, <2>3
<1>6. CASE LoopPopCount /\ curq # n
    <2>1. q'[n] = q[n] /\ ~Serves(n)
        BY <1>1, <1>6 DEF LoopPopCount, Serves
    <2> QED
        BY <1>1, <1>3, <2>1, WakeFrame
<1>7. CASE LoopPopCount /\ curq = n /\ lpc = "popCount"
    <2>1. /\ q'[n].items = q[n].items /\ q'[n].linked = q[n].linked /\ q'[n].count = q[n].count - 1
          /\ llocal' = q[n].count - 1 /\ lpc' = "popSignal" /\ curq' = n
        BY <1>1, <1>7 DEF LoopPopCount, AddCount, QueueType
    <2>2. LinkOK(n)'
        BY <1>1, <1>2, <2>1 DEF LinkOK
    <2>3. WakeOK(n)'
        BY <1>1, <2>1 DEF WakeOK, Serves
    <2> QED
        BY <2>2, <2>3
<1>8. CASE LoopPopCount /\ curq = n /\ lpc = "popSignal"
    <2>1. /\ q'[n].items = q[n].items /\ q'[n].linked = q[n].linked /\ q'[n].count = q[n].count
          /\ q'[n].C = (IF llocal > 0 /\ q[n].C = "empty" THEN "full" ELSE q[n].C)
        BY <1>1, <1>8 DEF LoopPopCount, Signal, QueueType
    <2>2. CASE llocal > 0
        <3>1. q'[n].C # "empty" /\ LinkOK(n)'
            BY <1>1, <1>2, <2>1, <2>2 DEF LinkOK
        <3> QED
            BY <3>1 DEF WakeOK
    <2>3. CASE ~(llocal > 0)
        <3>1. ~Serves(n)
            BY <1>8, <2>3 DEF Serves
        <3> QED
            BY <1>1, <1>3, <2>1, <2>3, <3>1, WakeFrame
    <2> QED
        BY <2>2, <2>3
<1> QED
    BY <1>4, <1>5, <1>6, <1>7, <1>8 DEF LoopPopCount

\* The counts that the steps keep are integers.
LEMMA CountsKept ==
    ASSUME WakeInv, [Next]_vars
    PROVE  local' \in [Jobs -> Int] /\ llocal' \in Int
<1>1. q \in [Queues -> QueueType] /\ curq \in Queues /\ local \in [Jobs -> Int] /\ llocal \in Int
      /\ \A n \in Queues : q[n].count \in Int
    <2>1. q \in [Queues -> QueueType] /\ curq \in Queues /\ local \in [Jobs -> Int] /\ llocal \in Int
        BY DEF WakeInv, DrainInv, ActorInv, ActorTypeOK
    <2> QED
        BY <2>1 DEF QueueType
<1>2. local' \in [Jobs -> Int]
    <2>1. \/ UNCHANGED local \/ \E j \in Jobs : PushCount(j) \/ PushSignal(j)
        BY DEF Next, Run, Step, OnInitRegister, InitDone, LoopCheck, SelectQueue, SelectClose, LoopPop, LoopPopCount, Handle,
               Execute, Finish, OnStopUnpublish, OnStopHandler, OnStopQueues, WgDone, stopFrame, loopFrame, Exit, CallStart,
               ChildCall, EventStart, Lookup, CheckState, PushSwap, PushLink, InvokeReturn, Expire, IngressCancel, vars, jobVars
    <2>2. \A j \in Jobs : QueueOf(j) \in Queues
        BY DEF QueueOf, Queues
    <2> QED
        BY <1>1, <2>1, <2>2 DEF PushCount, PushSignal
<1>3. llocal' \in Int
    <2>1. \/ UNCHANGED llocal \/ LoopPopCount
        BY DEF Next, Run, Step, OnInitRegister, InitDone, LoopCheck, SelectQueue, SelectClose, LoopPop, Handle,
               Execute, Finish, OnStopUnpublish, OnStopHandler, OnStopQueues, WgDone, stopFrame, loopFrame, Exit, CallStart,
               ChildCall, EventStart, Lookup, CheckState, PushSwap, PushLink, PushCount, PushSignal, InvokeReturn, jobFrame,
               Expire, IngressCancel, vars, loopVars
    <2> QED
        BY <1>1, <2>1 DEF LoopPopCount
<1> QED
    BY <1>2, <1>3

\* An Actor that is stopping goes on to wait only with a counter above zero, and its own
\* pops are the only steps that lower one.
LEMMA StopKept ==
    ASSUME WakeInv, [Next]_vars, lpc' = "select"
    PROVE  StopOK'
<1>1. CASE LoopCheck
    <2>1. /\ state' = state /\ q' = q
          /\ ~(state = "Stop" /\ q["mail"].count < 1) \/ ~(q["event"].count < 1)
        BY <1>1 DEF LoopCheck
    <2>2. "mail" \in Queues /\ "event" \in Queues /\ q \in [Queues -> QueueType]
        BY DEF WakeInv, DrainInv, ActorInv, ActorTypeOK, Queues
    <2>3. q["mail"].count \in Int /\ q["event"].count \in Int
        BY <2>2 DEF QueueType
    <2>4. /\ ~(q["mail"].count < 1) => q["mail"].count > 0
          /\ ~(q["event"].count < 1) => q["event"].count > 0
        BY <2>3
    <2> QED
        BY <2>1, <2>4 DEF StopOK
<1>2. ASSUME NEW j \in Jobs, CallStart(j) \/ ChildCall(j) \/ EventStart(j) \/ Step(j) PROVE StopOK'
    <2>1. UNCHANGED <<state, lpc>>
        BY <1>2 DEF CallStart, ChildCall, EventStart, Step, Lookup, CheckState, PushSwap, PushLink, PushCount, PushSignal,
               InvokeReturn, jobFrame, loopVars
    <2>2. lpc \notin Stopping /\ StopOK
        BY <2>1 DEF Stopping, WakeInv
    <2>3. \A n \in Queues : q'[n].count \in Int /\ q'[n].count >= q[n].count
        BY <1>2, <2>2, JobWake
    <2>4. "mail" \in Queues /\ "event" \in Queues /\ q \in [Queues -> QueueType]
        BY DEF WakeInv, DrainInv, ActorInv, ActorTypeOK, Queues
    <2>5. q["mail"].count \in Int /\ q["event"].count \in Int
        BY <2>4 DEF QueueType
    <2> QED
        BY <2>1, <2>2, <2>3, <2>4, <2>5 DEF StopOK
<1>3. CASE Exit \/ (\E j \in Mails : Expire(j) \/ IngressCancel(j)) \/ UNCHANGED vars
    <2>1. UNCHANGED <<state, lpc, q>>
        BY <1>3 DEF Exit, Expire, IngressCancel, vars, loopVars
    <2>2. StopOK
        BY <2>1 DEF Stopping, WakeInv
    <2> QED
        BY <2>1, <2>2 DEF StopOK
<1>4. ~(Run /\ ~LoopCheck)
    BY DEF Run, OnInitRegister, InitDone, SelectQueue, SelectClose, LoopPop, LoopPopCount, Handle, Execute, Finish,
           OnStopUnpublish, OnStopHandler, OnStopQueues, WgDone
<1> QED
    BY <1>1, <1>2, <1>3, <1>4 DEF Next

\* No wake-up of an Actor's loop is lost, in any of its three queues and however pushes,
\* pops and calls of Exit interleave (Actor.loop, queue.go Push, Pop and _setCount).
THEOREM LoopWakesUp == Spec => []Awake
<1>1. Init => WakeInv
    <2> SUFFICES ASSUME Init, DrainInv PROVE WakeInv
        BY InitDrainInv
    <2>1. local \in [Jobs -> Int] /\ llocal \in Int /\ lpc = "init"
        BY DEF Init
    <2>2. \A n \in Queues : q[n].items = <<>> /\ q[n].count = 0
        BY DEF Init, newQueue, Queues
    <2>3. StopOK /\ \A n \in Queues : LinkOK(n) /\ WakeOK(n)
        BY <2>1, <2>2 DEF StopOK, LinkOK, WakeOK
    <2> QED
        BY <2>1, <2>3 DEF WakeInv
<1>2. WakeInv /\ DrainInv' /\ [Next]_vars => WakeInv'
    <2> SUFFICES ASSUME WakeInv, DrainInv', [Next]_vars, lpc' \notin Stopping
                 PROVE  StopOK' /\ \A n \in Queues : LinkOK(n)' /\ WakeOK(n)'
        BY CountsKept DEF WakeInv
    <2>1. StopOK'
        BY StopKept DEF StopOK
    <2>2. lpc \notin Stopping
        <3> SUFFICES ASSUME lpc \in Stopping PROVE FALSE
            OBVIOUS
        <3>1. CASE Run
            <4>1. OnStopUnpublish \/ OnStopHandler \/ OnStopQueues \/ WgDone
                BY <3>1 DEF Run, Stopping, OnInitRegister, InitDone, LoopCheck, SelectQueue, SelectClose, LoopPop, LoopPopCount,
                            Handle, Execute, Finish
            <4> QED
                BY <4>1 DEF OnStopUnpublish, OnStopHandler, OnStopQueues, WgDone, Stopping
        <3>2. CASE ~Run
            <4>1. lpc' = lpc
                BY <3>2 DEF Next, Step, Exit, CallStart, ChildCall, EventStart, Lookup, CheckState, PushSwap, PushLink, PushCount,
                            PushSignal, InvokeReturn, jobFrame, Expire, IngressCancel, vars, loopVars
            <4> QED
                BY <4>1
        <3> QED
            BY <3>1, <3>2
    <2>3. ASSUME NEW n \in Queues PROVE LinkOK(n)' /\ WakeOK(n)'
        <3>1. CASE Run
            <4>1. ~(OnStopUnpublish \/ OnStopHandler \/ OnStopQueues \/ WgDone)
                BY <2>2 DEF OnStopUnpublish, OnStopHandler, OnStopQueues, WgDone, Stopping
            <4> QED
                BY <2>2, <3>1, <4>1, RunWake, PopWake DEF Run
        <3>2. ASSUME NEW j \in Jobs, CallStart(j) \/ ChildCall(j) \/ EventStart(j) \/ Step(j) PROVE LinkOK(n)' /\ WakeOK(n)'
            BY <2>2, <3>2, JobWake
        <3>3. CASE Exit \/ (\E j \in Mails : Expire(j) \/ IngressCancel(j)) \/ UNCHANGED vars
            <4>1. UNCHANGED <<q, pc, local, lpc, llocal, curq>>
                BY <3>3 DEF Exit, Expire, IngressCancel, vars, loopVars, jobVars
            <4>2. LinkOK(n) /\ WakeOK(n)
                BY <2>2 DEF WakeInv
            <4> QED
                BY <4>1, <4>2 DEF LinkOK, WakeOK, Owes, Serves, Of
        <3> QED
            BY <3>1, <3>2, <3>3 DEF Next
    <2> QED
        BY <2>1, <2>3
<1>3. WakeInv => Awake
    <2> SUFFICES ASSUME WakeInv, lpc = "select" PROVE Awake
        BY DEF Awake
    <2>1. ActorInv /\ StopOK /\ \A n \in Queues : PlacesOK(n) /\ CountOK(n) /\ WakeOK(n)
        BY DEF WakeInv, DrainInv, LoopOK, QueueOK, Stopping
    <2>2. \A n \in Queues : q[n].count > 0 => q[n].items # <<>>
        BY <2>1, CountHolds
    <2>3. ASSUME NEW n \in Queues, q[n].items # <<>>, q[n].C = "empty" PROVE \E j \in Of(n) : Owes(j)
        <3>1. ~Serves(n)
            BY DEF Serves
        <3> QED
            BY <2>1, <2>3, <3>1, ItemsCount DEF WakeOK
    <2> QED
        BY <2>1, <2>2, <2>3 DEF Awake, StopOK
<1> QED
    BY <1>1, <1>2, <1>3, DrainInvariant, PTL DEF Spec
=============================================================================
