-------------------------- MODULE QueueSpec_proofs --------------------------
(***************************************************************************)
(* Proofs about the mailbox queue for any number of producers and pushes:  *)
(* the inductive invariant IInv, and from it the absence of lost wake-ups, *)
(* the bound on Count and the order of delivery.                           *)
(***************************************************************************)
EXTENDS QueueSpec, FiniteSetTheorems, TLAPS

\* Uncounted is a finite set with a natural number of members.
LEMMA UncountedFinite ==
    /\ IsFiniteSet(Uncounted)
    /\ Cardinality(Uncounted) \in Nat
    /\ Cardinality(Uncounted) = 0 <=> Uncounted = {}
<1>1. IsFiniteSet(Uncounted)
  BY ProducersAssumption, FS_Subset DEF Uncounted
<1> QED
  BY <1>1, FS_CardinalityType, FS_EmptySet

\* A producer that enters the window between SwapPointer and AddInt32.
LEMMA UncountedGrows ==
    ASSUME NEW p \in Producers, pc \in [Producers -> {"idle", "link", "count", "signal"}],
           pc[p] \notin {"link", "count"},
           pc' = [pc EXCEPT ![p] = "link"]
    PROVE  Cardinality(Uncounted') = Cardinality(Uncounted) + 1
<1>1. Uncounted' = Uncounted \cup {p} /\ p \notin Uncounted
  BY DEF Uncounted
<1> QED
  BY <1>1, UncountedFinite, FS_AddElement

\* A producer that leaves it.
LEMMA UncountedShrinks ==
    ASSUME NEW p \in Producers, pc \in [Producers -> {"idle", "link", "count", "signal"}],
           pc[p] = "count",
           pc' = [pc EXCEPT ![p] = "signal"]
    PROVE  Cardinality(Uncounted') = Cardinality(Uncounted) - 1
<1>1. Uncounted' = Uncounted \ {p} /\ p \in Uncounted
  BY DEF Uncounted
<1> QED
  BY <1>1, UncountedFinite, FS_RemoveElement

\* What the operators of Queue do to each field of a well-typed queue.
LEMMA SwapFields ==
    ASSUME NEW r \in QueueType, NEW v \in Values
    PROVE  /\ Swap(r, v) \in QueueType
           /\ Swap(r, v).items = Append(r.items, v)
           /\ Swap(r, v).linked = r.linked
           /\ Swap(r, v).count = r.count /\ Swap(r, v).C = r.C
<1>1. Append(r.items, v) \in Seq(Values)
  BY DEF QueueType
<1> QED
  BY <1>1 DEF QueueType, Swap

\* What Link does to each field (queue.go Push, StorePointer).
LEMMA LinkFields ==
    ASSUME NEW r \in QueueType, NEW v \in Values
    PROVE  /\ Link(r, v) \in QueueType
           /\ Link(r, v).items = r.items
           /\ Link(r, v).linked = r.linked \cup {v}
           /\ Link(r, v).count = r.count /\ Link(r, v).C = r.C
BY DEF QueueType, Link

\* What the atomic addition does to each field (queue.go _setCount).
LEMMA AddCountFields ==
    ASSUME NEW r \in QueueType, NEW d \in Int
    PROVE  /\ AddCount(r, d) \in QueueType
           /\ AddCount(r, d).items = r.items
           /\ AddCount(r, d).linked = r.linked
           /\ AddCount(r, d).count = r.count + d
           /\ AddCount(r, d).C = r.C
BY DEF QueueType, AddCount

\* What the non-blocking send does to each field (queue.go _setCount).
LEMMA SignalFields ==
    ASSUME NEW r \in QueueType, NEW c \in Int
    PROVE  /\ Signal(r, c) \in QueueType
           /\ Signal(r, c).items = r.items
           /\ Signal(r, c).linked = r.linked
           /\ Signal(r, c).count = r.count
           /\ Signal(r, c).C = IF c > 0 THEN "full" ELSE r.C
BY DEF QueueType, Signal

\* What a receive from the wake-up channel does to each field (Actor.loop).
LEMMA ReceiveFields ==
    ASSUME NEW r \in QueueType
    PROVE  /\ Receive(r) \in QueueType
           /\ Receive(r).items = r.items
           /\ Receive(r).linked = r.linked
           /\ Receive(r).count = r.count
           /\ Receive(r).C = "empty"
BY DEF QueueType, Receive

\* What advancing tail does to each field (queue.go Pop).
LEMMA PopItemFields ==
    ASSUME NEW r \in QueueType, r.items # <<>>
    PROVE  /\ PopItem(r) \in QueueType
           /\ PopItem(r).items = Tail(r.items)
           /\ PopItem(r).linked = r.linked \ {Head(r.items)}
           /\ PopItem(r).count = r.count /\ PopItem(r).C = r.C
<1>1. Tail(r.items) \in Seq(Values)
  BY DEF QueueType
<1> QED
  BY <1>1 DEF QueueType, PopItem

\* A new queue satisfies the inductive invariant (queue.go newQueue).
LEMMA InitIInv == Init => IInv
<1> SUFFICES ASSUME Init PROVE IInv
  OBVIOUS
<1>1. TypeOK
  BY MaxPushesAssumption DEF Init, TypeOK, QueueType, newQueue
<1>2. CountInv
  <2>1. Uncounted = {}
    BY DEF Init, Uncounted
  <2> QED
    BY <2>1, UncountedFinite DEF Init, CountInv, newQueue
<1>3. LinkInv /\ WakeInv
  BY DEF Init, LinkInv, WakeInv, newQueue
<1>4. OrderInv
  BY MaxPushesAssumption DEF Init, OrderInv, newQueue
<1> QED
  BY <1>1, <1>2, <1>3, <1>4 DEF IInv

\* Every step of Push, Pop and the loop keeps the types.
LEMMA NextTypeOK == TypeOK /\ [Next]_vars => TypeOK'
<1> SUFFICES ASSUME TypeOK, [Next]_vars PROVE TypeOK'
  OBVIOUS
<1> USE MaxPushesAssumption DEF TypeOK
<1>1. ASSUME NEW p \in Producers, PushSwap(p) PROVE TypeOK'
  <2>1. NextValue(p) \in Values
    BY <1>1 DEF PushSwap, NextValue, Values
  <2>2. q' \in QueueType
    BY <1>1, <2>1, SwapFields DEF PushSwap
  <2> QED
    BY <1>1, <2>2 DEF PushSwap, consVars
<1>2. ASSUME NEW p \in Producers, PushLink(p) PROVE TypeOK'
  <2>1. CurValue(p) \in Values
    BY <1>2 DEF PushLink, CurValue, Values
  <2>2. q' \in QueueType
    BY <1>2, <2>1, LinkFields DEF PushLink
  <2> QED
    BY <1>2, <2>2 DEF PushLink, consVars
<1>3. ASSUME NEW p \in Producers, PushCount(p) PROVE TypeOK'
  <2>1. q' \in QueueType
    BY <1>3, AddCountFields DEF PushCount
  <2>2. q.count + 1 \in Int
    BY DEF QueueType
  <2> QED
    BY <1>3, <2>1, <2>2 DEF PushCount, consVars
<1>4. ASSUME NEW p \in Producers, PushSignal(p) PROVE TypeOK'
  <2>1. q' \in QueueType
    BY <1>4, SignalFields DEF PushSignal
  <2> QED
    BY <1>4, <2>1 DEF PushSignal, consVars
<1>5. CASE Wake
  BY <1>5, ReceiveFields DEF Wake, prodVars
<1>6. CASE PopValue
  <2>1. q' \in QueueType
    BY <1>6, PopItemFields DEF PopValue, CanPop
  <2>2. Head(q.items) \in Values
    BY <1>6 DEF PopValue, CanPop, QueueType
  <2>3. popped' \in [Producers -> 0..MaxPushes]
    BY <1>6, <2>2 DEF PopValue, Values
  <2> QED
    BY <1>6, <2>1, <2>3 DEF PopValue, prodVars
<1>7. CASE PopNil
  BY <1>7 DEF PopNil, prodVars
<1>8. CASE PopCount
  <2>1. q' \in QueueType
    BY <1>8, AddCountFields DEF PopCount
  <2>2. q.count - 1 \in Int
    BY DEF QueueType
  <2> QED
    BY <1>8, <2>1, <2>2 DEF PopCount, prodVars
<1>9. CASE PopSignal
  <2>1. q' \in QueueType
    BY <1>9, SignalFields DEF PopSignal
  <2> QED
    BY <1>9, <2>1 DEF PopSignal, prodVars
<1>10. CASE UNCHANGED vars
  BY <1>10 DEF vars
<1> QED
  BY <1>1, <1>2, <1>3, <1>4, <1>5, <1>6, <1>7, <1>8, <1>9, <1>10
     DEF Next, Push, Consume

\* A step that leaves the values and both histories alone keeps their order
\* (every step of queue.go but the swap of Push and the pop).
LEMMA OrderStable ==
    OrderInv /\ q'.items = q.items /\ pushed' = pushed /\ popped' = popped => OrderInv'
BY Zenon DEF OrderInv

\* Every step of Push, Pop and the loop keeps the inductive invariant: one step per
\* action, and under it one per conjunct.
LEMMA NextIInv == IInv /\ [Next]_vars => IInv'
<1> SUFFICES ASSUME IInv, [Next]_vars PROVE IInv'
  OBVIOUS
<1>t. TypeOK /\ TypeOK'
  BY NextTypeOK DEF IInv
<1>f. /\ q.items \in Seq(Values) /\ q.count \in Int
      /\ q.C \in {"empty", "full"}
      /\ pc \in [Producers -> {"idle", "link", "count", "signal"}]
  <2>1. q.items \in Seq(Values) /\ q.count \in Int /\ q.C \in {"empty", "full"}
    BY <1>t DEF TypeOK, QueueType
  <2> QED
    BY <1>t, <2>1 DEF TypeOK
<1>n. Len(q.items) \in Nat
  BY <1>f
<1>v. \A i \in 1..Len(q.items) : q.items[i] \in Values
  BY <1>f
<1>i. CountInv /\ LinkInv /\ WakeInv /\ OrderInv
  BY DEF IInv
<1>o. \A i, j \in 1..Len(q.items) :
          i < j /\ q.items[i][1] = q.items[j][1] => q.items[i][2] < q.items[j][2]
  BY <1>i DEF OrderInv
<1> DEFINE Good == CountInv /\ LinkInv /\ WakeInv /\ OrderInv
<1>1. ASSUME NEW p \in Producers, PushSwap(p) PROVE Good'
  <2> DEFINE v == NextValue(p)
  <2>1. v \in Values /\ v = <<p, pushed[p] + 1>>
    BY <1>1, <1>t DEF PushSwap, NextValue, Values, TypeOK
  <2>2. /\ q'.items = Append(q.items, v) /\ q'.linked = q.linked
        /\ q'.count = q.count /\ q'.C = q.C
    BY <1>1, <1>t, <2>1, SwapFields DEF PushSwap, TypeOK
  <2> HIDE DEF v
  <2>3. /\ Len(q'.items) = Len(q.items) + 1
        /\ \A i \in 1..Len(q.items) : q'.items[i] = q.items[i]
        /\ q'.items[Len(q.items) + 1] = v
    BY <1>f, <2>1, <2>2
  <2>4. /\ pc[p] = "idle" /\ pc' = [pc EXCEPT ![p] = "link"]
        /\ pushed \in [Producers -> 0..MaxPushes]
        /\ popped \in [Producers -> 0..MaxPushes]
        /\ pushed' = [pushed EXCEPT ![p] = @ + 1]
        /\ pushed[p] < MaxPushes
        /\ cpc' = cpc /\ popped' = popped
    BY <1>1, <1>t DEF PushSwap, consVars, TypeOK
  <2>5. CountInv'
    <3>1. Cardinality(Uncounted') = Cardinality(Uncounted) + 1
      BY <1>f, <2>4, UncountedGrows
    <3>2. /\ q'.count = q.count /\ Len(q'.items) = Len(q.items) + 1
          /\ cpc' = cpc /\ q.count \in Int
      BY <1>f, <2>2, <2>3, <2>4
    <3> QED
      BY <1>i, <1>n, <3>1, <3>2, UncountedFinite DEF CountInv
  <2>6. LinkInv'
    <3> SUFFICES ASSUME NEW i \in 1..Len(q'.items), q'.items[i] \notin q'.linked
                 PROVE  \E r \in Producers :
                            pc'[r] = "link" /\ q'.items[i] = <<r, pushed'[r]>>
      BY DEF LinkInv, CurValue
    <3>1. CASE i = Len(q.items) + 1
      BY <3>1, <1>n, <1>f, <2>1, <2>3, <2>4
    <3>2. CASE i \in 1..Len(q.items)
      <4>1. PICK r \in Producers : pc[r] = "link" /\ q.items[i] = <<r, pushed[r]>>
        BY <3>2, <1>i, <2>2, <2>3 DEF LinkInv, CurValue
      <4> QED
        BY <4>1, <3>2, <1>n, <1>f, <2>3, <2>4
    <3> QED
      BY <3>1, <3>2, <1>n, <2>3
  <2>7. WakeInv'
    <3>1. p \in Uncounted'
      BY <1>f, <2>4 DEF Uncounted
    <3> QED
      BY <3>1 DEF WakeInv
  <2>8. OrderInv'
    <3>1. ASSUME NEW i \in 1..Len(q'.items), NEW j \in 1..Len(q'.items), i < j,
                 q'.items[i][1] = q'.items[j][1]
          PROVE  q'.items[i][2] < q'.items[j][2]
      <4>1. CASE j \in 1..Len(q.items)
        <5>1. i \in 1..Len(q.items) /\ q'.items[i] = q.items[i] /\ q'.items[j] = q.items[j]
          BY <3>1, <4>1, <1>n, <2>3
        <5> QED
          BY <3>1, <4>1, <5>1, <1>o
      <4>2. CASE j = Len(q.items) + 1
        <5>1. i \in 1..Len(q.items)
          BY <3>1, <4>2, <1>n
        <5>2. PICK k \in 1..MaxPushes : q.items[i] = <<p, k>>
          BY <3>1, <4>2, <5>1, <1>v, <2>1, <2>3 DEF Values
        <5>3. k <= pushed[p]
          BY <5>1, <5>2, <1>i DEF OrderInv
        <5> QED
          BY <4>2, <5>1, <5>2, <5>3, <2>1, <2>3, <2>4
      <4> QED
        BY <4>1, <4>2, <1>n, <2>3
    <3>2. ASSUME NEW r \in Producers PROVE popped'[r] <= pushed'[r]
      BY <1>i, <2>4, MaxPushesAssumption DEF OrderInv
    <3>3. ASSUME NEW r \in Producers, NEW k \in 1..MaxPushes
          PROVE  (popped'[r] < k /\ k <= pushed'[r])
                   <=> (\E i \in 1..Len(q'.items) : q'.items[i] = <<r, k>>)
      <4>1. (\E i \in 1..Len(q'.items) : q'.items[i] = <<r, k>>)
              <=> (\E i \in 1..Len(q.items) : q.items[i] = <<r, k>>) \/ v = <<r, k>>
        <5> DEFINE w == <<r, k>>
        <5>1. 1..Len(q'.items) = 1..Len(q.items) \cup {Len(q.items) + 1}
          BY <1>n, <2>3
        <5> HIDE DEF w
        <5>2. (\E i \in 1..Len(q'.items) : q'.items[i] = w)
                <=> (\E i \in 1..Len(q.items) : q.items[i] = w) \/ v = w
          BY <5>1, <2>3
        <5> QED
          BY <5>2 DEF w
      <4>2. (popped[r] < k /\ k <= pushed[r])
              <=> (\E i \in 1..Len(q.items) : q.items[i] = <<r, k>>)
        BY <1>i DEF OrderInv
      <4>3. v = <<r, k>> <=> r = p /\ k = pushed[p] + 1
        BY <2>1
      <4>4. popped[p] <= pushed[p]
        BY <1>i DEF OrderInv
      <4> DEFINE New == \E i \in 1..Len(q'.items) : q'.items[i] = <<r, k>>
                 Old == \E i \in 1..Len(q.items) : q.items[i] = <<r, k>>
      <4>5. New <=> Old \/ (r = p /\ k = pushed[p] + 1)
        BY <4>1, <4>3
      <4>6. (popped[r] < k /\ k <= pushed[r]) <=> Old
        BY <4>2
      <4>7. /\ popped'[r] = popped[r] /\ popped[r] \in Int /\ pushed[r] \in Int
            /\ pushed'[r] = IF r = p THEN pushed[r] + 1 ELSE pushed[r]
        BY <2>4, MaxPushesAssumption
      <4> HIDE DEF New, Old
      <4>8. (popped'[r] < k /\ k <= pushed'[r]) <=> New
        BY <4>4, <4>5, <4>6, <4>7, MaxPushesAssumption
      <4> QED
        BY <4>8 DEF New
    <3> QED
      BY <3>1, <3>2, <3>3 DEF OrderInv
  <2> QED
    BY <2>5, <2>6, <2>7, <2>8
<1>2. ASSUME NEW p \in Producers, PushLink(p) PROVE Good'
  <2>1. CurValue(p) \in Values
    BY <1>2, <1>t, MaxPushesAssumption DEF PushLink, CurValue, Values, TypeOK
  <2>2. /\ q'.items = q.items /\ q'.linked = q.linked \cup {CurValue(p)}
        /\ q'.count = q.count /\ q'.C = q.C
    BY <1>2, <1>t, <2>1, LinkFields DEF PushLink, TypeOK
  <2>3. /\ pc[p] = "link" /\ pc' = [pc EXCEPT ![p] = "count"]
        /\ UNCHANGED <<pushed, popped, cpc>>
    BY <1>2 DEF PushLink, consVars
  <2>4. Uncounted' = Uncounted /\ p \in Uncounted
    BY <1>f, <2>3 DEF Uncounted
  <2>5. CountInv'
    BY <1>i, <2>2, <2>3, <2>4 DEF CountInv
  <2>6. LinkInv'
    <3> SUFFICES ASSUME NEW i \in 1..Len(q.items), q.items[i] \notin q'.linked
                 PROVE  \E r \in Producers :
                            pc'[r] = "link" /\ q.items[i] = <<r, pushed[r]>>
      BY <2>2, <2>3 DEF LinkInv, CurValue
    <3>1. PICK r \in Producers : pc[r] = "link" /\ q.items[i] = <<r, pushed[r]>>
      BY <1>i, <2>2 DEF LinkInv, CurValue
    <3>2. r # p
      BY <3>1, <2>2 DEF CurValue
    <3> QED
      BY <3>1, <3>2, <1>f, <2>3
  <2>7. WakeInv'
    BY <2>4 DEF WakeInv
  <2>8. OrderInv'
    BY <1>i, <2>2, <2>3, OrderStable
  <2> QED
    BY <2>5, <2>6, <2>7, <2>8
<1>3. ASSUME NEW p \in Producers, PushCount(p) PROVE Good'
  <2>2. /\ q'.items = q.items /\ q'.linked = q.linked
        /\ q'.count = q.count + 1 /\ q'.C = q.C
    <3>1. q \in QueueType /\ q' = AddCount(q, 1)
      BY <1>3, <1>t DEF PushCount, TypeOK
    <3> QED
      BY <3>1, AddCountFields
  <2>3. /\ pc[p] = "count" /\ pc' = [pc EXCEPT ![p] = "signal"]
        /\ local' = [local EXCEPT ![p] = q.count + 1]
        /\ local \in [Producers -> Int]
        /\ UNCHANGED <<pushed, popped, cpc>>
    BY <1>3, <1>t DEF PushCount, consVars, TypeOK
  <2>5. CountInv'
    <3>1. Cardinality(Uncounted') = Cardinality(Uncounted) - 1
      BY <1>f, <2>3, UncountedShrinks
    <3> QED
      BY <1>i, <1>f, <2>2, <2>3, <3>1, UncountedFinite DEF CountInv
  <2>6. LinkInv'
    BY <1>i, <1>f, <2>2, <2>3 DEF LinkInv, CurValue
  <2>7. WakeInv'
    <3>1. q'.count > 0 => p \in Signalling'
      BY <1>f, <2>2, <2>3 DEF Signalling
    <3> QED
      BY <3>1 DEF WakeInv
  <2>8. OrderInv'
    BY <1>i, <2>2, <2>3, OrderStable
  <2> QED
    BY <2>5, <2>6, <2>7, <2>8
<1>4. ASSUME NEW p \in Producers, PushSignal(p) PROVE Good'
  <2>2. /\ q'.items = q.items /\ q'.linked = q.linked
        /\ q'.count = q.count
        /\ q'.C = IF local[p] > 0 THEN "full" ELSE q.C
    <3>1. q \in QueueType /\ local[p] \in Int /\ q' = Signal(q, local[p])
      BY <1>4, <1>t DEF PushSignal, TypeOK
    <3> QED
      BY <3>1, SignalFields
  <2>3. /\ pc[p] = "signal" /\ pc' = [pc EXCEPT ![p] = "idle"]
        /\ local' = [local EXCEPT ![p] = 0]
        /\ local \in [Producers -> Int]
        /\ UNCHANGED <<pushed, popped, cpc, clocal>>
    BY <1>4, <1>t DEF PushSignal, consVars, TypeOK
  <2>4. Uncounted' = Uncounted
    BY <1>f, <2>3 DEF Uncounted
  <2>5. CountInv'
    BY <1>i, <2>2, <2>3, <2>4 DEF CountInv
  <2>6. LinkInv'
    BY <1>i, <1>f, <2>2, <2>3 DEF LinkInv, CurValue
  <2>7. WakeInv'
    <3>1. ~(local[p] > 0) /\ Signalling # {} => Signalling' # {}
      BY <1>f, <2>3 DEF Signalling
    <3> QED
      BY <1>i, <2>2, <2>3, <2>4, <3>1 DEF WakeInv
  <2>8. OrderInv'
    BY <1>i, <2>2, <2>3, OrderStable
  <2> QED
    BY <2>5, <2>6, <2>7, <2>8
<1> DEFINE Idle == UNCHANGED <<pc, local, pushed>>
<1>p. ASSUME Idle PROVE Uncounted' = Uncounted /\ Signalling' = Signalling
  BY <1>p DEF Uncounted, Signalling
<1>5. ASSUME Wake PROVE Good'
  <2>2. /\ q'.items = q.items /\ q'.linked = q.linked /\ q'.count = q.count
    BY <1>5, <1>t, ReceiveFields DEF Wake, TypeOK
  <2>3. Idle /\ cpc = "wait" /\ cpc' = "pop" /\ popped' = popped
    BY <1>5 DEF Wake, prodVars
  <2>5. CountInv'
    BY <1>i, <1>p, <2>2, <2>3 DEF CountInv
  <2>6. LinkInv'
    BY <1>i, <2>2, <2>3 DEF LinkInv, CurValue
  <2>7. WakeInv'
    BY <1>i, <2>2, <2>3 DEF WakeInv
  <2>8. OrderInv'
    BY <1>i, <2>2, <2>3, OrderStable
  <2> QED
    BY <2>5, <2>6, <2>7, <2>8
<1>6. ASSUME PopValue PROVE Good'
  <2> DEFINE h == q.items[1][1]
             k == q.items[1][2]
  <2>1. /\ q.items # <<>> /\ Head(q.items) = q.items[1] /\ 1 \in 1..Len(q.items)
        /\ h \in Producers /\ k \in 1..MaxPushes /\ q.items[1] = <<h, k>>
    <3>1. q.items # <<>> /\ Head(q.items) = q.items[1] /\ 1 \in 1..Len(q.items)
      BY <1>6, <1>f DEF PopValue, CanPop
    <3> QED
      BY <3>1, <1>v DEF Values
  <2>2. /\ q'.items = Tail(q.items) /\ q'.linked = q.linked \ {q.items[1]}
        /\ q'.count = q.count /\ q'.C = q.C
    BY <1>6, <1>t, <2>1, PopItemFields DEF PopValue, TypeOK
  <2>3. /\ Len(q'.items) = Len(q.items) - 1
        /\ \A i \in 1..Len(q'.items) :
              i + 1 \in 1..Len(q.items) /\ q'.items[i] = q.items[i + 1]
        /\ \A i \in 2..Len(q.items) :
              i - 1 \in 1..Len(q'.items) /\ q'.items[i - 1] = q.items[i]
    BY <1>f, <2>1, <2>2
  <2>4. /\ Idle /\ cpc = "pop" /\ cpc' = "count"
        /\ popped' = [popped EXCEPT ![h] = k]
        /\ pushed \in [Producers -> 0..MaxPushes]
        /\ popped \in [Producers -> 0..MaxPushes]
    BY <1>6, <1>t, <2>1 DEF PopValue, prodVars, TypeOK
  <2> HIDE DEF h, k, Idle
  <2>5. CountInv'
    BY <1>i, <1>n, <1>f, <1>p, <2>2, <2>3, <2>4, UncountedFinite DEF CountInv
  <2>6. LinkInv'
    <3> SUFFICES ASSUME NEW i \in 1..Len(q'.items), q'.items[i] \notin q'.linked
                 PROVE  \E r \in Producers :
                            pc[r] = "link" /\ q'.items[i] = <<r, pushed[r]>>
      BY <2>4 DEF LinkInv, CurValue, Idle
    <3>1. i + 1 \in 1..Len(q.items) /\ q'.items[i] = q.items[i + 1]
      BY <2>3
    <3>2. q.items[i + 1] # q.items[1]
      BY <3>1, <1>i, <1>n, <2>1 DEF OrderInv
    <3> QED
      BY <3>1, <3>2, <1>i, <2>2 DEF LinkInv, CurValue
  <2>7. WakeInv'
    BY <2>4 DEF WakeInv
  <2>8. OrderInv'
    <3>1. ASSUME NEW i \in 1..Len(q'.items), NEW j \in 1..Len(q'.items), i < j,
                 q'.items[i][1] = q'.items[j][1]
          PROVE  q'.items[i][2] < q'.items[j][2]
      <4>1. /\ i + 1 \in 1..Len(q.items) /\ j + 1 \in 1..Len(q.items)
            /\ i + 1 < j + 1
            /\ q'.items[i] = q.items[i + 1] /\ q'.items[j] = q.items[j + 1]
        BY <3>1, <2>3
      <4> QED
        BY <3>1, <4>1, <1>i DEF OrderInv
    <3>2. ASSUME NEW r \in Producers PROVE popped'[r] <= pushed'[r]
      BY <1>i, <2>1, <2>4 DEF OrderInv, Idle
    <3>3. ASSUME NEW r \in Producers, NEW m \in 1..MaxPushes
          PROVE  (popped'[r] < m /\ m <= pushed'[r])
                   <=> (\E i \in 1..Len(q'.items) : q'.items[i] = <<r, m>>)
      <4>1. (\E i \in 1..Len(q'.items) : q'.items[i] = <<r, m>>)
              <=> (\E i \in 2..Len(q.items) : q.items[i] = <<r, m>>)
        <5>1. ASSUME NEW i \in 1..Len(q'.items), q'.items[i] = <<r, m>>
              PROVE  \E j \in 2..Len(q.items) : q.items[j] = <<r, m>>
          <6>1. i + 1 \in 2..Len(q.items)
            BY <1>n, <2>3
          <6> QED
            BY <5>1, <6>1, <2>3
        <5>2. ASSUME NEW i \in 2..Len(q.items), q.items[i] = <<r, m>>
              PROVE  \E j \in 1..Len(q'.items) : q'.items[j] = <<r, m>>
          BY <5>2, <2>3
        <5> QED
          BY <5>1, <5>2
      <4>2. (popped[r] < m /\ m <= pushed[r])
              <=> (\E i \in 1..Len(q.items) : q.items[i] = <<r, m>>)
        BY <1>i DEF OrderInv
      <4>3. (\E i \in 1..Len(q.items) : q.items[i] = <<r, m>>)
              <=> \/ \E i \in 2..Len(q.items) : q.items[i] = <<r, m>>
                  \/ r = h /\ m = k
        BY <1>n, <2>1
      <4>4. \A i \in 2..Len(q.items) : q.items[i] = <<r, m>> /\ r = h => k < m
        BY <1>i, <1>n, <2>1 DEF OrderInv
      <4>5. popped[h] < k
        BY <1>i, <2>1 DEF OrderInv
      <4> DEFINE New == \E i \in 1..Len(q'.items) : q'.items[i] = <<r, m>>
                 Rest == \E i \in 2..Len(q.items) : q.items[i] = <<r, m>>
      <4>6. (New <=> Rest) /\ (r = h /\ Rest => k < m)
        BY <4>1, <4>4
      <4>7. (popped[r] < m /\ m <= pushed[r]) <=> (Rest \/ (r = h /\ m = k))
        BY <4>2, <4>3
      <4> HIDE DEF New, Rest
      <4>8. (popped'[r] < m /\ m <= pushed'[r]) <=> New
        <5>1. CASE r = h
          <6>1. popped'[r] = k /\ pushed'[r] = pushed[h] /\ k \in Int
                /\ popped[h] \in Int /\ pushed[h] \in Int
            BY <5>1, <2>1, <2>4, MaxPushesAssumption DEF Idle
          <6> QED
            BY <5>1, <6>1, <4>5, <4>6, <4>7
        <5>2. CASE r # h
          <6>1. popped'[r] = popped[r] /\ pushed'[r] = pushed[r]
            BY <5>2, <2>4 DEF Idle
          <6> QED
            BY <5>2, <6>1, <4>6, <4>7
        <5> QED
          BY <5>1, <5>2
      <4> QED
        BY <4>8 DEF New
    <3> QED
      BY <3>1, <3>2, <3>3 DEF OrderInv
  <2> QED
    BY <2>5, <2>6, <2>7, <2>8
<1>7. ASSUME PopNil PROVE Good'
  <2>1. /\ Idle /\ q' = q /\ cpc = "pop" /\ cpc' = "wait" /\ popped' = popped
        /\ ~CanPop(q)
    BY <1>7 DEF PopNil, prodVars
  <2>2. CountInv' /\ LinkInv' /\ OrderInv'
    BY <1>i, <1>p, <2>1 DEF CountInv, LinkInv, OrderInv, CurValue
  <2>3. WakeInv'
    <3> SUFFICES ASSUME q.count > 0, Uncounted = {} PROVE FALSE
      BY <1>p, <2>1 DEF WakeInv
    <3>1. Len(q.items) > 0
      BY <1>i, <1>n, <1>f, <2>1, UncountedFinite DEF CountInv
    <3>2. 1 \in 1..Len(q.items) /\ q.items[1] \notin q.linked
      BY <3>1, <1>f, <1>n, <2>1 DEF CanPop
    <3>3. PICK p \in Producers : pc[p] = "link"
      BY <3>2, <1>i DEF LinkInv
    <3> QED
      BY <3>3 DEF Uncounted
  <2> QED
    BY <2>2, <2>3
<1>8. ASSUME PopCount PROVE Good'
  <2>2. /\ q'.items = q.items /\ q'.linked = q.linked
        /\ q'.count = q.count - 1
    <3>1. q \in QueueType /\ q' = AddCount(q, -1)
      BY <1>8, <1>t DEF PopCount, TypeOK
    <3>2. q'.count = q.count + (-1)
      BY <3>1, AddCountFields
    <3>3. q'.items = q.items /\ q'.linked = q.linked
      BY <3>1, AddCountFields
    <3> QED
      BY <3>2, <3>3, <1>f
  <2>3. /\ Idle /\ cpc = "count" /\ cpc' = "signal" /\ popped' = popped
        /\ clocal' = q.count - 1
    BY <1>8 DEF PopCount, prodVars
  <2>5. CountInv'
    BY <1>i, <1>n, <1>f, <1>p, <2>2, <2>3, UncountedFinite DEF CountInv
  <2>6. LinkInv'
    BY <1>i, <2>2, <2>3 DEF LinkInv, CurValue
  <2>7. WakeInv'
    BY <1>i, <2>2, <2>3 DEF WakeInv
  <2>8. OrderInv'
    BY <1>i, <2>2, <2>3, OrderStable
  <2> QED
    BY <2>5, <2>6, <2>7, <2>8
<1>9. ASSUME PopSignal PROVE Good'
  <2>2. /\ q'.items = q.items /\ q'.linked = q.linked
        /\ q'.count = q.count
        /\ q'.C = IF clocal > 0 THEN "full" ELSE q.C
    <3>1. q \in QueueType /\ clocal \in Int /\ q' = Signal(q, clocal)
      BY <1>9, <1>t DEF PopSignal, TypeOK
    <3> QED
      BY <3>1, SignalFields
  <2>3. Idle /\ cpc = "signal" /\ cpc' = "wait" /\ popped' = popped
    BY <1>9 DEF PopSignal, prodVars
  <2>5. CountInv'
    BY <1>i, <1>p, <2>2, <2>3 DEF CountInv
  <2>6. WakeInv'
    BY <1>i, <1>p, <2>2, <2>3 DEF WakeInv
  <2>7. LinkInv'
    BY <1>i, <2>2, <2>3 DEF LinkInv, CurValue
  <2>8. OrderInv'
    BY <1>i, <2>2, <2>3, OrderStable
  <2> QED
    BY <2>5, <2>6, <2>7, <2>8
<1>10. ASSUME UNCHANGED vars PROVE Good'
  BY <1>10, <1>i, <1>p
     DEF vars, CountInv, LinkInv, WakeInv, OrderInv, CurValue
<1> QED
  BY <1>t, <1>1, <1>2, <1>3, <1>4, <1>5, <1>6, <1>7, <1>8, <1>9, <1>10
     DEF Next, Push, Consume, IInv

\* The inductive invariant holds of every behaviour of the queue, whatever
\* the number of producers and of pushes (queue.go Push and Pop).
THEOREM Invariance == Spec => []IInv
BY InitIInv, NextIInv, PTL DEF Spec

\* Push and Pop never lose a wake-up (queue.go _setCount): a consumer asleep on
\* an empty channel over a non-empty queue will be signalled by a producer that
\* is still inside Push.
THEOREM WakeupSafety == Spec => []NoLostWakeup
<1>1. IInv => NoLostWakeup
  <2> SUFFICES ASSUME IInv, cpc = "wait", q.C = "empty", q.items # <<>>,
                      Uncounted = {}
               PROVE  Signalling # {}
    BY DEF NoLostWakeup
  <2>1. q.items \in Seq(Values) /\ q.count \in Int
    BY DEF IInv, TypeOK, QueueType
  <2>2. q.count > 0
    BY <2>1, UncountedFinite DEF IInv, CountInv
  <2> QED
    BY <2>2 DEF IInv, WakeInv
<1> QED
  BY <1>1, Invariance, PTL

\* Count is never more than the number of queued values outside a pop (queue.go
\* Count, which Actor.loop reads before it stops).
THEOREM CountBound == Spec => []CountNeverOverstates
<1>1. IInv => CountNeverOverstates
  <2> SUFFICES ASSUME IInv, cpc # "count" PROVE q.count <= Len(q.items)
    BY DEF CountNeverOverstates
  <2>1. q.items \in Seq(Values) /\ q.count \in Int
    BY DEF IInv, TypeOK, QueueType
  <2> QED
    BY <2>1, UncountedFinite DEF IInv, CountInv
<1> QED
  BY <1>1, Invariance, PTL

\* Values are delivered exactly once, in each producer's order (queue.go).
THEOREM FifoPerProducer == Spec => InOrder
<1> DEFINE Step == cpc = "pop" /\ cpc' = "count" =>
                      \E p \in Producers : popped' = [popped EXCEPT ![p] = @ + 1]
<1>1. IInv /\ [Next]_vars => [Step]_vars
  <2> SUFFICES ASSUME IInv, Next, cpc = "pop", cpc' = "count"
               PROVE  \E p \in Producers : popped' = [popped EXCEPT ![p] = @ + 1]
    OBVIOUS
  <2>1. PopValue
    BY DEF Next, Push, Consume, PushSwap, PushLink, PushCount, PushSignal,
           Wake, PopNil, PopCount, PopSignal, consVars
  <2>2. /\ q.items \in Seq(Values)
        /\ pushed \in [Producers -> 0..MaxPushes]
        /\ popped \in [Producers -> 0..MaxPushes]
    BY DEF IInv, TypeOK, QueueType
  <2>3. 1 \in 1..Len(q.items) /\ Head(q.items) = q.items[1]
    BY <2>1, <2>2 DEF PopValue, CanPop
  <2>4. q.items[1] \in Values
    BY <2>2, <2>3
  <2>5. PICK h \in Producers, k \in 1..MaxPushes : q.items[1] = <<h, k>>
    BY <2>4 DEF Values
  <2>6. popped' = [popped EXCEPT ![h] = k]
    <3>1. popped' = [popped EXCEPT ![Head(q.items)[1]] = Head(q.items)[2]]
      BY <2>1 DEF PopValue
    <3>2. Head(q.items)[1] = h /\ Head(q.items)[2] = k
      BY <2>3, <2>5
    <3> QED
      BY <3>1, <3>2
  <2>o. OrderInv
    BY DEF IInv
  <2>7. popped[h] < k /\ k <= pushed[h]
    BY <2>3, <2>5, <2>o DEF OrderInv
  <2>8. k = popped[h] + 1
    <3> SUFFICES ASSUME popped[h] + 1 < k PROVE FALSE
      BY <2>2, <2>5, <2>7
    <3> DEFINE m == popped[h] + 1
    <3>1. m \in 1..MaxPushes /\ popped[h] < m /\ m <= pushed[h]
      BY <2>2, <2>5, <2>7, MaxPushesAssumption
    <3> HIDE DEF m
    <3>2. PICK j \in 1..Len(q.items) : q.items[j] = <<h, m>>
      BY <3>1, <2>o DEF OrderInv
    <3>3. m < k
      BY DEF m
    <3>4. j # 1
      BY <3>1, <3>2, <3>3, <2>5
    <3>5. 1 < j
      BY <3>4
    <3>6. k < m
      BY <3>2, <3>5, <2>3, <2>5, <2>o DEF OrderInv
    <3> QED
      BY <3>1, <3>3, <3>6
  <2> QED
    BY <2>6, <2>8
<1> QED
  BY <1>1, Invariance, PTL DEF Spec, InOrder
=============================================================================
