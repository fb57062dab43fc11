-------------------------- MODULE NodeQueue_proofs --------------------------
(***************************************************************************)
(* The linked list of queue.go with its pooled nodes, for any number of    *)
(* producers, pushes and nodes: no node is recycled while somebody can     *)
(* still reach it, and the list implements the queue of QueueSpec.         *)
(***************************************************************************)
EXTENDS NodeQueue, SequenceTheorems, TLAPS

Pairs == Producers \X Nat
InChain(n) == \E i \in 1..Len(chain) : chain[i] = n

NodeTypeOK ==
    /\ chain \in Seq(Nodes) /\ Len(chain) > 0
    /\ next \in [Nodes -> Nodes \cup {NIL}] /\ val \in [Nodes -> Pairs \cup {NIL}]
    /\ pool \subseteq Nodes
    /\ node \in [Producers -> Nodes \cup {NIL}] /\ prev \in [Producers -> Nodes \cup {NIL}]
    /\ pc \in [Producers -> {"idle", "swap", "link", "count", "signal"}]
    /\ pushed \in [Producers -> Nat] /\ C \in {"empty", "full"}
    /\ cpc \in {"wait", "pop", "recycle", "count", "signal"}

\* The chain runs from tail to head, through different nodes, along next pointers of
\* which some are still to be written.
ChainOK ==
    /\ tail = chain[1] /\ head = chain[Len(chain)] /\ next[head] = NIL
    /\ \A i, k \in 1..Len(chain) : chain[i] = chain[k] => i = k
    /\ \A i \in Links : next[chain[i]] \in {NIL, chain[i + 1]}

\* All but the stub hold a value that was pushed, no two of them the same.
ValuesOK ==
    /\ \A i \in Links : /\ val[chain[i + 1]] \in Pairs
                        /\ val[chain[i + 1]][2] <= pushed[val[chain[i + 1]][1]]
    /\ \A i, k \in Links : val[chain[i + 1]] = val[chain[k + 1]] => i = k

\* The old stub between the two halves of Pop, and the pool.
PoolOK ==
    /\ cpc = "recycle" => ctail \in Nodes /\ ~InChain(ctail)
    /\ cpc # "recycle" => ctail = NIL
    /\ \A n \in pool : ~InChain(n) /\ n # ctail

\* A node that only its producer knows of.
Private(n) == n \in Nodes /\ n \notin pool /\ ~InChain(n) /\ n # ctail
\* The pointers a producer holds: none, a node of its own, or two neighbours of the
\* chain whose link only it can write, so that Pop cannot have passed them.
ProducerOK(p) ==
    /\ pc[p] \in {"idle", "count", "signal"} => node[p] = NIL /\ prev[p] = NIL
    /\ pc[p] = "swap" => /\ Private(node[p]) /\ prev[p] = NIL
                         /\ val[node[p]] = <<p, pushed[p] + 1>> /\ next[node[p]] = NIL /\ pushed[p] < MaxPushes
    /\ pc[p] = "link" => \E i \in Links : /\ prev[p] = chain[i] /\ node[p] = chain[i + 1] /\ next[chain[i]] = NIL
                                          /\ val[chain[i + 1]] = <<p, pushed[p]>>
ApartOK == \A p, r \in Producers : p # r /\ pc[p] = "swap" /\ pc[r] = "swap" => node[p] # node[r]

NodeInv == NodeTypeOK /\ ChainOK /\ ValuesOK /\ PoolOK /\ ApartOK /\ \A p \in Producers : ProducerOK(p)

\* The steps that leave the list and its nodes alone: counting and signalling.
LEMMA CountNodeInv ==
    ASSUME NodeInv, \/ \E p \in Producers : PushCount(p) \/ PushSignal(p)
                    \/ Wake \/ PopNil \/ PopCount \/ PopSignal \/ UNCHANGED vars
    PROVE  NodeInv'
<1>1. NodeTypeOK /\ ChainOK /\ ValuesOK /\ PoolOK /\ ApartOK
    BY DEF NodeInv
<1>2. /\ UNCHANGED <<chain, next, val, pool, head, tail, node, prev, pushed, ctail>>
      /\ C' \in {"empty", "full"} /\ pc' \in [Producers -> {"idle", "swap", "link", "count", "signal"}]
      /\ \A p \in Producers : pc'[p] = pc[p] \/ (pc[p] \in {"count", "signal"} /\ pc'[p] \in {"idle", "signal"})
    BY <1>1 DEF PushCount, PushSignal, Wake, PopNil, PopCount, PopSignal, vars, queueVars, prodVars, consVars, NodeTypeOK
<1>3. cpc' \in {"wait", "pop", "recycle", "count", "signal"} /\ (cpc' = "recycle" <=> cpc = "recycle")
    BY <1>1 DEF PushCount, PushSignal, Wake, PopNil, PopCount, PopSignal, vars, consVars, NodeTypeOK
<1>4. NodeTypeOK'
    BY <1>1, <1>2, <1>3 DEF NodeTypeOK
<1>5. ChainOK' /\ ValuesOK'
    BY <1>1, <1>2 DEF ChainOK, ValuesOK, Links
<1>6. PoolOK'
    BY <1>1, <1>2, <1>3 DEF PoolOK, InChain
<1>7. ApartOK'
    BY <1>1, <1>2 DEF ApartOK
<1>8. ASSUME NEW p \in Producers PROVE ProducerOK(p)'
    <2>1. ProducerOK(p) /\ (pc'[p] = pc[p] \/ (pc[p] \in {"count", "signal"} /\ pc'[p] \in {"idle", "signal"}))
        BY <1>2 DEF NodeInv
    <2> QED
        BY <1>2, <2>1 DEF ProducerOK, Private, InChain, Links
<1> QED
    BY <1>4, <1>5, <1>6, <1>7, <1>8 DEF NodeInv

\* queueNodePool.Get hands out a node that nobody can reach.
LEMMA GetNodeInv ==
    ASSUME NodeInv, NEW p \in Producers, PushGet(p)
    PROVE  NodeInv'
<1>1. NodeTypeOK /\ ChainOK /\ ValuesOK /\ PoolOK /\ ApartOK /\ ProducerOK(p)
    BY DEF NodeInv
<1>2. PICK n \in pool : /\ pool' = pool \ {n} /\ node' = [node EXCEPT ![p] = n]
                        /\ val' = [val EXCEPT ![n] = <<p, pushed[p] + 1>>] /\ next' = [next EXCEPT ![n] = NIL]
    BY DEF PushGet
<1>3. UNCHANGED <<chain, head, tail, pushed, prev, ctail, cpc, C>> /\ pc[p] = "idle" /\ pushed[p] < MaxPushes
      /\ pc' = [pc EXCEPT ![p] = "swap"]
    BY DEF PushGet, consVars
<1>4. n \in Nodes /\ ~InChain(n) /\ n # ctail /\ n # NIL
    BY <1>1, <1>2, NodesAssumption DEF NodeTypeOK, PoolOK
<1>5. <<p, pushed[p] + 1>> \in Pairs
    BY <1>1 DEF NodeTypeOK, Pairs
<1>6. /\ \A m \in Nodes : m # n => next'[m] = next[m] /\ val'[m] = val[m]
      /\ next'[n] = NIL /\ val'[n] = <<p, pushed[p] + 1>> /\ node'[p] = n /\ pc'[p] = "swap"
      /\ \A r \in Producers : r # p => node'[r] = node[r] /\ pc'[r] = pc[r]
    BY <1>1, <1>2, <1>3, <1>4 DEF NodeTypeOK
<1>7. NodeTypeOK'
    BY <1>1, <1>2, <1>3, <1>4, <1>5 DEF NodeTypeOK
<1>8. \A i \in 1..Len(chain) : chain[i] \in Nodes /\ chain[i] # n
    BY <1>1, <1>4 DEF NodeTypeOK, InChain
<1>9. \A i \in Links : i \in 1..Len(chain) /\ i + 1 \in 1..Len(chain)
    BY <1>1 DEF NodeTypeOK, Links
<1>10. Len(chain) \in 1..Len(chain) /\ Links' = Links
    BY <1>1, <1>3 DEF NodeTypeOK, Links
<1>11. ChainOK'
    BY <1>1, <1>3, <1>6, <1>8, <1>9, <1>10 DEF ChainOK
<1>12. ValuesOK'
    <2>1. \A i \in Links : val'[chain[i + 1]] = val[chain[i + 1]]
        BY <1>6, <1>8, <1>9
    <2>2. chain' = chain /\ pushed' = pushed /\ Links' = Links
        BY <1>3, <1>10
    <2> QED
        BY <1>1, <2>1, <2>2 DEF ValuesOK
<1>13. PoolOK'
    BY <1>1, <1>2, <1>3 DEF PoolOK, InChain
<1>14. \A r \in Producers : r # p /\ pc[r] = "swap" => node[r] # n
    BY <1>2 DEF NodeInv, ProducerOK, Private
<1>15. ApartOK'
    BY <1>1, <1>6, <1>14 DEF ApartOK
<1>16. ASSUME NEW r \in Producers PROVE ProducerOK(r)'
    <2>1. CASE r = p
        <3>1. prev[p] = NIL
            BY <1>1, <1>3 DEF ProducerOK
        <3> QED
            BY <1>2, <1>3, <1>4, <1>6, <2>1, <3>1 DEF ProducerOK, Private, InChain
    <2>2. CASE r # p
        <3>1. ProducerOK(r) /\ pc'[r] = pc[r] /\ node'[r] = node[r] /\ prev'[r] = prev[r] /\ pushed'[r] = pushed[r]
            BY <1>3, <1>6, <2>2 DEF NodeInv
        <3>2. ASSUME pc[r] = "swap" PROVE Private(node[r])' /\ next'[node[r]] = NIL /\ val'[node[r]] = val[node[r]]
            <4>1. node[r] \in Nodes /\ node[r] # n
                BY <1>14, <2>2, <3>1, <3>2 DEF ProducerOK, Private
            <4> QED
                BY <1>2, <1>3, <1>6, <3>1, <3>2, <4>1 DEF ProducerOK, Private, InChain
        <3>3. ASSUME NEW i \in Links PROVE next'[chain[i]] = next[chain[i]] /\ val'[chain[i + 1]] = val[chain[i + 1]]
            BY <1>6, <1>8, <1>9
        <3> QED
            BY <1>3, <1>10, <3>1, <3>2, <3>3 DEF ProducerOK
    <2> QED
        BY <2>1, <2>2
<1> QED
    BY <1>7, <1>11, <1>12, <1>13, <1>15, <1>16 DEF NodeInv

\* SwapPointer puts a private node at the head of the chain.
LEMMA SwapNodeInv ==
    ASSUME NodeInv, NEW p \in Producers, PushSwap(p)
    PROVE  NodeInv'
<1> DEFINE n == node[p]
           len == Len(chain)
<1>1. NodeTypeOK /\ ChainOK /\ ValuesOK /\ PoolOK /\ ApartOK /\ ProducerOK(p)
    BY DEF NodeInv
<1>2. /\ prev' = [prev EXCEPT ![p] = head] /\ head' = n /\ chain' = Append(chain, n) /\ pc[p] = "swap"
      /\ pushed' = [pushed EXCEPT ![p] = @ + 1] /\ pc' = [pc EXCEPT ![p] = "link"]
      /\ UNCHANGED <<tail, next, val, pool, node, cpc, ctail, C>>
    BY DEF PushSwap, consVars
<1>3. /\ n \in Nodes /\ n \notin pool /\ ~InChain(n) /\ n # ctail /\ val[n] = <<p, pushed[p] + 1>> /\ next[n] = NIL
    BY <1>1, <1>2 DEF ProducerOK, Private
<1>4. /\ chain \in Seq(Nodes) /\ len \in Nat /\ len > 0 /\ chain' \in Seq(Nodes) /\ Len(chain') = len + 1
      /\ chain'[len + 1] = n /\ \A i \in 1..len : chain'[i] = chain[i] /\ chain[i] \in Nodes /\ chain[i] # n
    BY <1>1, <1>2, <1>3 DEF NodeTypeOK, InChain
<1>5. /\ prev'[p] = head /\ pc'[p] = "link" /\ pushed'[p] = pushed[p] + 1 /\ pushed[p] \in Nat /\ head \in Nodes
      /\ \A r \in Producers : r # p => prev'[r] = prev[r] /\ pc'[r] = pc[r] /\ pushed'[r] = pushed[r]
    BY <1>1, <1>2 DEF NodeTypeOK, ChainOK
<1>6. NodeTypeOK'
    BY <1>1, <1>2, <1>4, <1>5 DEF NodeTypeOK
<1> HIDE DEF n, len
<1>7. \A i \in 1..(len + 1) : i \in 1..len \/ i = len + 1
    BY <1>4
<1>8. Links = 1..(len - 1) /\ Links' = 1..len /\ (\A i \in 1..len : i \in 1..(len - 1) \/ i = len)
    BY <1>4 DEF Links, len
<1>9. \A i \in 1..(len - 1) : i \in 1..len /\ i + 1 \in 1..len
    BY <1>4
<1>10. ChainOK'
    <2>1. tail' = chain'[1] /\ head' = chain'[Len(chain')] /\ next'[head'] = NIL
        BY <1>1, <1>2, <1>3, <1>4 DEF ChainOK
    <2>2. \A i, k \in 1..Len(chain') : chain'[i] = chain'[k] => i = k
        BY <1>1, <1>4, <1>7 DEF ChainOK, len
    <2>3. \A i \in Links' : next'[chain'[i]] \in {NIL, chain'[i + 1]}
        <3> SUFFICES ASSUME NEW i \in 1..len PROVE next[chain'[i]] \in {NIL, chain'[i + 1]}
            BY <1>2, <1>8
        <3>1. CASE i \in 1..(len - 1)
            BY <1>1, <1>4, <1>8, <1>9, <3>1 DEF ChainOK
        <3>2. CASE i = len
            BY <1>1, <1>4, <3>2 DEF ChainOK, len
        <3> QED
            BY <1>8, <3>1, <3>2
    <2> QED
        BY <2>1, <2>2, <2>3 DEF ChainOK
<1>11. ValuesOK'
    <2>1. \A i \in 1..(len - 1) : val'[chain'[i + 1]] = val[chain[i + 1]] /\ val[chain[i + 1]] \in Pairs
                                  /\ val[chain[i + 1]][2] <= pushed[val[chain[i + 1]][1]]
        BY <1>1, <1>2, <1>4, <1>8, <1>9 DEF ValuesOK
    <2>2. val'[chain'[len + 1]] = <<p, pushed[p] + 1>> /\ <<p, pushed[p] + 1>> \in Pairs
        BY <1>2, <1>3, <1>4, <1>5 DEF Pairs
    <2>3. \A v \in Pairs : v[2] <= pushed[v[1]] => v[2] <= pushed'[v[1]] /\ v # <<p, pushed[p] + 1>>
        BY <1>1, <1>5 DEF Pairs, NodeTypeOK
    <2>4. \A i \in Links' : val'[chain'[i + 1]] \in Pairs /\ val'[chain'[i + 1]][2] <= pushed'[val'[chain'[i + 1]][1]]
        <3> SUFFICES ASSUME NEW i \in 1..len
                     PROVE  val'[chain'[i + 1]] \in Pairs /\ val'[chain'[i + 1]][2] <= pushed'[val'[chain'[i + 1]][1]]
            BY <1>8
        <3>1. CASE i \in 1..(len - 1)
            BY <2>1, <2>3, <3>1
        <3>2. CASE i = len
            BY <1>5, <2>2, <3>2
        <3> QED
            BY <1>8, <3>1, <3>2
    <2>5. \A i, k \in Links' : val'[chain'[i + 1]] = val'[chain'[k + 1]] => i = k
        <3> SUFFICES ASSUME NEW i \in 1..len, NEW k \in 1..len, val'[chain'[i + 1]] = val'[chain'[k + 1]] PROVE i = k
            BY <1>8
        <3>1. CASE i \in 1..(len - 1) /\ k \in 1..(len - 1)
            BY <1>1, <1>8, <2>1, <3>1 DEF ValuesOK
        <3>2. CASE i = len \/ k = len
            BY <1>8, <2>1, <2>2, <2>3, <3>2
        <3> QED
            BY <1>8, <3>1, <3>2
    <2> QED
        BY <2>4, <2>5 DEF ValuesOK
<1>12. \A m \in Nodes : InChain(m)' => InChain(m) \/ m = n
    BY <1>4, <1>7 DEF InChain, len
<1>13. PoolOK'
    BY <1>1, <1>2, <1>3, <1>12 DEF PoolOK, NodeTypeOK
<1>14. ApartOK'
    BY <1>1, <1>2, <1>5 DEF ApartOK
<1>15. ASSUME NEW r \in Producers PROVE ProducerOK(r)'
    <2>1. CASE r = p
        <3>1. /\ len \in Links' /\ prev'[p] = chain'[len] /\ node'[p] = chain'[len + 1] /\ next'[chain'[len]] = NIL
              /\ val'[chain'[len + 1]] = <<p, pushed'[p]>>
            BY <1>1, <1>2, <1>3, <1>4, <1>5, <1>8 DEF ChainOK, len, n
        <3> QED
            BY <1>5, <2>1, <3>1 DEF ProducerOK
    <2>2. CASE r # p
        <3>1. ProducerOK(r) /\ pc'[r] = pc[r] /\ node'[r] = node[r] /\ prev'[r] = prev[r] /\ pushed'[r] = pushed[r]
            BY <1>2, <1>5, <2>2 DEF NodeInv
        <3>2. ASSUME pc[r] = "swap" PROVE Private(node[r])'
            <4>1. node[r] # n
                BY <1>1, <1>2, <2>2, <3>2 DEF ApartOK, n
            <4> QED
                BY <1>2, <1>12, <3>1, <3>2, <4>1 DEF ProducerOK, Private
        <3>3. ASSUME NEW i \in Links
              PROVE  i \in Links' /\ chain'[i] = chain[i] /\ chain'[i + 1] = chain[i + 1]
            BY <1>4, <1>8, <1>9
        <3> QED
            BY <1>2, <3>1, <3>2, <3>3 DEF ProducerOK
    <2> QED
        BY <2>1, <2>2
<1> QED
    BY <1>6, <1>10, <1>11, <1>13, <1>14, <1>15 DEF NodeInv

\* StorePointer writes the link that only this producer can write.
LEMMA LinkNodeInv ==
    ASSUME NodeInv, NEW p \in Producers, PushLink(p)
    PROVE  NodeInv'
<1>1. NodeTypeOK /\ ChainOK /\ ValuesOK /\ PoolOK /\ ApartOK /\ ProducerOK(p) /\ pc[p] = "link"
    BY DEF NodeInv, PushLink
<1>2. PICK m \in Links : /\ prev[p] = chain[m] /\ node[p] = chain[m + 1] /\ next[chain[m]] = NIL
                         /\ val[chain[m + 1]] = <<p, pushed[p]>>
    BY <1>1 DEF ProducerOK
<1>3. /\ next' = [next EXCEPT ![chain[m]] = chain[m + 1]]
      /\ prev' = [prev EXCEPT ![p] = NIL] /\ node' = [node EXCEPT ![p] = NIL] /\ pc' = [pc EXCEPT ![p] = "count"]
      /\ UNCHANGED <<head, tail, val, pool, chain, pushed, cpc, ctail, C>>
    BY <1>2 DEF PushLink, consVars
<1>4. \A i \in Links : i \in 1..Len(chain) /\ i + 1 \in 1..Len(chain) /\ i # Len(chain) /\ i \in Nat
    BY <1>1 DEF NodeTypeOK, Links
<1>5. \A i \in 1..Len(chain) : chain[i] \in Nodes
    BY <1>1 DEF NodeTypeOK
<1>6. /\ next'[chain[m]] = chain[m + 1] /\ \A k \in Nodes : k # chain[m] => next'[k] = next[k]
      /\ prev'[p] = NIL /\ node'[p] = NIL /\ pc'[p] = "count"
      /\ \A r \in Producers : r # p => prev'[r] = prev[r] /\ node'[r] = node[r] /\ pc'[r] = pc[r]
    BY <1>1, <1>3, <1>4, <1>5 DEF NodeTypeOK
<1>7. NodeTypeOK'
    BY <1>1, <1>3, <1>4, <1>5 DEF NodeTypeOK
<1>8. Links' = Links /\ Len(chain) \in 1..Len(chain)
    BY <1>1, <1>3 DEF Links, NodeTypeOK
<1>9. \A i \in 1..Len(chain) : i # m => chain[i] # chain[m]
    BY <1>1, <1>4 DEF ChainOK
<1>10. ChainOK'
    <2>1. next'[head'] = NIL
        BY <1>1, <1>3, <1>4, <1>5, <1>6, <1>8, <1>9 DEF ChainOK
    <2>2. \A i \in Links : next'[chain[i]] \in {NIL, chain[i + 1]}
        BY <1>1, <1>4, <1>5, <1>6, <1>9 DEF ChainOK
    <2> QED
        BY <1>1, <1>3, <1>8, <2>1, <2>2 DEF ChainOK
<1>11. ValuesOK'
    BY <1>1, <1>3, <1>8 DEF ValuesOK
<1>12. PoolOK' /\ ApartOK'
    BY <1>1, <1>3, <1>6 DEF PoolOK, InChain, ApartOK
<1>13. ASSUME NEW r \in Producers PROVE ProducerOK(r)'
    <2>1. CASE r = p
        BY <1>6, <2>1 DEF ProducerOK
    <2>2. CASE r # p
        <3>1. ProducerOK(r) /\ pc'[r] = pc[r] /\ node'[r] = node[r] /\ prev'[r] = prev[r] /\ pushed'[r] = pushed[r]
            BY <1>3, <1>6, <2>2 DEF NodeInv
        <3>2. ASSUME pc[r] = "swap" PROVE Private(node[r])' /\ next'[node[r]] = next[node[r]]
            <4>1. node[r] \in Nodes /\ node[r] # chain[m]
                BY <1>4, <3>1, <3>2 DEF ProducerOK, Private, InChain
            <4> QED
                BY <1>3, <1>6, <3>1, <3>2, <4>1 DEF ProducerOK, Private, InChain
        <3>3. ASSUME NEW i \in Links, next[chain[i]] = NIL, val[chain[i + 1]] = <<r, pushed[r]>>
              PROVE  next'[chain[i]] = NIL
            <4>1. i # m
                BY <1>2, <2>2, <3>3
            <4> QED
                BY <1>4, <1>5, <1>6, <1>9, <3>3, <4>1
        <3> QED
            BY <1>3, <1>8, <3>1, <3>2, <3>3 DEF ProducerOK
    <2> QED
        BY <2>1, <2>2
<1> QED
    BY <1>7, <1>10, <1>11, <1>12, <1>13 DEF NodeInv

\* The shape of Pop: the stub leaves the chain, its successor is the new stub.
LEMMA PopShape ==
    ASSUME NodeInv, PopValue
    PROVE  /\ Len(chain) \in Nat /\ Len(chain) > 1 /\ next[tail] = chain[2] /\ chain' \in Seq(Nodes)
           /\ Len(chain') = Len(chain) - 1 /\ \A i \in 1..Len(chain') : chain'[i] = chain[i + 1] /\ i + 1 \in 1..Len(chain)
           /\ chain' = Tail(chain)
<1>1. NodeTypeOK /\ ChainOK /\ next[tail] # NIL /\ chain' = Tail(chain)
    BY DEF NodeInv, PopValue
<1>2. chain \in Seq(Nodes) /\ Len(chain) \in Nat /\ Len(chain) > 0 /\ chain # <<>>
    BY <1>1 DEF NodeTypeOK
<1>3. Len(chain) # 1
    BY <1>1 DEF ChainOK
<1>4. \A n \in Nat : n > 0 /\ n # 1 => n > 1 /\ 1 \in 1..(n - 1)
    OBVIOUS
<1>5. Len(chain) > 1 /\ 1 \in Links
    BY <1>2, <1>3, <1>4 DEF Links
<1>6. next[tail] = chain[2]
    BY <1>1, <1>5 DEF ChainOK
<1>7. /\ Tail(chain) \in Seq(Nodes) /\ Len(Tail(chain)) = Len(chain) - 1
      /\ \A i \in 1..(Len(chain) - 1) : Tail(chain)[i] = chain[i + 1] /\ i + 1 \in 1..Len(chain)
    BY <1>2
<1> QED
    BY <1>1, <1>2, <1>5, <1>6, <1>7

\* Pop moves tail past the old stub, which no producer holds: it is linked.
LEMMA PopNodeInv == NodeInv /\ PopValue => NodeInv'
<1> SUFFICES ASSUME NodeInv, PopValue PROVE NodeInv'
    OBVIOUS
<1> DEFINE len == Len(chain)
<1>1. NodeTypeOK /\ ChainOK /\ ValuesOK /\ PoolOK /\ ApartOK
    BY DEF NodeInv
<1>2. /\ ctail' = tail /\ tail' = next[tail] /\ val' = [val EXCEPT ![next[tail]] = NIL] /\ cpc' = "recycle"
      /\ UNCHANGED <<head, next, pool, C, pc, pushed, node, prev>> /\ cpc = "pop" /\ next[tail] # NIL
    BY DEF PopValue, prodVars
<1>3. /\ len \in Nat /\ len > 1 /\ next[tail] = chain[2] /\ chain' \in Seq(Nodes) /\ Len(chain') = len - 1
      /\ \A i \in 1..(len - 1) : chain'[i] = chain[i + 1] /\ i + 1 \in 1..len
    BY PopShape
<1>4. /\ \A i \in 1..len : chain[i] \in Nodes
      /\ \A i, k \in 1..len : chain[i] = chain[k] => i = k
      /\ tail = chain[1] /\ 1 \in 1..len /\ 2 \in 1..len
    BY <1>1, <1>3 DEF NodeTypeOK, ChainOK
<1>5. NodeTypeOK'
    BY <1>1, <1>2, <1>3, <1>4 DEF NodeTypeOK
<1> HIDE DEF len
<1>6. Links = 1..(len - 1) /\ Links' = 1..(len - 2)
    BY <1>3 DEF Links, len
<1>7. \A i \in 1..(len - 2) : /\ i \in 1..(len - 1) /\ i + 1 \in 1..(len - 1) /\ i + 1 \in 1..len /\ i + 2 \in 1..len
                              /\ chain'[i] = chain[i + 1] /\ chain'[i + 1] = chain[i + 2] /\ (i + 1) + 1 = i + 2 /\ i + 2 # 2
    BY <1>3
<1>8. \A k \in Nodes : k # chain[2] => val'[k] = val[k]
    BY <1>1, <1>2, <1>3 DEF NodeTypeOK
<1>9. \A i \in 1..(len - 2) : val'[chain'[i + 1]] = val[chain[i + 2]]
    BY <1>4, <1>7, <1>8
<1>10. ChainOK'
    <2>1. tail' = chain'[1] /\ head' = chain'[Len(chain')] /\ next'[head'] = NIL
        <3>1. 1 \in 1..(len - 1) /\ len - 1 \in 1..(len - 1) /\ (len - 1) + 1 = len /\ 1 + 1 = 2
            BY <1>3
        <3> QED
            BY <1>1, <1>2, <1>3, <3>1 DEF ChainOK, len
    <2>2. \A i, k \in 1..Len(chain') : chain'[i] = chain'[k] => i = k
        <3> SUFFICES ASSUME NEW i \in 1..(len - 1), NEW k \in 1..(len - 1), chain'[i] = chain'[k] PROVE i = k
            BY <1>3
        <3>1. i + 1 = k + 1
            BY <1>3, <1>4
        <3> QED
            BY <1>3, <3>1
    <2>3. \A i \in Links' : next'[chain'[i]] \in {NIL, chain'[i + 1]}
        <3> SUFFICES ASSUME NEW i \in 1..(len - 2) PROVE next[chain[i + 1]] \in {NIL, chain[i + 2]}
            BY <1>2, <1>6, <1>7
        <3>1. i + 1 \in Links /\ (i + 1) + 1 = i + 2
            BY <1>6, <1>7
        <3> QED
            BY <1>1, <3>1 DEF ChainOK
    <2> QED
        BY <2>1, <2>2, <2>3 DEF ChainOK
<1>11. ValuesOK'
    <2>1. \A i \in 1..(len - 2) : /\ val[chain[i + 2]] \in Pairs
                                  /\ val[chain[i + 2]][2] <= pushed[val[chain[i + 2]][1]]
        <3> SUFFICES ASSUME NEW i \in 1..(len - 2)
                     PROVE  val[chain[i + 2]] \in Pairs /\ val[chain[i + 2]][2] <= pushed[val[chain[i + 2]][1]]
            OBVIOUS
        <3>1. i + 1 \in Links /\ (i + 1) + 1 = i + 2
            BY <1>6, <1>7
        <3> QED
            BY <1>1, <3>1 DEF ValuesOK
    <2>2. \A i, k \in 1..(len - 2) : val[chain[i + 2]] = val[chain[k + 2]] => i = k
        <3> SUFFICES ASSUME NEW i \in 1..(len - 2), NEW k \in 1..(len - 2), val[chain[i + 2]] = val[chain[k + 2]]
                     PROVE  i = k
            OBVIOUS
        <3>1. i + 1 \in Links /\ k + 1 \in Links /\ (i + 1) + 1 = i + 2 /\ (k + 1) + 1 = k + 2
            BY <1>6, <1>7
        <3>2. i + 1 = k + 1
            BY <1>1, <3>1 DEF ValuesOK
        <3> QED
            BY <1>3, <3>2
    <2> QED
        BY <1>2, <1>6, <1>9, <2>1, <2>2 DEF ValuesOK
<1>12. \A k \in Nodes : InChain(k)' => InChain(k) /\ k # tail
    <2> SUFFICES ASSUME NEW k \in Nodes, NEW i \in 1..(len - 1), chain'[i] = k PROVE InChain(k) /\ k # tail
        BY <1>3 DEF InChain
    <2>1. i + 1 \in 1..len /\ chain[i + 1] = k /\ i + 1 # 1
        BY <1>3
    <2> QED
        BY <1>4, <2>1 DEF InChain, len
<1>13. InChain(tail) /\ tail \in Nodes
    BY <1>4 DEF InChain, len
<1>14. PoolOK'
    BY <1>1, <1>2, <1>12, <1>13 DEF PoolOK, NodeTypeOK
<1>15. ApartOK'
    BY <1>1, <1>2 DEF ApartOK
<1>16. ASSUME NEW r \in Producers PROVE ProducerOK(r)'
    <2>1. ProducerOK(r) /\ pc'[r] = pc[r] /\ node'[r] = node[r] /\ prev'[r] = prev[r] /\ pushed'[r] = pushed[r]
        BY <1>2 DEF NodeInv
    <2>2. ASSUME pc[r] = "swap" PROVE Private(node[r])' /\ val'[node[r]] = val[node[r]]
        <3>1. node[r] \in Nodes /\ node[r] # tail /\ node[r] # chain[2] /\ ~InChain(node[r]) /\ node[r] \notin pool
            BY <1>4, <1>13, <2>1, <2>2 DEF ProducerOK, Private, InChain, len
        <3> QED
            BY <1>2, <1>8, <1>12, <3>1 DEF Private
    <2>3. ASSUME pc[r] = "link"
          PROVE  \E i \in Links' : /\ prev'[r] = chain'[i] /\ node'[r] = chain'[i + 1] /\ next'[chain'[i]] = NIL
                                   /\ val'[chain'[i + 1]] = <<r, pushed'[r]>>
        <3>1. PICK m \in Links : /\ prev[r] = chain[m] /\ node[r] = chain[m + 1] /\ next[chain[m]] = NIL
                                 /\ val[chain[m + 1]] = <<r, pushed[r]>>
            BY <2>1, <2>3 DEF ProducerOK
        <3>2. m # 1
            BY <1>2, <1>4, <3>1
        <3> DEFINE i == m - 1
        <3>3. i \in 1..(len - 2) /\ i + 1 = m /\ i + 2 = m + 1
            BY <1>3, <1>6, <3>2
        <3> HIDE DEF i
        <3>4. /\ prev'[r] = chain'[i] /\ node'[r] = chain'[i + 1] /\ next'[chain'[i]] = NIL
              /\ val'[chain'[i + 1]] = <<r, pushed'[r]>>
            BY <1>2, <1>7, <1>9, <2>1, <3>1, <3>3
        <3> QED
            BY <1>6, <3>3, <3>4
    <2> QED
        BY <1>2, <2>1, <2>2, <2>3 DEF ProducerOK
<1> QED
    BY <1>5, <1>10, <1>11, <1>14, <1>15, <1>16 DEF NodeInv

\* The old stub goes to the pool.
LEMMA RecycleNodeInv == NodeInv /\ PopRecycle => NodeInv'
<1> SUFFICES ASSUME NodeInv, PopRecycle PROVE NodeInv'
    OBVIOUS
<1>1. NodeTypeOK /\ ChainOK /\ ValuesOK /\ PoolOK /\ ApartOK
    BY DEF NodeInv
<1>2. /\ next' = [next EXCEPT ![ctail] = NIL] /\ pool' = pool \cup {ctail} /\ ctail' = NIL /\ cpc' = "count"
      /\ UNCHANGED <<head, tail, val, chain, C, pc, pushed, node, prev>> /\ cpc = "recycle"
    BY DEF PopRecycle, prodVars
<1>3. ctail \in Nodes /\ ~InChain(ctail)
    BY <1>1, <1>2 DEF PoolOK
<1>4. \A k \in Nodes : next'[k] = next[k] \/ (k = ctail /\ next'[k] = NIL)
    BY <1>1, <1>2 DEF NodeTypeOK
<1>5. NodeTypeOK'
    BY <1>1, <1>2, <1>3 DEF NodeTypeOK
<1>6. \A i \in 1..Len(chain) : chain[i] \in Nodes /\ chain[i] # ctail
    BY <1>1, <1>3 DEF NodeTypeOK, InChain
<1>7. \A i \in Links : i \in 1..Len(chain)
    BY <1>1 DEF NodeTypeOK, Links
<1>8. Links' = Links /\ Len(chain) \in 1..Len(chain)
    BY <1>1, <1>2 DEF Links, NodeTypeOK
<1>9. ChainOK'
    BY <1>1, <1>2, <1>4, <1>6, <1>7, <1>8 DEF ChainOK
<1>10. ValuesOK' /\ ApartOK'
    BY <1>1, <1>2, <1>8 DEF ValuesOK, ApartOK
<1>11. PoolOK'
    BY <1>1, <1>2, <1>3, NodesAssumption DEF PoolOK, InChain, NodeTypeOK
<1>12. ASSUME NEW r \in Producers PROVE ProducerOK(r)'
    <2>1. ProducerOK(r) /\ pc'[r] = pc[r] /\ node'[r] = node[r] /\ prev'[r] = prev[r] /\ pushed'[r] = pushed[r]
        BY <1>2 DEF NodeInv
    <2>2. ASSUME pc[r] = "swap" PROVE Private(node[r])' /\ next'[node[r]] = NIL
        BY <1>2, <1>4, <2>1, <2>2, NodesAssumption DEF ProducerOK, Private, InChain
    <2>3. \A i \in Links : next'[chain[i]] = next[chain[i]]
        BY <1>4, <1>6, <1>7
    <2> QED
        BY <1>2, <1>8, <2>1, <2>2, <2>3 DEF ProducerOK
<1> QED
    BY <1>5, <1>9, <1>10, <1>11, <1>12 DEF NodeInv

\* Every behaviour of the list stays within NodeInv.
LEMMA NodeInvariant == Spec => []NodeInv
<1>1. Init => NodeInv
    <2> SUFFICES ASSUME Init PROVE NodeInv
        OBVIOUS
    <2>1. PICK stub \in Nodes : head = stub /\ tail = stub /\ pool = Nodes \ {stub} /\ chain = <<stub>>
        BY DEF Init
    <2>2. chain \in Seq(Nodes) /\ Len(chain) = 1 /\ chain[1] = stub
        BY <2>1
    <2>3. NodeTypeOK
        BY <2>1, <2>2 DEF Init, NodeTypeOK
    <2>4. Links = {}
        BY <2>2 DEF Links
    <2>5. ChainOK /\ ValuesOK
        BY <2>1, <2>2, <2>4 DEF Init, ChainOK, ValuesOK
    <2>6. PoolOK
        BY <2>1, <2>2, NodesAssumption DEF Init, PoolOK, InChain
    <2>7. ApartOK /\ \A p \in Producers : ProducerOK(p)
        BY DEF Init, ApartOK, ProducerOK
    <2> QED
        BY <2>3, <2>5, <2>6, <2>7 DEF NodeInv
<1>2. NodeInv /\ [Next]_vars => NodeInv'
    BY CountNodeInv, GetNodeInv, SwapNodeInv, LinkNodeInv, PopNodeInv, RecycleNodeInv DEF Next
<1> QED
    BY <1>1, <1>2, PTL DEF Spec

\* A node in the pool can be reached by nobody, and no two pushes get the same one
\* (Push and Pop with queueNodePool).
THEOREM PoolIsSafe == Spec => []RecyclingSafe
<1>1. NodeInv => RecyclingSafe
    <2> SUFFICES ASSUME NodeInv PROVE RecyclingSafe
        OBVIOUS
    <2>1. NodeTypeOK /\ PoolOK /\ ApartOK
        BY DEF NodeInv
    <2>2. \A i \in Links : i \in 1..Len(chain) /\ i + 1 \in 1..Len(chain)
        BY <2>1 DEF NodeTypeOK, Links
    <2>3. ASSUME NEW p \in Producers
          PROVE  /\ \A n \in pool : node[p] # n /\ prev[p] # n
                 /\ pc[p] # "swap" => node[p] = NIL \/ InChain(node[p])
                 /\ pc[p] = "swap" => node[p] \in Nodes /\ ~InChain(node[p])
        <3>1. ProducerOK(p) /\ pc[p] \in {"idle", "swap", "link", "count", "signal"}
            BY <2>1 DEF NodeInv, NodeTypeOK
        <3>2. \A n \in pool : n # NIL /\ ~InChain(n)
            BY <2>1, NodesAssumption DEF NodeTypeOK, PoolOK
        <3>3. CASE pc[p] = "swap"
            BY <3>1, <3>2, <3>3 DEF ProducerOK, Private
        <3>4. CASE pc[p] = "link"
            <4>1. PICK i \in Links : prev[p] = chain[i] /\ node[p] = chain[i + 1]
                BY <3>1, <3>4 DEF ProducerOK
            <4>2. InChain(prev[p]) /\ InChain(node[p])
                BY <2>2, <4>1 DEF InChain
            <4> QED
                BY <3>2, <3>4, <4>2
        <3>5. CASE pc[p] \in {"idle", "count", "signal"}
            BY <3>1, <3>2, <3>5 DEF ProducerOK
        <3> QED
            BY <3>1, <3>3, <3>4, <3>5
    <2>4. \A n \in pool : (\A i \in 1..Len(chain) : chain[i] # n) /\ n # ctail
        BY <2>1 DEF PoolOK, InChain
    <2>5. \A p, r \in Producers : p # r /\ pc[p] = "swap" => node[p] # node[r]
        BY <2>1, <2>3, NodesAssumption DEF ApartOK
    <2> QED
        BY <2>3, <2>4, <2>5 DEF RecyclingSafe
<1> QED
    BY <1>1, NodeInvariant, PTL
-----------------------------------------------------------------------------
\* The parts of the refinement mapping.
AbsItems == [i \in Links |-> val[chain[i + 1]]]
AbsLinked == {val[chain[i + 1]] : i \in {j \in Links : next[chain[j]] # NIL}}
AbsPc == [p \in Producers |-> IF pc[p] = "swap" THEN "idle" ELSE pc[p]]
AbsCpc == IF cpc = "recycle" THEN "count" ELSE cpc

\* What Abs looks like: as many values as there are links in the chain.
AbsOK ==
    /\ AbsItems \in Seq(Pairs) /\ Len(AbsItems) = Len(chain) - 1
    /\ \A i \in Links : AbsItems[i] = val[chain[i + 1]] /\ val[chain[i + 1]] \in Pairs

\* The queue value is a queue, before and after a step.
LEMMA AbsShape == NodeInv => AbsOK
<1> SUFFICES ASSUME NodeInv PROVE AbsOK
    OBVIOUS
<1>1. NodeTypeOK /\ ValuesOK
    BY DEF NodeInv
<1> DEFINE n == Len(chain) - 1
<1>2. n \in Nat /\ Links = 1..n
    BY <1>1 DEF NodeTypeOK, Links
<1>3. \A i \in Links : val[chain[i + 1]] \in Pairs
    BY <1>1 DEF ValuesOK
<1> HIDE DEF n
<1>4. AbsItems \in Seq(Pairs) /\ Len(AbsItems) = n
    BY <1>2, <1>3 DEF AbsItems
<1> QED
    BY <1>3, <1>4 DEF AbsItems, AbsOK, n

\* The same after a step.
LEMMA AbsShapeNext == NodeInv' => AbsOK'
    BY AbsShape, PTL

\* A step that leaves the chain and the fields of its nodes alone.
LEMMA AbsKept ==
    ASSUME NodeInv, UNCHANGED <<chain, count, C>>,
           \A i \in 1..Len(chain) : val'[chain[i]] = val[chain[i]] /\ next'[chain[i]] = next[chain[i]]
    PROVE  Abs' = Abs
<1>1. Links' = Links /\ \A i \in Links : i \in 1..Len(chain) /\ i + 1 \in 1..Len(chain)
    BY DEF NodeInv, NodeTypeOK, Links
<1>2. AbsItems' = AbsItems
    BY <1>1 DEF AbsItems
<1>3. AbsLinked' = AbsLinked
    BY <1>1 DEF AbsLinked
<1>4. Abs = [items |-> AbsItems, linked |-> AbsLinked, count |-> count, C |-> C]
    BY DEF Abs, AbsItems, AbsLinked
<1>5. Abs' = [items |-> AbsItems', linked |-> AbsLinked', count |-> count', C |-> C']
    BY DEF Abs, AbsItems, AbsLinked
<1> QED
    BY <1>2, <1>3, <1>4, <1>5

\* SwapPointer appends the value to the queue.
LEMMA SwapAbs ==
    ASSUME NodeInv, NodeInv', NEW p \in Producers, PushSwap(p)
    PROVE  AbsItems' = Append(AbsItems, <<p, pushed[p] + 1>>) /\ AbsLinked' = AbsLinked
<1> DEFINE len == Len(chain)
           v == <<p, pushed[p] + 1>>
<1>1. NodeTypeOK /\ ChainOK /\ ProducerOK(p) /\ NodeTypeOK'
    BY DEF NodeInv
<1>2. chain' = Append(chain, node[p]) /\ UNCHANGED <<next, val>> /\ node[p] \in Nodes /\ val[node[p]] = v
    BY <1>1 DEF PushSwap, ProducerOK, Private
<1>3. /\ len \in Nat /\ len > 0 /\ Len(chain') = len + 1 /\ chain'[len + 1] = node[p]
      /\ \A i \in 1..len : chain'[i] = chain[i]
    BY <1>1, <1>2 DEF NodeTypeOK
<1>4. next[chain[len]] = NIL
    BY <1>1 DEF ChainOK
<1>5. /\ AbsItems \in Seq(Pairs) /\ Len(AbsItems) = len - 1 /\ AbsItems' \in Seq(Pairs) /\ Len(AbsItems') = len
      /\ \A i \in Links : AbsItems[i] = val[chain[i + 1]]
      /\ \A i \in Links' : AbsItems'[i] = val'[chain'[i + 1]] /\ val'[chain'[i + 1]] \in Pairs
    BY <1>3, AbsShape, AbsShapeNext DEF AbsOK
<1> HIDE DEF len, v
<1>6. Links = 1..(len - 1) /\ Links' = 1..len /\ len \in 1..len
      /\ \A i \in 1..(len - 1) : i \in 1..len /\ i + 1 \in 1..len
    BY <1>3 DEF Links, len
<1>7. AbsItems'[len] = v /\ v \in Pairs
    BY <1>2, <1>3, <1>5, <1>6
<1>8. ASSUME NEW i \in 1..(len - 1) PROVE AbsItems'[i] = AbsItems[i]
    <2>1. chain'[i + 1] = chain[i + 1] /\ i \in Links /\ i \in Links'
        BY <1>3, <1>6
    <2> QED
        BY <1>2, <1>5, <2>1
<1>9. Append(AbsItems, v) \in Seq(Pairs) /\ Len(Append(AbsItems, v)) = len
    BY <1>3, <1>5, <1>7
<1>10. \A i \in 1..len : Append(AbsItems, v)[i] = AbsItems'[i]
    BY <1>3, <1>5, <1>7, <1>8
<1>11. Append(AbsItems, v) = AbsItems'
    BY <1>5, <1>9, <1>10, SeqEqual
<1>12. \A i \in 1..len : i \in 1..(len - 1) \/ i = len
    BY <1>3
<1>13. AbsLinked' = AbsLinked
    BY <1>2, <1>3, <1>4, <1>6, <1>12 DEF AbsLinked
<1> QED
    BY <1>11, <1>13 DEF v

\* StorePointer links the value.
LEMMA LinkAbs ==
    ASSUME NodeInv, NEW p \in Producers, PushLink(p)
    PROVE  AbsItems' = AbsItems /\ AbsLinked' = AbsLinked \cup {<<p, pushed[p]>>}
<1>1. NodeTypeOK /\ ChainOK /\ ProducerOK(p) /\ pc[p] = "link"
    BY DEF NodeInv, PushLink
<1>2. PICK m \in Links : /\ prev[p] = chain[m] /\ node[p] = chain[m + 1] /\ next[chain[m]] = NIL
                         /\ val[chain[m + 1]] = <<p, pushed[p]>>
    BY <1>1 DEF ProducerOK
<1>3. next' = [next EXCEPT ![chain[m]] = chain[m + 1]] /\ UNCHANGED <<val, chain>> /\ Links' = Links
    BY <1>2 DEF PushLink, Links
<1>4. \A i \in Links : i \in 1..Len(chain) /\ i + 1 \in 1..Len(chain) /\ chain[i] \in Nodes /\ chain[i + 1] \in Nodes
    BY <1>1 DEF NodeTypeOK, Links
<1>5. next'[chain[m]] # NIL /\ \A i \in Links : i # m => next'[chain[i]] = next[chain[i]]
    BY <1>1, <1>3, <1>4, NodesAssumption DEF NodeTypeOK, ChainOK
<1>6. AbsItems' = AbsItems
    BY <1>3 DEF AbsItems
<1>7. AbsLinked' = AbsLinked \cup {val[chain[m + 1]]}
    BY <1>2, <1>3, <1>5 DEF AbsLinked
<1> QED
    BY <1>2, <1>6, <1>7

\* tail.next is nil exactly when the queue value has nothing that can be popped.
LEMMA PopGuard ==
    ASSUME NodeInv
    PROVE  /\ next[tail] # NIL <=> AbsItems # <<>> /\ Head(AbsItems) \in AbsLinked
           /\ next[tail] # NIL => Head(AbsItems) = val[next[tail]]
<1>1. NodeTypeOK /\ ChainOK /\ ValuesOK
    BY DEF NodeInv
<1>2. AbsItems \in Seq(Pairs) /\ Len(AbsItems) = Len(chain) - 1 /\ \A i \in Links : AbsItems[i] = val[chain[i + 1]]
    BY AbsShape DEF AbsOK
<1>3. Len(chain) \in Nat /\ Len(chain) > 0
    BY <1>1 DEF NodeTypeOK
<1>4. CASE Len(chain) = 1
    <2>1. next[tail] = NIL
        BY <1>1, <1>4 DEF ChainOK
    <2>2. AbsItems = <<>>
        BY <1>2, <1>4
    <2> QED
        BY <2>1, <2>2
<1>5. CASE Len(chain) # 1
    <2>1. 1 \in Links
        <3>1. \A n \in Nat : n > 0 /\ n # 1 => 1 \in 1..(n - 1)
            OBVIOUS
        <3> QED
            BY <1>3, <1>5, <3>1 DEF Links
    <2>2. tail = chain[1] /\ next[tail] \in {NIL, chain[2]}
        BY <1>1, <2>1 DEF ChainOK
    <2>3. AbsItems # <<>> /\ Head(AbsItems) = val[chain[2]]
        <3>1. \A s \in Seq(Pairs) : Len(s) # 0 => s # <<>> /\ Head(s) = s[1]
            OBVIOUS
        <3>2. Len(AbsItems) # 0
            BY <1>2, <1>3, <1>5
        <3>3. AbsItems[1] = val[chain[2]]
            BY <1>2, <2>1
        <3> QED
            BY <1>2, <3>1, <3>2, <3>3
    <2>4. next[tail] # NIL => val[chain[2]] \in AbsLinked
        <3>1. 1 + 1 = 2
            OBVIOUS
        <3> QED
            BY <2>1, <2>2, <3>1 DEF AbsLinked
    <2>5. val[chain[2]] \in AbsLinked => next[tail] # NIL
        <3> SUFFICES ASSUME NEW k \in Links, next[chain[k]] # NIL, val[chain[k + 1]] = val[chain[2]] PROVE k = 1
            BY <2>2 DEF AbsLinked
        <3>1. 1 + 1 = 2
            OBVIOUS
        <3> QED
            BY <1>1, <2>1, <3>1 DEF ValuesOK
    <2> QED
        BY <2>2, <2>3, <2>4, <2>5
<1> QED
    BY <1>4, <1>5

\* Pop takes the oldest value out of the queue, linked as it is.
LEMMA PopAbs ==
    ASSUME NodeInv, NodeInv', PopValue
    PROVE  AbsItems' = Tail(AbsItems) /\ AbsLinked' = AbsLinked \ {Head(AbsItems)}
<1> DEFINE len == Len(chain)
<1>1. NodeTypeOK /\ ChainOK /\ ValuesOK
    BY DEF NodeInv
<1>2. UNCHANGED next /\ val' = [val EXCEPT ![next[tail]] = NIL] /\ next[tail] # NIL
    BY DEF PopValue
<1>3. /\ len \in Nat /\ len > 1 /\ next[tail] = chain[2] /\ Len(chain') = len - 1
      /\ \A i \in 1..(len - 1) : chain'[i] = chain[i + 1] /\ i + 1 \in 1..len
    BY PopShape
<1>4. /\ AbsItems \in Seq(Pairs) /\ Len(AbsItems) = len - 1 /\ AbsItems' \in Seq(Pairs) /\ Len(AbsItems') = len - 2
      /\ \A i \in Links : AbsItems[i] = val[chain[i + 1]]
      /\ \A i \in Links' : AbsItems'[i] = val'[chain'[i + 1]]
    <2>1. Len(chain') - 1 = len - 2
        BY <1>3
    <2> QED
        BY <2>1, AbsShape, AbsShapeNext DEF AbsOK
<1>5. /\ \A i \in 1..len : chain[i] \in Nodes
      /\ \A i, k \in 1..len : chain[i] = chain[k] => i = k
      /\ tail = chain[1] /\ 2 \in 1..len
    BY <1>1, <1>3 DEF NodeTypeOK, ChainOK
<1> HIDE DEF len
<1>6. Links = 1..(len - 1) /\ Links' = 1..(len - 2) /\ 1 \in Links
    BY <1>3 DEF Links, len
<1>7. \A i \in 1..(len - 2) : /\ i + 1 \in Links /\ i + 2 \in 1..len /\ i + 2 # 2 /\ (i + 1) + 1 = i + 2
                              /\ chain'[i] = chain[i + 1] /\ chain'[i + 1] = chain[i + 2]
    BY <1>3, <1>6
<1>8. \A i \in 1..(len - 2) : val'[chain'[i + 1]] = val[chain[i + 2]] /\ next'[chain'[i]] = next[chain[i + 1]]
    BY <1>1, <1>2, <1>3, <1>5, <1>7 DEF NodeTypeOK
<1>9. AbsItems' = Tail(AbsItems)
    <2>1. /\ Tail(AbsItems) \in Seq(Pairs) /\ Len(Tail(AbsItems)) = len - 2
          /\ \A i \in 1..(len - 2) : Tail(AbsItems)[i] = AbsItems[i + 1]
        <3>1. \A s \in Seq(Pairs) : Len(s) = len - 1 =>
                 /\ Tail(s) \in Seq(Pairs) /\ Len(Tail(s)) = len - 2
                 /\ \A i \in 1..(len - 2) : Tail(s)[i] = s[i + 1]
            BY <1>3
        <3> QED
            BY <1>4, <3>1
    <2>2. \A i \in 1..(len - 2) : AbsItems'[i] = AbsItems[i + 1]
        BY <1>4, <1>6, <1>7, <1>8
    <2> QED
        BY <1>4, <2>1, <2>2, SeqEqual
<1>10. AbsLinked' = AbsLinked \ {val[chain[2]]}
    <2>1. \A k \in Links : k = 1 \/ \E i \in 1..(len - 2) : k = i + 1
        <3> SUFFICES ASSUME NEW k \in Links, k # 1 PROVE \E i \in 1..(len - 2) : k = i + 1
            OBVIOUS
        <3>1. k - 1 \in 1..(len - 2) /\ k = (k - 1) + 1
            BY <1>3, <1>6
        <3> QED
            BY <3>1
    <2>2. \A i \in 1..(len - 2) : val[chain[i + 2]] # val[chain[2]]
        <3> SUFFICES ASSUME NEW i \in 1..(len - 2), val[chain[i + 2]] = val[chain[2]] PROVE FALSE
            OBVIOUS
        <3>1. i + 1 = 1
            BY <1>1, <1>6, <1>7 DEF ValuesOK
        <3> QED
            BY <1>3, <3>1
    <2>3. ASSUME NEW x PROVE x \in AbsLinked' <=> \E i \in 1..(len - 2) : x = val[chain[i + 2]] /\ next[chain[i + 1]] # NIL
        BY <1>6, <1>8 DEF AbsLinked
    <2>4. ASSUME NEW x PROVE x \in AbsLinked <=> \/ x = val[chain[2]]
                                                 \/ \E i \in 1..(len - 2) : x = val[chain[i + 2]] /\ next[chain[i + 1]] # NIL
        <3>1. next[chain[1]] # NIL /\ 1 + 1 = 2
            BY <1>2, <1>5
        <3>2. x \in AbsLinked <=> \E k \in Links : x = val[chain[k + 1]] /\ next[chain[k]] # NIL
            BY DEF AbsLinked
        <3>3. ASSUME NEW k \in Links, x = val[chain[k + 1]], next[chain[k]] # NIL, k # 1
              PROVE  \E i \in 1..(len - 2) : x = val[chain[i + 2]] /\ next[chain[i + 1]] # NIL
            <4>1. PICK i \in 1..(len - 2) : k = i + 1
                BY <2>1, <3>3
            <4> QED
                BY <1>7, <3>3, <4>1
        <3>4. ASSUME NEW i \in 1..(len - 2), x = val[chain[i + 2]], next[chain[i + 1]] # NIL
              PROVE  \E k \in Links : x = val[chain[k + 1]] /\ next[chain[k]] # NIL
            BY <1>7, <3>4
        <3> QED
            BY <1>6, <3>1, <3>2, <3>3, <3>4
    <2> QED
        BY <2>2, <2>3, <2>4
<1> QED
    BY <1>2, <1>3, <1>9, <1>10, PopGuard

\* The operators of module Queue on a queue value that is given by its fields.
LEMMA SwapIs ==
    ASSUME NEW a, NEW b, NEW c, NEW d, NEW v
    PROVE  AbsQueue!Swap([items |-> a, linked |-> b, count |-> c, C |-> d], v)
             = [items |-> Append(a, v), linked |-> b, count |-> c, C |-> d]
<1> DEFINE r == [items |-> a, linked |-> b, count |-> c, C |-> d]
           s == Append(r.items, v)
<1>1. AbsQueue!Swap(r, v) = [r EXCEPT !.items = s]
    BY DEF AbsQueue!Swap
<1>2. r.items = a
    OBVIOUS
<1>3. s = Append(a, v)
    BY <1>2
<1> HIDE DEF s
<1>4. [r EXCEPT !.items = s] = [items |-> s, linked |-> b, count |-> c, C |-> d]
    OBVIOUS
<1> QED
    BY <1>1, <1>3, <1>4

\* The same for Pop.
LEMMA PopItemIs ==
    ASSUME NEW a, NEW b, NEW c, NEW d
    PROVE  AbsQueue!PopItem([items |-> a, linked |-> b, count |-> c, C |-> d])
             = [items |-> Tail(a), linked |-> b \ {Head(a)}, count |-> c, C |-> d]
<1> DEFINE r == [items |-> a, linked |-> b, count |-> c, C |-> d]
           s == Tail(r.items)
           t == r.linked \ {Head(r.items)}
<1>1. AbsQueue!PopItem(r) = [r EXCEPT !.items = s, !.linked = t]
    BY DEF AbsQueue!PopItem
<1>2. r.items = a /\ r.linked = b
    OBVIOUS
<1>3. s = Tail(a) /\ t = b \ {Head(a)}
    BY <1>2
<1> HIDE DEF s, t
<1> DEFINE moved == [r EXCEPT !.items = s]
<1>4. moved = [items |-> s, linked |-> b, count |-> c, C |-> d]
    OBVIOUS
<1>5. [r EXCEPT !.items = s, !.linked = t] = [moved EXCEPT !.linked = t]
    OBVIOUS
<1> HIDE DEF moved
<1>6. [moved EXCEPT !.linked = t] = [items |-> s, linked |-> t, count |-> c, C |-> d]
    BY <1>4
<1> QED
    BY <1>1, <1>3, <1>5, <1>6

\* Every step of the list is a step of the queue, or none.
LEMMA NodeStep ==
    ASSUME NodeInv, NodeInv', [Next]_vars
    PROVE  [AbsQueue!Next]_(AbsQueue!vars)
<1>1. NodeTypeOK /\ ChainOK /\ PoolOK
    BY DEF NodeInv
<1>2. /\ Abs = [items |-> AbsItems, linked |-> AbsLinked, count |-> count, C |-> C]
      /\ Abs' = [items |-> AbsItems', linked |-> AbsLinked', count |-> count', C |-> C']
    BY DEF Abs, AbsItems, AbsLinked
<1>3. \A p \in Producers : AbsPc[p] = (IF pc[p] = "swap" THEN "idle" ELSE pc[p])
    BY DEF AbsPc
<1>4. \A i \in 1..Len(chain) : chain[i] \in Nodes
    BY <1>1 DEF NodeTypeOK
<1>5. ASSUME NEW p \in Producers, PushGet(p) PROVE UNCHANGED AbsQueue!vars
    <2>1. Abs' = Abs
        <3>1. PICK n \in pool : val' = [val EXCEPT ![n] = <<p, pushed[p] + 1>>] /\ next' = [next EXCEPT ![n] = NIL]
            BY <1>5 DEF PushGet
        <3>2. \A i \in 1..Len(chain) : chain[i] # n
            BY <1>1 DEF PoolOK, InChain
        <3> QED
            BY <1>1, <1>4, <1>5, <3>1, <3>2, AbsKept DEF PushGet, NodeTypeOK
    <2>2. AbsPc' = AbsPc
        BY <1>1, <1>5 DEF PushGet, AbsPc, NodeTypeOK
    <2> QED
        BY <1>5, <2>1, <2>2 DEF AbsQueue!vars, PushGet, consVars, AbsPc
<1>6. ASSUME NEW p \in Producers, PushSwap(p) PROVE AbsQueue!PushSwap(p)
    <2> DEFINE v == <<p, pushed[p] + 1>>
    <2>1. Abs' = AbsQueue!Swap(Abs, v)
        <3>1. AbsItems' = Append(AbsItems, v) /\ AbsLinked' = AbsLinked /\ UNCHANGED <<count, C>>
            BY <1>6, SwapAbs DEF PushSwap
        <3> HIDE DEF v
        <3>2. AbsQueue!Swap([items |-> AbsItems, linked |-> AbsLinked, count |-> count, C |-> C], v)
                = [items |-> Append(AbsItems, v), linked |-> AbsLinked, count |-> count, C |-> C]
            BY SwapIs
        <3> QED
            BY <1>2, <3>1, <3>2
    <2>2. AbsPc[p] = "idle" /\ AbsPc' = [AbsPc EXCEPT ![p] = "link"] /\ pushed[p] < MaxPushes
        BY <1>1, <1>6 DEF PushSwap, AbsPc, NodeTypeOK, NodeInv, ProducerOK
    <2> QED
        BY <1>6, <2>1, <2>2 DEF AbsQueue!PushSwap, AbsQueue!NextValue, AbsQueue!consVars, PushSwap, consVars, AbsPc
<1>7. ASSUME NEW p \in Producers, PushLink(p) PROVE AbsQueue!PushLink(p)
    <2>1. Abs' = AbsQueue!Link(Abs, <<p, pushed[p]>>)
        <3>1. AbsItems' = AbsItems /\ AbsLinked' = AbsLinked \cup {<<p, pushed[p]>>} /\ UNCHANGED <<count, C>>
            BY <1>7, LinkAbs DEF PushLink
        <3> QED
            BY <1>2, <3>1 DEF AbsQueue!Link
    <2>2. AbsPc[p] = "link" /\ AbsPc' = [AbsPc EXCEPT ![p] = "count"]
        BY <1>1, <1>7 DEF PushLink, AbsPc, NodeTypeOK
    <2> QED
        BY <1>7, <2>1, <2>2 DEF AbsQueue!PushLink, AbsQueue!CurValue, AbsQueue!consVars, PushLink, consVars, AbsPc
<1>8. ASSUME UNCHANGED <<chain, val, next>> PROVE AbsItems' = AbsItems /\ AbsLinked' = AbsLinked
    BY <1>8 DEF AbsItems, AbsLinked, Links
<1>9. ASSUME NEW p \in Producers, PushCount(p) PROVE AbsQueue!PushCount(p)
    <2>1. Abs' = AbsQueue!AddCount(Abs, 1) /\ Abs.count = count
        BY <1>2, <1>8, <1>9 DEF AbsQueue!AddCount, PushCount
    <2>2. AbsPc[p] = "count" /\ AbsPc' = [AbsPc EXCEPT ![p] = "signal"]
        BY <1>1, <1>9 DEF PushCount, AbsPc, NodeTypeOK
    <2> QED
        BY <1>9, <2>1, <2>2 DEF AbsQueue!PushCount, AbsQueue!consVars, PushCount, consVars, AbsPc
<1>10. ASSUME NEW t, UNCHANGED <<chain, val, next, count>>, C' = IF t > 0 THEN "full" ELSE C
       PROVE  Abs' = AbsQueue!Signal(Abs, t)
    BY <1>1, <1>2, <1>8, <1>10 DEF AbsQueue!Signal, NodeTypeOK
<1>11. ASSUME NEW p \in Producers, PushSignal(p) PROVE AbsQueue!PushSignal(p)
    <2>1. Abs' = AbsQueue!Signal(Abs, local[p])
        BY <1>10, <1>11 DEF PushSignal
    <2>2. AbsPc[p] = "signal" /\ AbsPc' = [AbsPc EXCEPT ![p] = "idle"]
        BY <1>1, <1>11 DEF PushSignal, AbsPc, NodeTypeOK
    <2> QED
        BY <1>11, <2>1, <2>2 DEF AbsQueue!PushSignal, AbsQueue!consVars, PushSignal, consVars, AbsPc
<1>12. ASSUME UNCHANGED pc PROVE AbsPc' = AbsPc
    BY <1>12 DEF AbsPc
<1>13. CASE Wake
    <2>1. Abs' = AbsQueue!Receive(Abs) /\ Abs.C = C
        BY <1>2, <1>8, <1>13 DEF AbsQueue!Receive, Wake
    <2>2. AbsQueue!Wake
        BY <1>12, <1>13, <2>1 DEF AbsQueue!Wake, AbsQueue!prodVars, Wake, prodVars, AbsPc
    <2> QED
        BY <2>2 DEF AbsQueue!Next, AbsQueue!Consume
<1>14. CASE PopValue
    <2>1. AbsQueue!CanPop(Abs) /\ Head(Abs.items) = val[next[tail]]
        BY <1>2, <1>14, PopGuard DEF AbsQueue!CanPop, PopValue
    <2>2. Abs' = AbsQueue!PopItem(Abs)
        <3>1. /\ AbsItems' = Tail(AbsItems) /\ AbsLinked' = AbsLinked \ {Head(AbsItems)}
              /\ UNCHANGED <<count, C>>
            BY <1>14, PopAbs DEF PopValue
        <3> QED
            BY <1>2, <3>1, PopItemIs
    <2>3. AbsQueue!PopValue
        BY <1>12, <1>14, <2>1, <2>2 DEF AbsQueue!PopValue, AbsQueue!prodVars, PopValue, prodVars, AbsPc
    <2> QED
        BY <2>3 DEF AbsQueue!Next, AbsQueue!Consume
<1>15. CASE PopNil
    <2>1. ~AbsQueue!CanPop(Abs)
        BY <1>2, <1>15, PopGuard DEF AbsQueue!CanPop, PopNil
    <2>2. Abs' = Abs
        BY <1>2, <1>8, <1>15 DEF PopNil, queueVars
    <2>3. AbsQueue!PopNil
        BY <1>12, <1>15, <2>1, <2>2 DEF AbsQueue!PopNil, AbsQueue!prodVars, PopNil, prodVars, AbsPc
    <2> QED
        BY <2>3 DEF AbsQueue!Next, AbsQueue!Consume
<1>16. CASE PopRecycle
    <2>1. Abs' = Abs
        <3>1. ~InChain(ctail) /\ next' = [next EXCEPT ![ctail] = NIL]
            BY <1>1, <1>16 DEF PoolOK, PopRecycle
        <3> QED
            BY <1>1, <1>4, <1>16, <3>1, AbsKept DEF PopRecycle, NodeTypeOK, InChain
    <2>2. UNCHANGED AbsQueue!vars
        BY <1>12, <1>16, <2>1 DEF AbsQueue!vars, PopRecycle, prodVars, AbsPc
    <2> QED
        BY <2>2
<1>17. CASE PopCount
    <2>1. Abs' = AbsQueue!AddCount(Abs, -1) /\ Abs.count = count
        <3>1. count + (-1) = count - 1
            OBVIOUS
        <3> QED
            BY <1>2, <1>8, <1>17, <3>1 DEF AbsQueue!AddCount, PopCount
    <2>2. AbsQueue!PopCount
        BY <1>12, <1>17, <2>1 DEF AbsQueue!PopCount, AbsQueue!prodVars, PopCount, prodVars, AbsPc
    <2> QED
        BY <2>2 DEF AbsQueue!Next, AbsQueue!Consume
<1>18. CASE PopSignal
    <2>1. Abs' = AbsQueue!Signal(Abs, clocal)
        BY <1>10, <1>18 DEF PopSignal
    <2>2. AbsQueue!PopSignal
        BY <1>12, <1>18, <2>1 DEF AbsQueue!PopSignal, AbsQueue!prodVars, PopSignal, prodVars, AbsPc
    <2> QED
        BY <2>2 DEF AbsQueue!Next, AbsQueue!Consume
<1>19. CASE UNCHANGED vars
    <2>1. Abs' = Abs
        BY <1>2, <1>8, <1>19 DEF vars, queueVars
    <2> QED
        BY <1>12, <1>19, <2>1 DEF AbsQueue!vars, vars, prodVars, consVars, AbsPc
<1>20. ASSUME NEW p \in Producers, PushSwap(p) \/ PushLink(p) \/ PushCount(p) \/ PushSignal(p) PROVE AbsQueue!Next
    BY <1>6, <1>7, <1>9, <1>11, <1>20 DEF AbsQueue!Next, AbsQueue!Push
<1> QED
    BY <1>5, <1>13, <1>14, <1>15, <1>16, <1>17, <1>18, <1>19, <1>20 DEF Next

\* The linked list with its recycled nodes is the queue of QueueSpec: whatever is proved
\* of that one holds of queue.go as it is written (Push, Pop, _setCount).
THEOREM ListImplementsQueue == Spec => ImplementsQueue
<1>1. Init => AbsQueue!Init
    <2> SUFFICES ASSUME Init PROVE AbsQueue!Init
        OBVIOUS
    <2>1. Len(chain) = 1
        BY DEF Init
    <2>2. Links = {}
        BY <2>1 DEF Links
    <2>3. AbsItems = <<>> /\ AbsLinked = {}
        BY <2>2 DEF AbsItems, AbsLinked
    <2>4. Abs = AbsQueue!newQueue
        BY <2>3 DEF Init, Abs, AbsItems, AbsLinked, AbsQueue!newQueue
    <2>5. [p \in Producers |-> IF pc[p] = "swap" THEN "idle" ELSE pc[p]] = [p \in Producers |-> "idle"]
        BY DEF Init
    <2> QED
        BY <2>4, <2>5 DEF Init, AbsQueue!Init
<1> QED
    BY <1>1, NodeStep, NodeInvariant, PTL DEF Spec, ImplementsQueue, AbsQueue!Spec
=============================================================================
