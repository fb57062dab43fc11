-------------------------- MODULE Connection_proofs --------------------------
(***************************************************************************)
(* Theorems about one AGP connection, for any number of requests, IDs and  *)
(* goroutines and any limit.                                               *)
(***************************************************************************)
EXTENDS Connection, FiniteSetTheorems, TLAPS

HandlerPlaces == {"none", "dispatch", "send", "close", "release", "end"}
RunningPlaces == {"dispatch", "send", "close", "release"}

ConnTypeOK ==
    /\ maxInflight \in Nat /\ idOf \in [Requests -> Ids]
    /\ inflight \in [Ids -> Requests \cup {NONE}]
    /\ ctx \in [Requests -> {"none", "live", "ended"}]
    /\ hpc \in [Requests -> HandlerPlaces]

\* Close has not yet gone through the table.
BeforeSweep == clpc \in {"open", "cancel"}
RunningSet == {r \in Requests : Running(r)}

\* A request that Run has read and not yet reserved has no goroutine.
PacketOK ==
    /\ pkt \in Requests => rpc \in {"process", "reserve"} /\ hpc[pkt] = "none"
    /\ rpc = "reserve" => pkt \in Requests

\* An entry of the table is a request being handled, under its own ID.
TableOK == \A i \in Ids : inflight[i] # NONE => Running(inflight[i]) /\ idOf[inflight[i]] = i

\* Until the sweep every request being handled has its entry, and they keep the limit;
\* after it a live context is one that was reserved too late to be swept.
ExactOK == BeforeSweep => \A r \in Requests : Running(r) => inflight[idOf[r]] = r
BoundOK == BeforeSweep => Cardinality(RunningSet) <= maxInflight
LiveOK == BeforeSweep => \A r \in Requests : ctx[r] = "live" => inflight[idOf[r]] = r
SweptOK == ~BeforeSweep => \A r \in Requests \ afterSweep : ctx[r] # "live"

\* A polite client still has what it was promised when its request is reserved.
PoliteOK ==
    polite /\ pkt \in Requests =>
        /\ Cardinality(Unanswered) < maxInflight
        /\ \A r \in Unanswered : idOf[r] # idOf[pkt]

ConnInv == ConnTypeOK /\ PacketOK /\ TableOK /\ ExactOK /\ BoundOK /\ LiveOK /\ SweptOK /\ PoliteOK

\* Until the sweep the table has as many entries as there are requests being handled.
LEMMA ReservedIsRunning ==
    ASSUME ConnInv, BeforeSweep
    PROVE  /\ IsFiniteSet(RunningSet) /\ IsFiniteSet(Reserved)
           /\ Cardinality(Reserved) = Cardinality(RunningSet) /\ Cardinality(RunningSet) \in Nat
<1>1. ConnTypeOK /\ TableOK /\ ExactOK
    BY DEF ConnInv
<1>2. IsFiniteSet(RunningSet) /\ Cardinality(RunningSet) \in Nat
    BY OptionsAssumption, FS_Subset, FS_CardinalityType DEF RunningSet
<1> DEFINE f == [r \in RunningSet |-> idOf[r]]
<1>3. \A r \in RunningSet : r \in Requests /\ inflight[idOf[r]] = r /\ idOf[r] \in Reserved
    BY <1>1, OptionsAssumption DEF RunningSet, ConnTypeOK, ExactOK, Reserved
<1>4. f \in Injection(RunningSet, Reserved)
    BY <1>3 DEF Injection, IsInjective
<1>5. f \in Surjection(RunningSet, Reserved)
    <2>1. \A i \in Reserved : inflight[i] \in RunningSet /\ idOf[inflight[i]] = i
        BY <1>1 DEF Reserved, ConnTypeOK, TableOK, RunningSet
    <2> QED
        BY <1>3, <2>1 DEF Surjection
<1> QED
    BY <1>2, <1>4, <1>5, FS_Surjection

\* Who has not had a response is finite, and can only become fewer.
LEMMA FewerUnanswered ==
    ASSUME Unanswered' \subseteq Unanswered
    PROVE  /\ Cardinality(Unanswered') <= Cardinality(Unanswered)
           /\ Cardinality(Unanswered) \in Nat /\ Cardinality(Unanswered') \in Nat
<1>1. IsFiniteSet(Unanswered) /\ IsFiniteSet(Unanswered')
    BY OptionsAssumption, FS_Subset DEF Unanswered
<1> QED
    BY <1>1, FS_Subset, FS_CardinalityType

\* The steps that reserve and release nothing and start no request.
LEMMA QuietStep ==
    ASSUME ConnInv, UNCHANGED <<maxInflight, idOf, inflight, afterSweep>>,
           BeforeSweep' = BeforeSweep, answered \subseteq answered',
           hpc' \in [Requests -> HandlerPlaces],
           \A r \in Requests : /\ hpc'[r] \in RunningPlaces => hpc[r] \in RunningPlaces
                               /\ hpc[r] \in RunningPlaces => hpc'[r] \in RunningPlaces
                               /\ hpc[r] = "none" => hpc'[r] = "none",
           \A r \in Requests : hpc'[r] # "none" => hpc[r] # "none",
           ctx' \in [Requests -> {"none", "live", "ended"}],
           \A r \in Requests : ctx'[r] = "live" => ctx[r] = "live",
           pkt' \in Requests => pkt' = pkt /\ rpc' \in {"process", "reserve"} /\ polite' = polite,
           rpc' = "reserve" => pkt' \in Requests
    PROVE  ConnInv'
<1>1. ConnTypeOK /\ PacketOK /\ TableOK /\ ExactOK /\ BoundOK /\ LiveOK /\ SweptOK /\ PoliteOK
    BY DEF ConnInv
<1>2. \A r \in Requests : Running(r)' <=> Running(r)
    BY DEF Running, RunningPlaces
<1>3. ConnTypeOK' /\ PacketOK'
    BY <1>1 DEF ConnTypeOK, PacketOK
<1>4. TableOK' /\ ExactOK' /\ LiveOK' /\ SweptOK'
    <2>1. TableOK'
        BY <1>1, <1>2 DEF TableOK, ConnTypeOK
    <2>2. ExactOK'
        BY <1>1, <1>2 DEF ExactOK
    <2>3. LiveOK' /\ SweptOK'
        BY <1>1 DEF LiveOK, SweptOK
    <2> QED
        BY <2>1, <2>2, <2>3
<1>5. BoundOK'
    <2>1. RunningSet' = RunningSet
        BY <1>2 DEF RunningSet
    <2> QED
        BY <1>1, <2>1 DEF BoundOK
<1>6. PoliteOK'
    <2>1. Unanswered' \subseteq Unanswered
        BY DEF Unanswered
    <2>2. CASE pkt' \in Requests
        <3>1. ASSUME polite' PROVE Cardinality(Unanswered) < maxInflight /\ \A r \in Unanswered : idOf[r] # idOf[pkt]
            BY <1>1, <2>2, <3>1 DEF PoliteOK
        <3>2. maxInflight \in Nat /\ Cardinality(Unanswered') <= Cardinality(Unanswered)
              /\ Cardinality(Unanswered) \in Nat /\ Cardinality(Unanswered') \in Nat
            BY <1>1, <2>1, FewerUnanswered DEF ConnTypeOK
        <3>3. ASSUME polite' PROVE Cardinality(Unanswered') < maxInflight'
            BY <3>1, <3>2, <3>3
        <3>4. ASSUME polite' PROVE \A r \in Unanswered' : idOf'[r] # idOf'[pkt']
            BY <2>1, <2>2, <3>1, <3>4
        <3> QED
            BY <3>3, <3>4 DEF PoliteOK
    <2>3. CASE pkt' \notin Requests
        BY <2>3 DEF PoliteOK
    <2> QED
        BY <2>2, <2>3
<1> QED
    BY <1>3, <1>4, <1>5, <1>6 DEF ConnInv

\* ReadPacketBytes: a request is read once, and a polite client knows what it does.
LEMMA ReadConnInv == ConnInv /\ Read => ConnInv'
<1> SUFFICES ASSUME ConnInv, Read PROVE ConnInv'
    OBVIOUS
<1>1. /\ UNCHANGED <<maxInflight, idOf, inflight, afterSweep, answered, hpc, ctx, clpc>> /\ rpc = "read"
      /\ ConnTypeOK /\ PacketOK /\ TableOK /\ ExactOK /\ BoundOK /\ LiveOK /\ SweptOK
    BY DEF Read, readFrame, inputs, writeVars, closeVars, ConnInv
<1>2. CASE pkt' \in Requests
    <2>1. rpc' = "process" /\ hpc[pkt'] = "none"
        BY <1>1, <1>2, KindsAssumption DEF Read, PacketOK
    <2>2. ConnTypeOK' /\ PacketOK'
        BY <1>1, <1>2, <2>1 DEF ConnTypeOK, PacketOK
    <2>3. TableOK' /\ ExactOK' /\ BoundOK' /\ LiveOK' /\ SweptOK'
        BY <1>1 DEF TableOK, ExactOK, BoundOK, LiveOK, SweptOK, BeforeSweep, RunningSet, Running
    <2>4. PoliteOK'
        BY <1>1, <1>2, <2>1 DEF Read, PoliteOK, Unanswered
    <2> QED
        BY <2>2, <2>3, <2>4 DEF ConnInv
<1>3. CASE pkt' \notin Requests
    <2>1. rpc' # "reserve"
        BY DEF Read
    <2> QED
        BY <1>1, <1>3, <2>1, QuietStep DEF ConnTypeOK, BeforeSweep
<1> QED
    BY <1>2, <1>3

\* The rest of Run, up to reserve.
LEMMA RunConnInv == ConnInv /\ (Process \/ Handshake \/ ReaderSend) => ConnInv'
<1> SUFFICES ASSUME ConnInv, Process \/ Handshake \/ ReaderSend PROVE ConnInv'
    OBVIOUS
<1>1. UNCHANGED <<maxInflight, idOf, inflight, afterSweep, answered, hpc, clpc, polite>> /\ ConnTypeOK /\ PacketOK
    BY DEF Process, Handshake, ReaderSend, readFrame, inputs, writeVars, closeVars, histVars, ConnInv
<1>2. CASE Process
    <2>1. ctx' \in [Requests -> {"none", "live", "ended"}] /\ \A r \in Requests : ctx'[r] = "live" => ctx[r] = "live"
        BY <1>1, <1>2 DEF Process, handleCancel, ConnTypeOK
    <2>2. pkt' \in Requests => pkt' = pkt /\ rpc' = "reserve"
        BY <1>2, KindsAssumption DEF Process
    <2>3. rpc' = "reserve" => pkt \in Requests /\ pkt' = pkt
        BY <1>2 DEF Process
    <2> QED
        BY <1>1, <2>1, <2>2, <2>3, QuietStep DEF ConnTypeOK, BeforeSweep
<1>3. CASE Handshake \/ ReaderSend
    <2>1. pkt' \notin Requests /\ rpc' # "reserve" /\ UNCHANGED ctx
        BY <1>1, <1>3 DEF Handshake, ReaderSend, PacketOK
    <2> QED
        BY <1>1, <2>1, QuietStep DEF ConnTypeOK, BeforeSweep
<1> QED
    BY <1>2, <1>3

\* reserve: the table had room for one more, so there is room for one more goroutine.
LEMMA ReserveConnInv == ConnInv /\ Reserve => ConnInv'
<1> SUFFICES ASSUME ConnInv, Reserve PROVE ConnInv'
    OBVIOUS
<1> DEFINE i == idOf[pkt]
<1>1. ConnTypeOK /\ PacketOK /\ TableOK /\ ExactOK /\ BoundOK /\ LiveOK /\ SweptOK /\ PoliteOK
    BY DEF ConnInv
<1>2. pkt \in Requests /\ hpc[pkt] = "none" /\ i \in Ids /\ ~Running(pkt) /\ pkt # NONE
    BY <1>1, OptionsAssumption DEF Reserve, PacketOK, ConnTypeOK, Running
<1>3. UNCHANGED <<maxInflight, idOf, answered, clpc, polite>> /\ pkt' \notin Requests /\ (BeforeSweep' <=> BeforeSweep)
    BY KindsAssumption DEF Reserve, readFrame, inputs, writeVars, closeVars, BeforeSweep
<1>4. CASE ~(inflight[i] = NONE /\ Cardinality(Reserved) < maxInflight)
    <2>1. UNCHANGED <<inflight, ctx, hpc, afterSweep>> /\ rpc' = "close"
        BY <1>4 DEF Reserve
    <2> QED
        BY <1>1, <1>3, <2>1, QuietStep DEF ConnTypeOK, BeforeSweep
<1>5. CASE inflight[i] = NONE /\ Cardinality(Reserved) < maxInflight
    <2>1. /\ inflight' = [inflight EXCEPT ![i] = pkt] /\ ctx' = [ctx EXCEPT ![pkt] = "live"]
          /\ hpc' = [hpc EXCEPT ![pkt] = "dispatch"] /\ rpc' = "read"
          /\ afterSweep' = IF BeforeSweep THEN afterSweep ELSE afterSweep \cup {pkt}
        BY <1>5 DEF Reserve, BeforeSweep
    <2>2. /\ inflight'[i] = pkt /\ ctx'[pkt] = "live" /\ hpc'[pkt] = "dispatch"
          /\ \A k \in Ids : k # i => inflight'[k] = inflight[k]
          /\ \A r \in Requests : r # pkt => ctx'[r] = ctx[r] /\ hpc'[r] = hpc[r]
        BY <1>1, <1>2, <2>1 DEF ConnTypeOK
    <2>3. ConnTypeOK'
        BY <1>1, <1>2, <1>3, <2>1 DEF ConnTypeOK, HandlerPlaces
    <2>4. PacketOK' /\ PoliteOK'
        BY <1>3, <2>1 DEF PacketOK, PoliteOK
    <2>5. hpc'[pkt] \in RunningPlaces /\ \A r \in Requests : r # pkt => (hpc'[r] \in RunningPlaces <=> Running(r))
        BY <2>2 DEF Running, RunningPlaces
    <2>6. TableOK'
        <3> SUFFICES ASSUME NEW k \in Ids, inflight'[k] # NONE
                     PROVE  hpc'[inflight'[k]] \in RunningPlaces /\ idOf'[inflight'[k]] = k
            BY DEF TableOK, Running, RunningPlaces
        <3>1. CASE k = i
            BY <1>3, <2>2, <2>5, <3>1
        <3>2. CASE k # i
            <4>1. inflight'[k] = inflight[k] /\ inflight[k] \in Requests /\ Running(inflight[k]) /\ idOf[inflight[k]] = k
                BY <1>1, <2>2, <3>2 DEF TableOK, ConnTypeOK
            <4> QED
                BY <1>2, <1>3, <2>5, <4>1
        <3> QED
            BY <3>1, <3>2
    <2>7. \A r \in Requests : r # pkt /\ inflight[idOf[r]] = r => inflight'[idOf[r]] = r
        BY <1>1, <1>5, <2>2, OptionsAssumption DEF ConnTypeOK
    <2>8. ExactOK' /\ LiveOK'
        BY <1>1, <1>3, <2>2, <2>5, <2>7 DEF ExactOK, LiveOK, Running, RunningPlaces
    <2>9. SweptOK'
        BY <1>1, <1>3, <2>1, <2>2 DEF SweptOK
    <2>10. BoundOK'
        <3> SUFFICES ASSUME BeforeSweep PROVE Cardinality(RunningSet') <= maxInflight
            BY <1>3 DEF BoundOK
        <3>1. RunningSet' = RunningSet \cup {pkt} /\ pkt \notin RunningSet
            BY <1>2, <2>5 DEF RunningSet, Running, RunningPlaces
        <3>2. /\ IsFiniteSet(RunningSet) /\ Cardinality(RunningSet) < maxInflight
              /\ Cardinality(RunningSet) \in Nat /\ maxInflight \in Nat
            BY <1>1, <1>5, ReservedIsRunning DEF ConnTypeOK
        <3>3. Cardinality(RunningSet \cup {pkt}) = Cardinality(RunningSet) + 1
            BY <3>1, <3>2, FS_AddElement
        <3> QED
            BY <3>1, <3>2, <3>3
    <2> QED
        BY <2>3, <2>4, <2>6, <2>8, <2>9, <2>10 DEF ConnInv
<1> QED
    BY <1>4, <1>5

\* release frees the ID of the request that ends.  Until the sweep it is that request
\* which holds it; afterwards it may be another, which then has no entry.
LEMMA ReleaseConnInv == ASSUME ConnInv, NEW r \in Requests, Release(r) PROVE ConnInv'
<1> DEFINE i == idOf[r]
<1>1. ConnTypeOK /\ PacketOK /\ TableOK /\ ExactOK /\ BoundOK /\ LiveOK /\ SweptOK /\ PoliteOK
    BY DEF ConnInv
<1>2. UNCHANGED <<maxInflight, idOf, answered, clpc, polite, pkt, rpc, afterSweep>> /\ (BeforeSweep' <=> BeforeSweep)
    BY DEF Release, handlerFrame, inputs, readVars, writeVars, closeVars, histVars, BeforeSweep
<1>3. /\ inflight'[i] = NONE /\ hpc'[r] = "end" /\ ctx'[r] # "live" /\ i \in Ids /\ hpc[r] = "release"
      /\ \A k \in Ids : k # i => inflight'[k] = inflight[k]
      /\ \A s \in Requests : s # r => ctx'[s] = ctx[s] /\ hpc'[s] = hpc[s]
    BY <1>1 DEF Release, ConnTypeOK
<1>4. ConnTypeOK'
    BY <1>1, <1>2 DEF Release, ConnTypeOK, HandlerPlaces
<1>5. PacketOK'
    BY <1>1, <1>2, <1>3 DEF PacketOK
<1>6. Running(r) /\ ~Running(r)' /\ \A s \in Requests : s # r => (hpc'[s] \in RunningPlaces <=> Running(s))
    BY <1>3 DEF Running, RunningPlaces
<1>7. TableOK'
    <2> SUFFICES ASSUME NEW k \in Ids, inflight'[k] # NONE PROVE hpc'[inflight'[k]] \in RunningPlaces /\ idOf'[inflight'[k]] = k
        BY DEF TableOK, Running, RunningPlaces
    <2>1. k # i /\ inflight'[k] = inflight[k] /\ inflight[k] \in Requests /\ Running(inflight[k]) /\ idOf[inflight[k]] = k
        BY <1>1, <1>3 DEF TableOK, ConnTypeOK
    <2>2. inflight[k] # r
        BY <2>1
    <2> QED
        BY <1>2, <1>6, <2>1, <2>2
<1>8. ASSUME BeforeSweep PROVE \A s \in Requests : s # r /\ inflight[idOf[s]] = s => inflight'[idOf[s]] = s
    BY <1>1, <1>3, <1>6, <1>8 DEF ExactOK, ConnTypeOK
<1>9. ExactOK' /\ LiveOK'
    BY <1>1, <1>2, <1>3, <1>6, <1>8 DEF ExactOK, LiveOK, Running, RunningPlaces
<1>10. SweptOK'
    BY <1>1, <1>2, <1>3 DEF SweptOK
<1>11. BoundOK'
    <2> SUFFICES ASSUME BeforeSweep PROVE Cardinality(RunningSet') <= maxInflight
        BY <1>2 DEF BoundOK
    <2>1. RunningSet' \subseteq RunningSet
        BY <1>6 DEF RunningSet, Running, RunningPlaces
    <2>2. IsFiniteSet(RunningSet) /\ Cardinality(RunningSet) \in Nat /\ Cardinality(RunningSet) <= maxInflight
          /\ maxInflight \in Nat
        BY <1>1, ReservedIsRunning DEF BoundOK, ConnTypeOK
    <2>3. IsFiniteSet(RunningSet') /\ Cardinality(RunningSet') <= Cardinality(RunningSet)
        BY <2>1, <2>2, FS_Subset
    <2>4. Cardinality(RunningSet') \in Nat
        BY <2>3, FS_CardinalityType
    <2> QED
        BY <2>2, <2>3, <2>4
<1>12. PoliteOK'
    <2>1. Unanswered' = Unanswered
        BY <1>2, <1>3 DEF Unanswered
    <2> QED
        BY <1>1, <1>2, <2>1 DEF PoliteOK
<1> QED
    BY <1>4, <1>5, <1>7, <1>9, <1>10, <1>11, <1>12 DEF ConnInv

\* The sweep of Close.
LEMMA SweepConnInv == ConnInv /\ CloseCancel => ConnInv'
<1> SUFFICES ASSUME ConnInv, CloseCancel PROVE ConnInv'
    OBVIOUS
<1>1. ConnTypeOK /\ PacketOK /\ LiveOK /\ PoliteOK /\ BeforeSweep /\ ~BeforeSweep'
    BY DEF ConnInv, CloseCancel, BeforeSweep
<1>2. UNCHANGED <<maxInflight, idOf, answered, polite, pkt, rpc, afterSweep, hpc>> /\ inflight' = [i \in Ids |-> NONE]
    BY DEF CloseCancel, sweepFrame, inputs, readVars, writeVars, histVars
<1>3. ctx' \in [Requests -> {"none", "live", "ended"}] /\ \A r \in Requests : ctx'[r] # "live"
    BY <1>1 DEF CloseCancel, ConnTypeOK, LiveOK
<1>4. ConnTypeOK' /\ PacketOK'
    BY <1>1, <1>2, <1>3 DEF ConnTypeOK, PacketOK
<1>5. TableOK' /\ ExactOK' /\ BoundOK' /\ LiveOK' /\ SweptOK'
    BY <1>1, <1>2, <1>3 DEF TableOK, ExactOK, BoundOK, LiveOK, SweptOK
<1>6. PoliteOK'
    BY <1>1, <1>2 DEF PoliteOK, Unanswered
<1> QED
    BY <1>4, <1>5, <1>6 DEF ConnInv

\* A request's goroutine up to its release, and the end of its context.
LEMMA HandleConnInv ==
    ASSUME ConnInv, NEW r \in Requests, Dispatch(r) \/ Respond(r) \/ Expire(r)
    PROVE  ConnInv'
<1>1. ConnTypeOK /\ PacketOK
    BY DEF ConnInv
<1>2. UNCHANGED <<maxInflight, idOf, inflight, answered, clpc, polite, pkt, rpc, afterSweep>>
    BY DEF Dispatch, Respond, Expire, handlerFrame, inputs, readVars, writeVars, closeVars, histVars
<1>3. ctx' \in [Requests -> {"none", "live", "ended"}] /\ \A s \in Requests : ctx'[s] = "live" => ctx[s] = "live"
    BY <1>1 DEF Dispatch, Respond, Expire, ConnTypeOK
<1>4. /\ hpc' \in [Requests -> HandlerPlaces]
      /\ \A s \in Requests : \/ hpc'[s] = hpc[s]
                             \/ hpc[s] \in {"dispatch", "send"} /\ hpc'[s] \in {"send", "release", "close"}
    BY <1>1 DEF Dispatch, Respond, Expire, ConnTypeOK, HandlerPlaces
<1> QED
    BY <1>1, <1>2, <1>3, <1>4, QuietStep DEF PacketOK, BeforeSweep, RunningPlaces

\* The write loop, Kick, GoAway and Notify, and the rest of Close.
LEMMA OthersConnInv ==
    ASSUME ConnInv, \/ WriteLoop \/ CloseDone \/ CloseSocket \/ Disconnected \/ UNCHANGED vars
                    \/ \E a \in Callers : CloseBegin(a)
                    \/ \E k \in Kickers : KickCheck(k) \/ Kick(k)
                    \/ \E p \in Pushers : PushCheck(p) \/ PushSend(p)
    PROVE  ConnInv'
<1>1. ConnTypeOK /\ PacketOK
    BY DEF ConnInv
<1>2. UNCHANGED <<maxInflight, idOf, inflight, ctx, hpc, polite, pkt, rpc, afterSweep>> /\ answered \subseteq answered'
    BY DEF WriteLoop, WriteSelect, Write, writeFrame, CloseBegin, CloseDone, CloseSocket, Disconnected, sweepFrame,
           KickCheck, Kick, KickStore, KickSend, KickSync, KickWait, PushCheck, PushSend, kickFrame, vars,
           inputs, readVars, writeVars, closeVars, histVars
<1>3. BeforeSweep' = BeforeSweep
    BY DEF WriteLoop, WriteSelect, Write, writeFrame, CloseBegin, CloseDone, CloseSocket, Disconnected,
           KickCheck, Kick, KickStore, KickSend, KickSync, KickWait, PushCheck, PushSend, kickFrame, vars,
           closeVars, BeforeSweep
<1> QED
    BY <1>1, <1>2, <1>3, QuietStep DEF ConnTypeOK, PacketOK

\* A call of Close returns: a request goes on to release its ID.
LEMMA CloseReturnConnInv ==
    ASSUME ConnInv, NEW a \in Callers, CloseReturn(a)
    PROVE  ConnInv'
<1>1. ConnTypeOK /\ PacketOK
    BY DEF ConnInv
<1>2. UNCHANGED <<maxInflight, idOf, inflight, ctx, clpc, polite, pkt, afterSweep, answered>>
    BY DEF CloseReturn, inputs, histVars
<1>3. /\ hpc' \in [Requests -> HandlerPlaces]
      /\ \A r \in Requests : hpc'[r] = hpc[r] \/ (hpc[r] = "close" /\ hpc'[r] = "release")
    BY <1>1, KindsAssumption DEF CloseReturn, Leave, InClose, ConnTypeOK, HandlerPlaces
<1>4. rpc' = rpc \/ (rpc \in {"close", "heartbeatClose"} /\ rpc' \in {"end", "read"})
    BY KindsAssumption DEF CloseReturn, Leave, InClose
<1> QED
    BY <1>1, <1>2, <1>3, <1>4, QuietStep DEF ConnTypeOK, PacketOK, BeforeSweep, RunningPlaces

\* Every behaviour of a connection stays within ConnInv.
LEMMA ConnInvariant == Spec => []ConnInv
<1>1. Init => ConnInv
    <2> SUFFICES ASSUME Init PROVE ConnInv
        OBVIOUS
    <2>1. ConnTypeOK /\ pkt \notin Requests /\ rpc = "read"
        BY OptionsAssumption, KindsAssumption DEF Init, ConnTypeOK, HandlerPlaces
    <2>2. PacketOK /\ PoliteOK
        BY <2>1 DEF PacketOK, PoliteOK
    <2>3. \A r \in Requests : ~Running(r) /\ ctx[r] # "live"
        BY DEF Init, Running
    <2>4. TableOK /\ ExactOK /\ LiveOK /\ SweptOK
        BY <2>3 DEF Init, TableOK, ExactOK, LiveOK, SweptOK
    <2>5. RunningSet = {}
        BY <2>3 DEF RunningSet
    <2>6. BoundOK
        BY <2>1, <2>5, FS_EmptySet DEF BoundOK, ConnTypeOK
    <2> QED
        BY <2>1, <2>2, <2>4, <2>6 DEF ConnInv
<1>2. ConnInv /\ [Next]_vars => ConnInv'
    BY ReadConnInv, RunConnInv, ReserveConnInv, ReleaseConnInv, SweepConnInv, HandleConnInv, OthersConnInv,
       CloseReturnConnInv DEF Next, Run, Handle, Close
<1> QED
    BY <1>1, <1>2, PTL DEF Spec

\* Until Close, the in-flight table is the requests being handled and keeps to
\* MaxInflight (reserve, release, handleRequest).
THEOREM TableIsExact == Spec => []InflightExact
<1>1. ConnInv => InflightExact
    <2> SUFFICES ASSUME ConnInv, clpc = "open"
                 PROVE  /\ \A r \in Requests : Running(r) <=> inflight[idOf[r]] = r
                        /\ Cardinality({r \in Requests : Running(r)}) <= maxInflight
        BY DEF InflightExact
    <2>1. ConnTypeOK /\ TableOK /\ ExactOK /\ BoundOK /\ BeforeSweep
        BY DEF ConnInv, BeforeSweep
    <2>2. ASSUME NEW r \in Requests PROVE Running(r) <=> inflight[idOf[r]] = r
        BY <2>1, OptionsAssumption DEF ConnTypeOK, TableOK, ExactOK
    <2> QED
        BY <2>1, <2>2 DEF BoundOK, RunningSet
<1> QED
    BY <1>1, ConnInvariant, PTL

\* After the sweep of Close only requests that were reserved behind it have a live
\* context (Close, reserve).
THEOREM SweepEndsRequests == Spec => []SweptRequestsEnd
<1>1. ConnInv => SweptRequestsEnd
    BY DEF ConnInv, SweptOK, SweptRequestsEnd, BeforeSweep
<1> QED
    BY <1>1, ConnInvariant, PTL

\* A polite client is refused only while a request whose response it already has is
\* still on its way to release (handleRequest, reserve, release).
THEOREM RefusalsAreEarly == Spec => RefusedBeforeRelease
<1>1. ConnInv /\ [Next]_vars => (rpc = "reserve" /\ rpc' = "close" /\ polite => \E r \in answered : Running(r))
    <2> SUFFICES ASSUME ConnInv, [Next]_vars, rpc = "reserve", rpc' = "close", polite
                 PROVE  \E r \in answered : Running(r)
        OBVIOUS
    <2>1. ConnTypeOK /\ PacketOK /\ TableOK /\ PoliteOK
        BY DEF ConnInv
    <2>2. Reserve
        BY KindsAssumption
           DEF Next, Run, Read, Process, Handshake, ReaderSend, WriteLoop, WriteSelect, Write, writeFrame, Close,
               CloseBegin, CloseCancel, CloseDone, CloseSocket, sweepFrame, Disconnected, Handle, Dispatch, Respond,
               Release, Expire, handlerFrame, KickCheck, Kick, KickStore, KickSend, KickSync, KickWait, PushCheck,
               PushSend, kickFrame, CloseReturn, Leave, InClose, vars, readVars
    <2>3. (pkt \in Requests /\ idOf[pkt] \in Ids /\ inflight[idOf[pkt]] # NONE) \/ ~(Cardinality(Reserved) < maxInflight)
        BY <2>1, <2>2 DEF Reserve, PacketOK, ConnTypeOK
    <2>4. /\ Cardinality(Unanswered) < maxInflight
          /\ \A r \in Unanswered : idOf[r] # idOf[pkt]
        BY <2>1 DEF PacketOK, PoliteOK
    <2>5. \A r \in Requests : Running(r) /\ r \notin Unanswered => r \in answered
        BY DEF Running, Unanswered
    <2>6. CASE pkt \in Requests /\ idOf[pkt] \in Ids /\ inflight[idOf[pkt]] # NONE
        BY <2>1, <2>4, <2>5, <2>6 DEF TableOK, ConnTypeOK
    <2>7. CASE ~(Cardinality(Reserved) < maxInflight)
        <3> SUFFICES ASSUME \A r \in Requests : Running(r) => r \in Unanswered PROVE FALSE
            BY <2>5
        <3> DEFINE f == [i \in Reserved |-> inflight[i]]
        <3>1. \A i \in Reserved : inflight[i] \in Unanswered /\ idOf[inflight[i]] = i
            BY <2>1 DEF Reserved, ConnTypeOK, TableOK
        <3>2. f \in Injection(Reserved, Unanswered)
            BY <3>1 DEF Injection, IsInjective
        <3>3. IsFiniteSet(Unanswered)
            BY OptionsAssumption, FS_Subset DEF Unanswered
        <3>4. IsFiniteSet(Reserved) /\ Cardinality(Reserved) <= Cardinality(Unanswered)
            BY <3>2, <3>3, FS_Injection
        <3>5. Cardinality(Reserved) \in Nat /\ Cardinality(Unanswered) \in Nat /\ maxInflight \in Nat
            BY <2>1, <3>3, <3>4, FS_CardinalityType DEF ConnTypeOK
        <3> QED
            BY <2>4, <2>7, <3>4, <3>5
    <2> QED
        BY <2>3, <2>6, <2>7
<1> QED
    BY <1>1, ConnInvariant, PTL DEF Spec, RefusedBeforeRelease

(***************************************************************************)
(* Close and the callback behind it.                                       *)
(***************************************************************************)

ClosePlaces == {"open", "cancel", "done", "socket", "closed"}
ReaderPlaces == {"read", "process", "handshake", "handshakeSend", "heartbeat", "heartbeatClose", "reserve", "close", "end"}
KickPlaces == {"idle", "store", "send", "sync", "close", "wait", "end"}

PlacesOK ==
    /\ clpc \in ClosePlaces /\ rpc \in ReaderPlaces /\ wpc \in {"select", "write", "close", "end"}
    /\ hpc \in [Requests -> HandlerPlaces] /\ kpc \in [Kickers -> KickPlaces]

\* What Close has already closed.
ClosedOK ==
    /\ done <=> clpc \in {"socket", "closed"}
    /\ ~socket <=> clpc = "closed"

\* Who has run Close stays in it until it starts the callback, which runs once.
CallbackOK ==
    /\ clpc = "open" => closer = "none" /\ disconnects = 0 /\ disc = "none"
    /\ clpc # "open" => \/ closer \in InClose /\ disconnects = 0 /\ disc = "none"
                        \/ clpc = "closed" /\ closer = "none" /\ disconnects = 1 /\ disc \in {"running", "ended"}

\* Nobody goes on behind Close before the socket is closed; the writer may see done.
BehindClose ==
    /\ rpc = "end" => clpc = "closed"
    /\ wpc = "end" => clpc \in {"socket", "closed"}
    /\ \A k \in Kickers : kpc[k] = "wait" => clpc = "closed"

CloseInv == PlacesOK /\ ClosedOK /\ CallbackOK /\ BehindClose

\* What CloseCompletes promises, without the promise that it comes: the callback runs once
\* at most, behind the close of the socket, and as long as it has not been started the
\* goroutine that will start it is still in Close.
CallbackRunsOnce ==
    /\ disconnects <= 1 /\ (disc # "none" <=> disconnects = 1)
    /\ disc # "none" => done /\ ~socket
    /\ clpc # "open" /\ disc = "none" => closer \in InClose
    /\ rpc = "end" => done /\ ~socket
    /\ wpc = "end" => done
    /\ \A k \in Kickers : kpc[k] = "wait" => done /\ ~socket

\* The steps outside Close leave those who are in it there.
LEMMA OutsideClose ==
    ASSUME CloseInv, UNCHANGED closeVars, PlacesOK',
           rpc \in {"close", "heartbeatClose"} => rpc' = rpc, wpc = "close" => wpc' = wpc,
           \A r \in Requests : hpc[r] = "close" => hpc'[r] = "close",
           \A k \in Kickers : kpc[k] = "close" => kpc'[k] = "close",
           rpc' = "end" => rpc = "end", wpc' = "end" => wpc = "end" \/ done,
           \A k \in Kickers : kpc'[k] = "wait" => kpc[k] = "wait"
    PROVE  CloseInv'
<1>1. \A a : a \in InClose => a \in InClose'
    BY DEF InClose, Callers
<1>2. /\ clpc' = clpc /\ closer' = closer /\ done' = done /\ socket' = socket
      /\ disconnects' = disconnects /\ disc' = disc
    BY DEF closeVars
<1>3. CallbackOK'
    BY <1>1, <1>2 DEF CloseInv, CallbackOK
<1>4. ClosedOK' /\ BehindClose'
    BY <1>2 DEF CloseInv, ClosedOK, BehindClose
<1> QED
    BY <1>3, <1>4 DEF CloseInv

\* Every step keeps what is known of Close.
LEMMA NextCloseInv ==
    ASSUME CloseInv, ConnInv, [Next]_vars
    PROVE  CloseInv'
<1>0. PlacesOK /\ ClosedOK /\ CallbackOK /\ BehindClose
    BY DEF CloseInv
<1>1. CASE Read \/ Process \/ Handshake \/ ReaderSend
    <2>1. /\ UNCHANGED closeVars /\ wpc' = wpc /\ hpc' = hpc /\ kpc' = kpc
          /\ rpc' \in {"read", "process", "handshake", "handshakeSend", "heartbeat", "heartbeatClose", "reserve", "close"}
          /\ rpc \notin {"close", "heartbeatClose"}
        BY <1>1 DEF Read, Process, Handshake, ReaderSend, readFrame, writeVars
    <2>2. PlacesOK'
        BY <1>0, <2>1 DEF PlacesOK, ReaderPlaces, closeVars
    <2> QED
        BY <2>1, <2>2, OutsideClose
<1>2. CASE Reserve
    <2>1. /\ UNCHANGED closeVars /\ wpc' = wpc /\ kpc' = kpc /\ rpc' \in {"read", "close"} /\ rpc = "reserve"
          /\ (hpc' = hpc \/ hpc' = [hpc EXCEPT ![pkt] = "dispatch"])
        BY <1>2 DEF Reserve, readFrame, writeVars
    <2>2. PlacesOK'
        BY <1>0, <2>1 DEF PlacesOK, ReaderPlaces, HandlerPlaces, closeVars
    <2>3. \A r \in Requests : hpc[r] = "close" => hpc'[r] = "close"
        <3>1. hpc[pkt] = "none" /\ hpc \in [Requests -> HandlerPlaces]
            BY <1>0, <2>1 DEF ConnInv, PacketOK, PlacesOK
        <3> QED
            BY <2>1, <3>1
    <2> QED
        BY <2>1, <2>2, <2>3, OutsideClose
<1>3. ASSUME NEW r \in Requests, Expire(r) \/ Handle(r)
      PROVE  CloseInv'
    <2>1. /\ UNCHANGED closeVars /\ wpc' = wpc /\ kpc' = kpc /\ rpc' = rpc
          /\ \/ hpc' = hpc
             \/ hpc[r] # "close" /\ \E h \in {"send", "release", "close", "end"} : hpc' = [hpc EXCEPT ![r] = h]
        BY <1>3 DEF Expire, Handle, Dispatch, Respond, Release, handlerFrame, writeVars, readVars
    <2>2. PlacesOK'
        BY <1>0, <2>1 DEF PlacesOK, HandlerPlaces, closeVars
    <2>3. \A q \in Requests : hpc[q] = "close" => hpc'[q] = "close"
        BY <1>0, <2>1 DEF PlacesOK
    <2> QED
        BY <2>1, <2>2, <2>3, OutsideClose
<1>4. CASE WriteLoop
    <2>1. /\ UNCHANGED closeVars /\ rpc' = rpc /\ kpc' = kpc /\ hpc' = hpc /\ wpc \in {"select", "write"}
          /\ wpc' \in {"select", "write", "close", "end"} /\ (wpc' = "end" => done)
        BY <1>4 DEF WriteLoop, WriteSelect, Write, writeFrame, readVars
    <2>2. PlacesOK'
        BY <1>0, <2>1 DEF PlacesOK, closeVars
    <2> QED
        BY <2>1, <2>2, OutsideClose
<1>5. ASSUME NEW k \in Kickers, KickCheck(k) \/ Kick(k)
      PROVE  CloseInv'
    <2>1. /\ UNCHANGED closeVars /\ rpc' = rpc /\ wpc' = wpc /\ hpc' = hpc /\ kpc[k] # "close"
          /\ \E h \in {"store", "send", "sync", "close", "end"} : kpc' = [kpc EXCEPT ![k] = h]
        BY <1>5 DEF KickCheck, Kick, KickStore, KickSend, KickSync, KickWait, kickFrame, readVars, writeVars
    <2>2. PlacesOK'
        BY <1>0, <2>1 DEF PlacesOK, KickPlaces, closeVars
    <2>3. \A l \in Kickers : /\ kpc[l] = "close" => kpc'[l] = "close"
                             /\ kpc'[l] = "wait" => kpc[l] = "wait"
        BY <1>0, <2>1 DEF PlacesOK
    <2> QED
        BY <2>1, <2>2, <2>3, OutsideClose
<1>6. CASE UNCHANGED vars \/ \E p \in Pushers : PushCheck(p) \/ PushSend(p)
    <2>1. UNCHANGED <<closeVars, rpc, wpc, hpc, kpc>>
        BY <1>6 DEF PushCheck, PushSend, kickFrame, readVars, writeVars, vars
    <2>2. PlacesOK'
        BY <1>0, <2>1 DEF PlacesOK, closeVars
    <2> QED
        BY <2>1, <2>2, OutsideClose
<1>7. ASSUME NEW a \in Callers, CloseBegin(a)
      PROVE  CloseInv'
    <2>1. /\ a \in InClose /\ clpc = "open" /\ clpc' = "cancel" /\ closer' = a
          /\ UNCHANGED <<rpc, wpc, hpc, kpc, done, socket, disconnects, disc>>
        BY <1>7 DEF CloseBegin, sweepFrame, readVars, writeVars
    <2>2. a \in InClose' /\ PlacesOK'
        BY <1>0, <2>1 DEF InClose, Callers, PlacesOK, ClosePlaces
    <2> QED
        BY <1>0, <2>1, <2>2 DEF CloseInv, ClosedOK, CallbackOK, BehindClose
<1>8. CASE CloseCancel \/ CloseDone \/ CloseSocket
    <2>1. /\ UNCHANGED <<rpc, wpc, hpc, kpc, closer, disconnects, disc>>
          /\ \/ clpc = "cancel" /\ clpc' = "done" /\ UNCHANGED <<done, socket>>
             \/ clpc = "done" /\ clpc' = "socket" /\ done' /\ UNCHANGED socket
             \/ clpc = "socket" /\ clpc' = "closed" /\ ~socket' /\ UNCHANGED done
        BY <1>8 DEF CloseCancel, CloseDone, CloseSocket, sweepFrame, readVars, writeVars
    <2>2. InClose' = InClose
        BY <2>1 DEF InClose, Callers
    <2>3. PlacesOK'
        BY <1>0, <2>1 DEF PlacesOK, ClosePlaces
    <2>4. ClosedOK'
        <3>1. CASE clpc = "cancel" /\ clpc' = "done" /\ UNCHANGED <<done, socket>>
            BY <1>0, <3>1 DEF ClosedOK
        <3>2. CASE clpc = "done" /\ clpc' = "socket" /\ done' /\ UNCHANGED socket
            BY <1>0, <3>2 DEF ClosedOK
        <3>3. CASE clpc = "socket" /\ clpc' = "closed" /\ ~socket' /\ UNCHANGED done
            BY <1>0, <3>3 DEF ClosedOK
        <3> QED
            BY <2>1, <3>1, <3>2, <3>3
    <2> QED
        BY <1>0, <2>1, <2>2, <2>3, <2>4 DEF CloseInv, CallbackOK, BehindClose
<1>9. ASSUME NEW a \in Callers, CloseReturn(a)
      PROVE  CloseInv'
    <2>1. /\ a \in InClose /\ clpc = "closed" /\ Leave(a) /\ UNCHANGED <<clpc, done, socket>>
          /\ IF a = closer THEN disc' = "running" /\ disconnects' = disconnects + 1 /\ closer' = "none"
                           ELSE UNCHANGED <<disc, disconnects, closer>>
        BY <1>9 DEF CloseReturn
    <2>2. PlacesOK'
        BY <1>0, <2>1 DEF PlacesOK, ReaderPlaces, HandlerPlaces, KickPlaces, Leave
    <2>3. ClosedOK' /\ BehindClose'
        BY <1>0, <2>1 DEF ClosedOK, BehindClose
    <2>4. a # "none"
        BY KindsAssumption DEF Callers
    <2>5. CallbackOK'
        <3>1. CASE a = closer
            BY <1>0, <2>1, <2>4, <3>1 DEF CallbackOK
        <3>2. CASE a # closer
            <4>1. closer \in InClose => closer \in InClose'
                <5> SUFFICES ASSUME closer \in InClose PROVE closer \in InClose'
                    OBVIOUS
                <5>1. closer \in Callers /\ closer' = closer
                    BY <2>1, <3>2 DEF InClose
                <5>2. CASE closer = "reader"
                    BY <2>1, <3>2, <5>1, <5>2, KindsAssumption DEF InClose, Callers, Leave
                <5>3. CASE closer = "writer"
                    BY <2>1, <3>2, <5>1, <5>3, KindsAssumption DEF InClose, Callers, Leave
                <5>4. CASE closer \in Requests
                    BY <2>1, <3>2, <5>1, <5>4, KindsAssumption DEF InClose, Callers, Leave
                <5>5. CASE closer \in Kickers
                    BY <2>1, <3>2, <5>1, <5>5, KindsAssumption DEF InClose, Callers, Leave
                <5> QED
                    BY <5>1, <5>2, <5>3, <5>4, <5>5 DEF Callers
            <4>2. closer' = closer
                BY <2>1, <3>2
            <4> QED
                BY <1>0, <2>1, <3>2, <4>1, <4>2 DEF CallbackOK
        <3> QED
            BY <3>1, <3>2
    <2> QED
        BY <2>2, <2>3, <2>5 DEF CloseInv
<1>10. CASE Disconnected
    <2>1. /\ disc = "running" /\ disc' = "ended" /\ UNCHANGED <<rpc, wpc, hpc, kpc, clpc, closer, done, socket, disconnects>>
        BY <1>10 DEF Disconnected, sweepFrame, readVars, writeVars
    <2>2. PlacesOK' /\ ClosedOK' /\ BehindClose'
        BY <1>0, <2>1 DEF PlacesOK, ClosedOK, BehindClose
    <2>3. CallbackOK'
        BY <1>0, <2>1 DEF CallbackOK
    <2> QED
        BY <2>2, <2>3 DEF CloseInv
<1> QED
    BY <1>1, <1>2, <1>3, <1>4, <1>5, <1>6, <1>7, <1>8, <1>9, <1>10 DEF Next, Run, Close

\* However many goroutines call Close, one of them runs it to its end, and the callback
\* runs once at most and behind the close of the socket (Close, closeOnce, runDisconnect).
THEOREM CloseIsOnce == Spec => []CallbackRunsOnce
<1>1. Init => CloseInv
    <2> SUFFICES ASSUME Init PROVE CloseInv
        OBVIOUS
    <2>1. PlacesOK
        BY DEF Init, PlacesOK, ClosePlaces, ReaderPlaces, HandlerPlaces, KickPlaces
    <2>2. ClosedOK /\ CallbackOK /\ BehindClose
        BY DEF Init, ClosedOK, CallbackOK, BehindClose
    <2> QED
        BY <2>1, <2>2 DEF CloseInv
<1>2. CloseInv => CallbackRunsOnce
    BY DEF CloseInv, ClosedOK, CallbackOK, BehindClose, CallbackRunsOnce
<1> QED
    BY <1>1, <1>2, NextCloseInv, ConnInvariant, PTL DEF Spec
=============================================================================
