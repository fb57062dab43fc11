----------------------------- MODULE Connection -----------------------------
(***************************************************************************)
(* One AGP client connection of net/parser/connection.go: the Run loop     *)
(* that reads packets, a goroutine per request, the write loop behind its  *)
(* bounded queue, goroutines in Kick, GoAway or Notify, and Close, which   *)
(* any of them may call and the first one executes.                        *)
(*                                                                         *)
(* What the client sends is arbitrary.  A packet is a request, the ID of a *)
(* Cancel, or one of the strings below; "bad" is any packet that is        *)
(* refused for what it says (framing, codec, reserved method, version).    *)
(***************************************************************************)
EXTENDS Integers, Sequences, FiniteSets

CONSTANTS Requests,        \* the Request packets the client may send, and the
                           \* goroutines that handle them
          Ids,             \* request IDs
          Kickers,         \* goroutines that call Kick or GoAway
          Pushers,         \* goroutines that call Connection.Notify
          Limits,          \* the values of Options.MaxInflight
          WriteQueueSize,  \* Options.WriteQueueSize
          Casts,           \* the sets of requests and goroutines that meet
          NONE

ASSUME OptionsAssumption ==
    /\ Limits \subseteq Nat \ {0} /\ WriteQueueSize \in Nat \ {0}
    /\ IsFiniteSet(Requests) /\ NONE \notin Requests
    /\ Casts \subseteq SUBSET (Requests \cup Kickers \cup Pushers)

ControlPackets == {"handshake", "heartbeat", "notify", "bad"}

\* A packet has one kind, and a goroutine one part.
ASSUME KindsAssumption ==
    /\ Requests \cap (Ids \cup ControlPackets \cup {"none"}) = {}
    /\ Requests \cap Kickers = {} /\ {"reader", "writer", "none"} \cap (Requests \cup Kickers) = {}
OutPackets == Requests \cup Kickers \cup {"handshake", "heartbeat", "push"}

VARIABLES
    maxInflight,    \* Options.MaxInflight
    idOf,           \* the ID each Request carries
    cast,           \* who takes part: the requests sent, the goroutines that call
    state,          \* Connection.state
    rpc, pkt,       \* Run: where it is, the packet it has read
    inflight,       \* inflight: the request that holds each ID
    ctx,            \* the context of each request
    hpc,            \* where each request's goroutine is
    writeCh,        \* queued packets
    wpc, out,       \* writeLoop: where it is, the packet it is writing
    kpc,            \* where each Kick or GoAway is
    ppc,            \* where each Notify is
    clpc, closer,   \* progress of closeOnce, and who executes it
    done, socket,   \* done is open; the socket is open
    disconnects,    \* how often runDisconnect was started
    disc,           \* "none", "running" or "ended": the OnDisconnect callback
    answered,       \* history: the requests whose response was written
    polite,         \* history: the client has reused an ID, or gone on at the
                    \* limit, only after it had the response
    afterSweep      \* history: requests reserved after Close cancelled them all

inputs == <<maxInflight, idOf, cast>>
readVars == <<rpc, pkt>>
writeVars == <<wpc, out, answered>>
closeVars == <<clpc, closer, done, socket, disconnects, disc>>
histVars == <<polite, afterSweep>>
vars == <<inputs, state, readVars, inflight, ctx, hpc, writeCh, writeVars, kpc, ppc,
          closeVars, histVars>>

Init ==
    /\ maxInflight \in Limits /\ idOf \in [Requests -> Ids] /\ cast \in Casts
    /\ state = "Handshaking"
    /\ rpc = "read" /\ pkt = "none"
    /\ inflight = [i \in Ids |-> NONE]
    /\ ctx = [r \in Requests |-> "none"] /\ hpc = [r \in Requests |-> "none"]
    /\ writeCh = <<>> /\ wpc = "select" /\ out = "none"
    /\ kpc = [k \in Kickers |-> "idle"]
    /\ ppc = [p \in Pushers |-> "idle"]
    /\ clpc = "open" /\ closer = "none" /\ done = FALSE /\ socket = TRUE
    /\ disconnects = 0 /\ disc = "none"
    /\ answered = {} /\ polite = TRUE /\ afterSweep = {}

Reserved == {i \in Ids : inflight[i] # NONE}
Running(r) == hpc[r] \in {"dispatch", "send", "close", "release"}
Unanswered == {r \in Requests : hpc[r] # "none" /\ r \notin answered}
-----------------------------------------------------------------------------
\* enqueue: refused once done is closed, or when the queue is full.  Done may be
\* closed after it was looked at, and the packet is queued for nobody.
Enqueue(p) == Len(writeCh) < WriteQueueSize /\ writeCh' = Append(writeCh, p)
EnqueueFails == (done \/ Len(writeCh) >= WriteQueueSize) /\ UNCHANGED writeCh
-----------------------------------------------------------------------------
readFrame == <<inputs, writeVars, kpc, ppc, closeVars>>

\* ReadPacketBytes returns a packet, or an error: a deadline, the peer, Close.
Read ==
    /\ rpc = "read"
    /\ \/ socket /\ rpc' = "process"
          /\ pkt' \in Ids \cup ControlPackets \cup {r \in Requests \cap cast : hpc[r] = "none"}
       \/ rpc' = "close" /\ UNCHANGED pkt
    /\ polite' = (polite /\ (rpc' = "process" /\ pkt' \in Requests =>
                    /\ Cardinality(Unanswered) < maxInflight
                    /\ \A r \in Unanswered : idOf[r] # idOf[pkt']))
    /\ UNCHANGED <<readFrame, state, inflight, ctx, hpc, writeCh, afterSweep>>

\* handleCancel: the context that holds the ID ends.
handleCancel(i) == [r \in Requests |-> IF inflight[i] = r /\ ctx[r] = "live" THEN "ended" ELSE ctx[r]]

\* process reads the state once.
Process ==
    /\ rpc = "process"
    /\ rpc' = CASE pkt = "handshake" /\ state = "Handshaking" -> "handshake"
                [] pkt = "heartbeat" /\ state = "Ready" -> "heartbeat"
                [] pkt \in Requests /\ state = "Ready" -> "reserve"
                [] pkt \in Ids \cup {"notify"} /\ state = "Ready" -> "read"
                [] OTHER -> "close"
    /\ ctx' = IF rpc' = "read" /\ pkt \in Ids THEN handleCancel(pkt) ELSE ctx
    /\ pkt' = IF rpc' = "reserve" THEN pkt ELSE "none"
    /\ UNCHANGED <<readFrame, state, inflight, hpc, writeCh, histVars>>

\* handleHandshake: the connection is ready, whatever it was a moment ago.
Handshake ==
    /\ rpc = "handshake"
    /\ state' = "Ready" /\ rpc' = "handshakeSend"
    /\ UNCHANGED <<readFrame, pkt, inflight, ctx, hpc, writeCh, histVars>>

\* The reader's own sends.  A heartbeat that is malformed or cannot be answered
\* closes the connection and the loop reads on.
ReaderSend ==
    /\ \/ /\ rpc = "handshakeSend"
          /\ \/ Enqueue("handshake") /\ rpc' = "read"
             \/ EnqueueFails /\ rpc' = "close"
       \/ /\ rpc = "heartbeat"
          /\ \/ Enqueue("heartbeat") /\ rpc' = "read"
             \/ rpc' = "heartbeatClose" /\ UNCHANGED writeCh
    /\ UNCHANGED <<readFrame, state, pkt, inflight, ctx, hpc, histVars>>

\* Mutant: the limit is checked, a duplicate ID is not.
Reserve_Duplicates ==
    /\ rpc = "reserve" /\ Cardinality(Reserved) < maxInflight
    /\ inflight' = [inflight EXCEPT ![idOf[pkt]] = pkt]
    /\ ctx' = [ctx EXCEPT ![pkt] = "live"]
    /\ hpc' = [hpc EXCEPT ![pkt] = "dispatch"]
    /\ rpc' = "read" /\ pkt' = "none"
    /\ UNCHANGED <<readFrame, state, writeCh, histVars>>

\* reserve, then the request's goroutine.
Reserve ==
    /\ rpc = "reserve"
    /\ LET i == idOf[pkt] IN
       IF inflight[i] = NONE /\ Cardinality(Reserved) < maxInflight
       THEN /\ inflight' = [inflight EXCEPT ![i] = pkt]
            /\ ctx' = [ctx EXCEPT ![pkt] = "live"]
            /\ hpc' = [hpc EXCEPT ![pkt] = "dispatch"]
            /\ rpc' = "read"
            /\ afterSweep' = IF clpc \in {"open", "cancel"} THEN afterSweep
                             ELSE afterSweep \cup {pkt}
       ELSE /\ rpc' = "close"
            /\ UNCHANGED <<inflight, ctx, hpc, afterSweep>>
    /\ pkt' = "none"
    /\ UNCHANGED <<readFrame, state, writeCh, polite>>
-----------------------------------------------------------------------------
handlerFrame == <<inputs, state, readVars, writeVars, kpc, ppc, closeVars, histVars>>

\* The deadline of requestContext passes.
Expire(r) ==
    /\ ctx[r] = "live" /\ ctx' = [ctx EXCEPT ![r] = "ended"]
    /\ UNCHANGED <<handlerFrame, inflight, hpc, writeCh>>

\* Dispatch returns: a result, or the end of the context.
Dispatch(r) ==
    /\ hpc[r] = "dispatch" /\ hpc' = [hpc EXCEPT ![r] = "send"]
    /\ UNCHANGED <<handlerFrame, inflight, ctx, writeCh>>

Respond(r) ==
    /\ hpc[r] = "send"
    /\ \/ Enqueue(r) /\ hpc' = [hpc EXCEPT ![r] = "release"]
       \/ EnqueueFails /\ hpc' = [hpc EXCEPT ![r] = "close"]
    /\ UNCHANGED <<handlerFrame, inflight, ctx>>

\* Mutant: the ID is never released.
Release_KeepsId(r) ==
    /\ hpc[r] = "release" /\ hpc' = [hpc EXCEPT ![r] = "end"]
    /\ ctx' = [ctx EXCEPT ![r] = IF @ = "live" THEN "ended" ELSE @]
    /\ UNCHANGED <<handlerFrame, inflight, writeCh>>

\* The deferred cancel and release.
Release(r) ==
    /\ hpc[r] = "release" /\ hpc' = [hpc EXCEPT ![r] = "end"]
    /\ ctx' = [ctx EXCEPT ![r] = IF @ = "live" THEN "ended" ELSE @]
    /\ inflight' = [inflight EXCEPT ![idOf[r]] = NONE]
    /\ UNCHANGED <<handlerFrame, writeCh>>
-----------------------------------------------------------------------------
writeFrame == <<inputs, state, readVars, inflight, ctx, hpc, kpc, ppc, closeVars, histVars>>

\* writeLoop: with both channels ready, select takes either.
WriteSelect ==
    /\ wpc = "select"
    /\ \/ done /\ wpc' = "end" /\ UNCHANGED <<out, writeCh>>
       \/ writeCh # <<>> /\ wpc' = "write" /\ out' = Head(writeCh) /\ writeCh' = Tail(writeCh)
    /\ UNCHANGED <<writeFrame, answered>>

\* The packet reaches the socket, or encoding or writing it fails.
Write ==
    /\ wpc = "write"
    /\ \/ socket /\ wpc' = "select"
          /\ answered' = answered \cup ({out} \cap Requests)
       \/ wpc' = "close" /\ UNCHANGED answered
    /\ out' = "none"
    /\ UNCHANGED <<writeFrame, writeCh>>
-----------------------------------------------------------------------------
kickFrame == <<inputs, readVars, inflight, ctx, hpc, writeVars, closeVars, histVars>>

\* Kick and GoAway look at the state, then overwrite it.
KickCheck(k) ==
    /\ k \in cast /\ kpc[k] = "idle"
    /\ kpc' = [kpc EXCEPT ![k] = IF state = "Closed" THEN "end" ELSE "store"]
    /\ UNCHANGED <<kickFrame, state, writeCh, ppc>>

KickStore(k) ==
    /\ kpc[k] = "store" /\ kpc' = [kpc EXCEPT ![k] = "send"]
    /\ state' = "Draining"
    /\ UNCHANGED <<kickFrame, writeCh, ppc>>

\* sendSync: enqueue, then wait for the write, for done or for WriteTimeout.
\* What it reports is only returned to the caller.
KickSend(k) ==
    /\ kpc[k] = "send"
    /\ \/ Enqueue(k) /\ kpc' = [kpc EXCEPT ![k] = "sync"]
       \/ EnqueueFails /\ kpc' = [kpc EXCEPT ![k] = "close"]
    /\ UNCHANGED <<kickFrame, state, ppc>>

\* The timer may fire at any moment, so the other two cases are among these.
KickSync(k) ==
    /\ kpc[k] = "sync" /\ kpc' = [kpc EXCEPT ![k] = "close"]
    /\ UNCHANGED <<kickFrame, state, writeCh, ppc>>

\* waitDisconnect: the callback has ended, or the timer fires.
KickWait(k) ==
    /\ kpc[k] = "wait" /\ kpc' = [kpc EXCEPT ![k] = "end"]
    /\ UNCHANGED <<kickFrame, state, writeCh, ppc>>

\* Connection.Notify: the state is read before the packet is queued.
PushCheck(p) ==
    /\ p \in cast /\ ppc[p] = "idle"
    /\ ppc' = [ppc EXCEPT ![p] = IF state = "Ready" THEN "send" ELSE "end"]
    /\ UNCHANGED <<kickFrame, state, writeCh, kpc>>

PushSend(p) ==
    /\ ppc[p] = "send" /\ ppc' = [ppc EXCEPT ![p] = "end"]
    /\ Enqueue("push") \/ EnqueueFails
    /\ UNCHANGED <<kickFrame, state, kpc>>
-----------------------------------------------------------------------------
\* Close.  Who is in it, and where each caller goes on.
Callers == {"reader", "writer"} \cup Requests \cup Kickers
InClose == {a \in Callers :
              \/ a = "reader" /\ rpc \in {"close", "heartbeatClose"}
              \/ a = "writer" /\ wpc = "close"
              \/ a \in Requests /\ hpc[a] = "close"
              \/ a \in Kickers /\ kpc[a] = "close"}

Leave(a) ==
    /\ rpc' = IF a = "reader" THEN (IF rpc = "close" THEN "end" ELSE "read") ELSE rpc
    /\ wpc' = IF a = "writer" THEN "end" ELSE wpc
    /\ hpc' = [r \in Requests |-> IF a = r THEN "release" ELSE hpc[r]]
    /\ kpc' = [k \in Kickers |-> IF a = k THEN "wait" ELSE kpc[k]]

sweepFrame == <<inputs, readVars, hpc, writeCh, writeVars, kpc, ppc, histVars>>

CloseBegin(a) ==
    /\ a \in InClose /\ clpc = "open"
    /\ clpc' = "cancel" /\ closer' = a /\ state' = "Closed"
    /\ UNCHANGED <<sweepFrame, inflight, ctx, done, socket, disconnects, disc>>

\* Mutant: the table is cleared, the contexts are not cancelled.
CloseCancel_ClearsOnly ==
    /\ clpc = "cancel" /\ clpc' = "done"
    /\ inflight' = [i \in Ids |-> NONE]
    /\ UNCHANGED <<sweepFrame, state, ctx, closer, done, socket, disconnects, disc>>

\* Under inflightMu: cancel every request in flight and forget it.
CloseCancel ==
    /\ clpc = "cancel" /\ clpc' = "done"
    /\ ctx' = [r \in Requests |-> IF ctx[r] = "live" /\ inflight[idOf[r]] = r
                                  THEN "ended" ELSE ctx[r]]
    /\ inflight' = [i \in Ids |-> NONE]
    /\ UNCHANGED <<sweepFrame, state, closer, done, socket, disconnects, disc>>

\* Mutant: done is never closed.
CloseDone_Missing ==
    /\ clpc = "done" /\ clpc' = "socket"
    /\ UNCHANGED <<sweepFrame, state, inflight, ctx, closer, done, socket, disconnects, disc>>

CloseDone ==
    /\ clpc = "done" /\ clpc' = "socket" /\ done' = TRUE
    /\ UNCHANGED <<sweepFrame, state, inflight, ctx, closer, socket, disconnects, disc>>

\* conn.Close and manager.Remove; closeOnce is through.
CloseSocket ==
    /\ clpc = "socket" /\ clpc' = "closed" /\ socket' = FALSE
    /\ UNCHANGED <<sweepFrame, state, inflight, ctx, closer, done, disconnects, disc>>

\* Close returns; the call that executed it starts runDisconnect.
CloseReturn(a) ==
    /\ a \in InClose /\ clpc = "closed"
    /\ Leave(a)
    /\ IF a = closer
       THEN disc' = "running" /\ disconnects' = disconnects + 1 /\ closer' = "none"
       ELSE UNCHANGED <<disc, disconnects, closer>>
    /\ UNCHANGED <<inputs, state, pkt, inflight, ctx, writeCh, out, answered, ppc,
                   clpc, done, socket, histVars>>

\* The OnDisconnect callback returns or panics.
Disconnected ==
    /\ disc = "running" /\ disc' = "ended"
    /\ UNCHANGED <<state, sweepFrame, inflight, ctx, clpc, closer, done, socket, disconnects>>
-----------------------------------------------------------------------------
Run == Read \/ Process \/ Handshake \/ ReaderSend \/ Reserve
Handle(r) == Dispatch(r) \/ Respond(r) \/ Release(r)
WriteLoop == WriteSelect \/ Write
Kick(k) == KickStore(k) \/ KickSend(k) \/ KickSync(k) \/ KickWait(k)
Close == \/ \E a \in Callers : CloseBegin(a)
         \/ CloseCancel \/ CloseDone \/ CloseSocket

Next == \/ Run \/ WriteLoop \/ Close \/ Disconnected
        \/ \E r \in Requests : Handle(r) \/ Expire(r)
        \/ \E k \in Kickers : KickCheck(k) \/ Kick(k)
        \/ \E p \in Pushers : PushCheck(p) \/ PushSend(p)
        \/ \E a \in Callers : CloseReturn(a)

Spec == Init /\ [][Next]_vars

\* No goroutine blocks for ever: reads and writes have deadlines, Dispatch
\* returns when its context ends, OnDisconnect returns.
Fairness ==
    /\ WF_vars(Run) /\ WF_vars(WriteLoop) /\ WF_vars(Close) /\ WF_vars(Disconnected)
    /\ \A r \in Requests : WF_vars(Handle(r))
    /\ \A k \in Kickers : WF_vars(Kick(k))
    /\ \A a \in Callers : WF_vars(CloseReturn(a))
FairSpec == Spec /\ Fairness
-----------------------------------------------------------------------------
\* Until Close, the in-flight table is exactly the requests being handled, each
\* under its own ID, and there are at most maxInflight of them (reserve,
\* release, handleRequest).
InflightExact ==
    clpc = "open" =>
        /\ \A r \in Requests : Running(r) <=> inflight[idOf[r]] = r
        /\ Cardinality({r \in Requests : Running(r)}) <= maxInflight

\* Close cancels the requests that were in flight when it swept the table: none
\* of them runs on with a live context (Close).
SweptRequestsEnd ==
    clpc \notin {"open", "cancel"} =>
        \A r \in Requests \ afterSweep : ctx[r] # "live"

\* A client that keeps to the limit and reuses an ID only after its response is
\* refused by reserve for one reason only: a response is written before the
\* goroutine that sent it has released the ID (handleRequest, release).
RefusedBeforeRelease ==
    [][rpc = "reserve" /\ rpc' = "close" /\ polite =>
        \E r \in answered : Running(r)]_vars

\* Once Close is called everything ends: the reader, the writer, every request, every
\* Kick and GoAway, and the callback, which runs once, behind the close of the socket,
\* whoever calls Close and however often (Close, Run, writeLoop, handleRequest, Kick,
\* waitDisconnect, runDisconnect).
CloseCompletes ==
    (clpc # "open") ~>
        /\ rpc = "end" /\ wpc = "end" /\ \A r \in Requests : ~Running(r)
        /\ \A k \in Kickers : kpc[k] \in {"idle", "end"}
        /\ disc = "ended" /\ disconnects = 1 /\ ~socket
=============================================================================
