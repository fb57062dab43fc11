---------------------------- MODULE RequestHops ----------------------------
(***************************************************************************)
(* The RequestContext (facade/request_context.go) on its way: it is made   *)
(* where a request comes in, and cloned for each call a handler makes with *)
(* it, to an Actor of this node or through the cluster.  Its session and   *)
(* metadata are mutable, and a handler may change its own at any time.     *)
(***************************************************************************)
EXTENDS Naturals, Sequences, FiniteSetsExt

CONSTANTS MaxHops, MaxTicks,   \* bounds: contexts of one request, and the clock
          TicksPerMs,        \* the clock is finer than the milliseconds on the wire
          CallTimeout,       \* callTimeout of System, in ticks
          ClientTimeouts,    \* what clients ask for; 0 is nothing
          DefaultTimeout, MaxTimeout

ASSUME HopsAssumption ==
    /\ {MaxHops, MaxTicks, TicksPerMs, CallTimeout, DefaultTimeout, MaxTimeout} \subseteq Nat \ {0}
    /\ ClientTimeouts \subseteq Nat

ProtobufCodec == 1
JSONCodec == 2
BodyCodecs == {ProtobufCodec, JSONCodec}
DefaultCodec == ProtobufCodec   \* NewRegistry

VARIABLES
    ticks,
    hops,       \* the contexts: the one of the entry, then one per call
    heap,       \* the mutable state of each: who has changed it
    underWay,   \* underWay messages
    returned,   \* the functions that have returned: their deferred cancel has run
    hungUp      \* the client cancelled, or closed its connection

hopVars == <<ticks, hops, heap, underWay, returned, hungUp>>

\* On the wire a deadline of 0 is none, and no clock is in the first millisecond.
HopsInit ==
    ticks = TicksPerMs /\ hops = <<>> /\ heap = <<>> /\ underWay = {} /\ returned = {} /\ hungUp = FALSE

\* A RequestContext; a deadline of 0 is none.  cell is its session and metadata, sent
\* what the caller's held when it was made, under the contexts whose cancel reaches it.
Context(kind, parent, requestId, codec, deadline, cell, sent, under) ==
    [kind |-> kind, parent |-> parent, requestId |-> requestId, codec |-> codec,
     deadline |-> deadline, cell |-> cell, sent |-> sent, under |-> under]
-----------------------------------------------------------------------------
\* Handler.timeout: what the header asks for, up to the maximum.
httpTimeout(asked) == Min({IF asked > 0 THEN asked ELSE DefaultTimeout, MaxTimeout})

\* Connection.requestContext: nothing asked for, or too much, is the maximum.
agpTimeout(asked) == IF asked = 0 \/ asked > MaxTimeout THEN MaxTimeout ELSE asked

\* nextRequestID skips 0; ValidatePacket refuses it in a Request, and a Notify has it.
RequestIds(transport) == IF transport = "http" THEN {1} ELSE {0, 1}

\* Session and cloneMetadata: a copy, that nobody has changed.
copySession == {}

Enter(context) ==
    /\ hops = <<>> /\ hops' = <<context>> /\ heap' = <<copySession>>
    /\ UNCHANGED <<ticks, underWay, returned, hungUp>>

\* ServeHTTP and requestContext.
EnterTransport ==
    \E transport \in {"http", "agp"}, asked \in ClientTimeouts, codec \in BodyCodecs :
    \E id \in RequestIds(transport) :
        LET timeout == IF transport = "http" THEN httpTimeout(asked) ELSE agpTimeout(asked)
        IN  Enter(Context("entry", 0, id, codec, ticks + timeout, 1, copySession, {}))

\* Code of the node itself begins with a context of its own, or none.
EnterInternal == Enter(Context("entry", 0, 0, 0, 0, 1, {}, {}))
-----------------------------------------------------------------------------
HopRuns(i) == i \in DOMAIN hops /\ i \notin returned
Cancelled(i) == \/ ({i} \cup hops[i].under) \cap returned # {}
                \/ hungUp /\ 1 \in {i} \cup hops[i].under
PastDeadline(c) == c.deadline # 0 /\ ticks >= c.deadline
Err(i) == Cancelled(i) \/ PastDeadline(hops[i])

\* ensureRequestContext sets the codec in the caller's context.
ensureRequestContext(c) == [c EXCEPT !.codec = IF @ = 0 THEN DefaultCodec ELSE @]

\* Mutant: the clone keeps the caller's session.
Clone_Shares(c, i, kind, deadline, under) ==
    Context(kind, i, c.requestId, c.codec, deadline, c.cell, heap[c.cell], under)

\* Clone copies the mutable state; the parent context is the caller's choice.
Clone(c, i, kind, deadline, under) ==
    Context(kind, i, c.requestId, c.codec, deadline, Len(hops) + 1, heap[c.cell], under)

Deadline(c) == IF c.deadline # 0 THEN c.deadline ELSE ticks + CallTimeout

\* newInvokeContext: cancelled with the caller's.
newInvokeContext(c, i) == Clone(c, i, "invoke", Deadline(c), hops[i].under \cup {i})

\* Mutant: a notification is cancelled with its caller.
newNotifyContext_Attached(c, i) == Clone(c, i, "notify", Deadline(c), hops[i].under \cup {i})

\* newNotifyContext: the deadline without the cancellation.
newNotifyContext(c, i) == Clone(c, i, "notify", Deadline(c), {})

\* typedMessage: the new context is in the mailbox of the callee.
Queue(context, held) == hops' = Append(hops, context) /\ heap' = Append(heap, held)

MayCall(i) == HopRuns(i) /\ Len(hops) + Cardinality(underWay) < MaxHops /\ ~Err(i)

\* Invoke or Notify of an Actor of this node.
CallLocal(i) ==
    /\ MayCall(i)
    /\ LET c == ensureRequestContext(hops[i]) IN
       \E context \in {newInvokeContext(c, i), newNotifyContext(c, i)} :
          /\ hops' = Append([hops EXCEPT ![i] = c], context)
          /\ heap' = Append(heap, heap[hops[i].cell])
    /\ UNCHANGED <<ticks, underWay, returned, hungUp>>

\* encodeClusterPayload: bytes as they are, JSON takes anything, Protobuf its messages.
encodeClusterPayload(codec, payload) == payload \in {"bytes", "message"} \/ codec = JSONCodec

\* cloneBytesMap and the copied session: what the caller's holds, not the maps.
cloneBytesMap(c) == heap[c.cell]

\* buildClusterMessage: the deadline goes over the wire in milliseconds.
buildMessage(c, i) ==
    LET caller == newInvokeContext(c, i)
    IN  [parent |-> i, requestId |-> c.requestId, codec |-> c.codec,
         deadline |-> caller.deadline \div TicksPerMs, held |-> cloneBytesMap(c)]

\* validateMessage looks at the codec as well.
ValidHop(m) == m.codec \in BodyCodecs

\* invokeRemote and notifyRemote.
CallRemote(i) ==
    /\ MayCall(i)
    /\ LET c == ensureRequestContext(hops[i])
           m == buildMessage(c, i) IN
       \E payload \in {"bytes", "message", "value"}, kind \in {"invoke", "notify"} :
          /\ hops' = [hops EXCEPT ![i] = c]
          /\ underWay' = IF encodeClusterPayload(c.codec, payload) /\ ValidHop(m)
                          THEN underWay \cup {[kind |-> kind, message |-> m]} ELSE underWay
    /\ UNCHANGED <<ticks, heap, returned, hungUp>>

\* messageContext: a deadline, and nothing that the caller could cancel.
messageContext(m) ==
    Context("cluster", m.parent, m.requestId, m.codec, m.deadline * TicksPerMs,
            Len(hops) + 1, m.held, {})

\* process at the other node.  Dispatch refuses what is too late.
Arrive(w) ==
    /\ w \in underWay /\ underWay' = underWay \ {w}
    /\ LET c == messageContext(w.message) IN
       IF PastDeadline(c) THEN UNCHANGED <<hops, heap>>
       ELSE Queue([c EXCEPT !.kind = w.kind, !.deadline = Deadline(c)], w.message.held)
    /\ UNCHANGED <<ticks, returned, hungUp>>
-----------------------------------------------------------------------------
\* A handler changes the session of its context (Set, Remove, Restore, Clear), or its
\* metadata.
ChangeState(i) ==
    /\ HopRuns(i) /\ heap' = [heap EXCEPT ![hops[i].cell] = @ \cup {i}]
    /\ UNCHANGED <<ticks, hops, underWay, returned, hungUp>>

\* A function waits for its Invokes, until its own context ends or the cluster fails.
Waits(i) ==
    ~Err(i) /\ \E j \in DOMAIN hops : hops[j].parent = i /\ hops[j].kind = "invoke" /\ HopRuns(j)
Return(i) ==
    /\ HopRuns(i) /\ ~Waits(i) /\ returned' = returned \cup {i}
    /\ UNCHANGED <<ticks, hops, heap, underWay, hungUp>>

HangUp ==
    /\ hops # <<>> /\ hops[1].deadline # 0 /\ ~hungUp /\ hungUp' = TRUE
    /\ UNCHANGED <<ticks, hops, heap, underWay, returned>>

TickPasses ==
    ticks < MaxTicks /\ ticks' = ticks + 1 /\ UNCHANGED <<hops, heap, underWay, returned, hungUp>>

HopsNext ==
    \/ EnterTransport \/ EnterInternal \/ HangUp \/ TickPasses
    \/ \E i \in DOMAIN hops : CallLocal(i) \/ CallRemote(i) \/ ChangeState(i) \/ Return(i)
    \/ \E w \in underWay : Arrive(w)

HopsSpec == HopsInit /\ [][HopsNext]_hopVars
-----------------------------------------------------------------------------
\* "RequestContext carries cancellation, transport and caller state through all transport,
\* cluster and Actor boundaries": every call has a deadline, and none later than its
\* caller's, so all hops share one budget; the codec and the request ID are those of the
\* entry; what it holds is what the caller held when it called, whatever either changes
\* afterwards; and a notification outlives the request that sent it (Clone,
\* newInvokeContext, newNotifyContext, buildClusterMessage, messageContext).
StateTravels ==
    \A i \in DOMAIN hops : LET c == hops[i] IN
        /\ i > 1 => /\ c.deadline > 0
                    /\ hops[c.parent].deadline # 0 => c.deadline <= hops[c.parent].deadline
                    /\ c.codec = hops[1].codec /\ c.requestId = hops[1].requestId
        /\ heap[c.cell] \ {i} = c.sent
        /\ c.kind = "notify" /\ Cancelled(i) => i \in returned
=============================================================================
