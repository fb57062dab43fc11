----------------------------- MODULE MethodCall -----------------------------
(***************************************************************************)
(* What happens to the data of one AGP call: the packet the codec accepts, *)
(* the method table, the mailbox that decodes the body, the adapted        *)
(* handler, and the answer that must pass the same codec, with a context   *)
(* that may end before the Actor has begun or while it runs, and an Actor  *)
(* that may be gone.  Bodies, metadata and messages are their sizes.       *)
(***************************************************************************)
EXTENDS Integers, FiniteSetsExt

CONSTANTS Sizes,            \* sizes of bodies, error messages and metadata values
          Default,          \* DefaultLimits
          ConfiguredLimits, \* the Limits an application sets; what is not positive is unset
          MethodIds         \* the business method IDs

LimitFields == {"packet", "body", "keys", "key", "value", "size"}
ASSUME MethodCallAssumption ==
    /\ Sizes \subseteq Nat /\ MethodIds \subseteq Nat \ 0..5
    /\ Default \in [LimitFields -> Nat \ {0}]
    /\ \A l \in ConfiguredLimits : l \in [LimitFields -> Int]

Protobuf == 1   \* the codec IDs
JSON == 2
SystemMethodKick == 5

VARIABLES
    mpc,        \* how far the connection is with the call
    limits,     \* Options.Limits
    entry,      \* the registered method: its ID and its handler's signature
    packet,     \* the packet that arrived
    wellFormed, \* its body is an encoding of the request type
    ended,      \* the code for the context: "no" while it has not ended
    box,        \* the message: "none", "queued", "invoke" (decoded), "done" or "lost"
    ran,        \* what the handler did, if it was called
    reply,      \* the InvokeResult of the Actor
    result,     \* the InvokeResult the connection has
    answer      \* the response packet

callVars == <<mpc, limits, entry, packet, wellFormed, ended, box, ran, reply, result, answer>>

Nothing == [kind |-> "none"]
-----------------------------------------------------------------------------
\* NormalizeLimits: each unset field on its own, and no body larger than a packet.
NormalizeLimits(l) ==
    LET set == [f \in DOMAIN Default |-> IF l[f] <= 0 THEN Default[f] ELSE l[f]]
    IN  [set EXCEPT !.body = Min({@, set.packet})]

MetadataSize(m) == MapThenSumSet(LAMBDA k : k + m[k], DOMAIN m)

\* Mutant: the request ID of a Request is not checked.
ValidatePacket_ZeroId(p, l) ==
    LET n == NormalizeLimits(l)
    IN  /\ p.codec \in {Protobuf, JSON}
        /\ p.kind \in {"request", "notify"} => p.methodId # 0
        /\ p.kind = "response" => p.requestId # 0
        /\ p.body <= n.body
        /\ Cardinality(DOMAIN p.metadata) <= n.keys
        /\ \A k \in DOMAIN p.metadata : k \in 1..n.key /\ p.metadata[k] <= n.value
        /\ MetadataSize(p.metadata) <= n.size

\* ValidatePacket.  A key of the metadata is its length.
ValidatePacket(p, l) ==
    LET n == NormalizeLimits(l)
    IN  /\ p.codec \in {Protobuf, JSON}
        /\ p.kind \in {"request", "notify"} => p.methodId # 0
        /\ p.kind \in {"request", "response"} => p.requestId # 0
        /\ p.body <= n.body
        /\ Cardinality(DOMAIN p.metadata) <= n.keys
        /\ \A k \in DOMAIN p.metadata : k \in 1..n.key /\ p.metadata[k] <= n.value
        /\ MetadataSize(p.metadata) <= n.size

\* proto.Marshal: the fields and at least one byte of envelope.
MarshalSize(p) == 1 + p.body + p.message + MetadataSize(p.metadata)

\* PacketCodec.Encode and Decode.
Encodes(p) == ValidatePacket(p, limits) /\ MarshalSize(p) <= NormalizeLimits(limits).packet
Decodes(p) == MarshalSize(p) <= NormalizeLimits(limits).packet /\ ValidatePacket(p, limits)
-----------------------------------------------------------------------------
\* Mutant: request and response need not be of the same sort.
adapt_Mixed(h) == h.pointers /\ h.returns \in {"response, error", "error"}

\* adapt: the signatures that can be registered; the returns give the message type.
adapt(h) ==
    /\ h.pointers
    /\ \/ h.returns = "response, error" /\ h.protoResponse = h.protobuf
       \/ h.returns = "error"
MsgType(h) == IF h.returns = "error" THEN "notify" ELSE "request"

Signatures == [pointers : BOOLEAN, protobuf : BOOLEAN, protoResponse : BOOLEAN,
               returns : {"response, error", "error", "other"}]

\* mailbox.Register in OnInit panics for anything adapt refuses.
RegisterMethod ==
    /\ mpc = "register"
    /\ \E h \in Signatures, id \in MethodIds :
          IF adapt(h) THEN mpc' = "read" /\ entry' = [id |-> id, handler |-> h]
                      ELSE mpc' = "panic" /\ UNCHANGED entry
    /\ UNCHANGED <<limits, packet, wellFormed, ended, box, ran, reply, result, answer>>

\* A packet arrives; what the codec refuses closes the connection.
Packets == [kind : {"request", "notify"}, codec : 0..2, requestId : {0, 1},
            methodId : {0} \cup MethodIds, body : Sizes, message : {0},
            metadata : UNION {[K -> Sizes] : K \in SUBSET {1, 2}}]
ReadPacket ==
    /\ mpc = "read"
    /\ \E p \in Packets, ok \in BOOLEAN :
          /\ packet' = p /\ wellFormed' = ok
          /\ mpc' = IF Decodes(p) THEN "dispatch" ELSE "refused"
    /\ UNCHANGED <<limits, entry, ended, box, ran, reply, result, answer>>
-----------------------------------------------------------------------------
\* An InvokeResult; its payload is a set with at most one element.
OKResult(payload) == [code |-> "OK", payload |-> payload, message |-> 0]
ErrorResult(code, size) == [code |-> code, payload |-> {}, message |-> size]

\* The deadline passes, or the client cancels.  A notification has only the deadline.
ContextEnds ==
    /\ ended = "no" /\ (mpc \in {"dispatch", "wait"} \/ box = "queued")
    /\ ended' \in {"DEADLINE_EXCEEDED"} \cup (IF packet.kind = "request" THEN {"CANCELLED"} ELSE {})
    /\ UNCHANGED <<mpc, limits, entry, packet, wellFormed, box, ran, reply, result, answer>>

\* Table.Dispatch, and InvokeTarget or NotifyTarget: the look-ups, the context, the
\* Actor that may be gone, and the push.  A REQUEST waits for the Actor.
DispatchMethod ==
    /\ mpc = "dispatch"
    /\ \/ /\ \/ packet.methodId # entry.id /\ result' = ErrorResult("NOT_FOUND", 0)
             \/ /\ packet.methodId = entry.id
                /\ \/ MsgType(entry.handler) # packet.kind /\ result' = ErrorResult("FAILED_PRECONDITION", 0)
                   \/ MsgType(entry.handler) = packet.kind
                      /\ result' = IF ended # "no" THEN ErrorResult(ended, 0) ELSE ErrorResult("NOT_FOUND", 0)
          /\ mpc' = "respond" /\ UNCHANGED box
       \/ /\ packet.methodId = entry.id /\ MsgType(entry.handler) = packet.kind /\ ended = "no"
          /\ box' = "queued"
          /\ IF packet.kind = "request" THEN mpc' = "wait" /\ UNCHANGED result
                                        ELSE mpc' = "respond" /\ result' = OKResult({})
    /\ UNCHANGED <<limits, entry, packet, wellFormed, ended, ran, reply, answer>>

\* The Actor stops, and its mailbox goes with the message.
MessageLost ==
    /\ box = "queued" /\ box' = "lost"
    /\ UNCHANGED <<mpc, limits, entry, packet, wellFormed, ended, ran, reply, result, answer>>

\* The select of InvokeTarget: the Actor's result or the end of the context, at random
\* when there are both.
InvokeReturns ==
    /\ mpc = "wait" /\ mpc' = "respond"
    /\ \/ box = "done" /\ result' = reply
       \/ ended # "no" /\ result' = ErrorResult(ended, 0)
    /\ UNCHANGED <<limits, entry, packet, wellFormed, ended, box, ran, reply, answer>>

\* invokeTyped up to the handler: the context, the method in the mailbox (of an Actor
\* created since, perhaps without it) and decodePayload.  The error of the decoder
\* becomes part of the message.
DecodePayload ==
    /\ box = "queued"
    /\ \/ /\ \/ ended # "no" /\ reply' = ErrorResult(ended, 0)
             \/ ended = "no" /\ reply' = ErrorResult("NOT_FOUND", 0)
             \/ /\ ended = "no" /\ packet.codec = Protobuf /\ ~entry.handler.protobuf
                /\ reply' = ErrorResult("UNSUPPORTED_MEDIA", 0)
             \/ /\ ended = "no" /\ ~wellFormed /\ (packet.codec = Protobuf => entry.handler.protobuf)
                /\ \E n \in Sizes : reply' = ErrorResult("INVALID_ARGUMENT", n)
          /\ box' = "done"
       \/ /\ ended = "no" /\ wellFormed /\ (packet.codec = Protobuf => entry.handler.protobuf)
          /\ box' = "invoke" /\ UNCHANGED reply
    /\ UNCHANGED <<mpc, limits, entry, packet, wellFormed, ended, ran, result, answer>>

\* resultFromError: an InvokeError keeps its code, also if that is OK, or one that the
\* connection, the table or the mailbox gives.
ErrorCodes == {"OK", "BUSINESS", "NOT_FOUND", "DEADLINE_EXCEEDED"}
resultFromError(err) == IF err.typed THEN ErrorResult(err.code, err.size) ELSE ErrorResult("INTERNAL", 0)

\* What a handler can do: return a response, which its codec may be unable to encode
\* (a string that is no UTF-8, a value JSON has no form for), a nil one, an error, or
\* panic.
Outcomes == [does : {"return"}, size : Sizes, encodable : BOOLEAN] \cup [does : {"nil", "panic"}]
            \cup [does : {"error"}, typed : BOOLEAN, code : ErrorCodes, size : Sizes]

\* buildInvoke, with the recover of invokeTyped around it.
InvokeMethod ==
    /\ box = "invoke" /\ box' = "done"
    /\ \E o \in Outcomes :
          /\ ran' = o
          /\ reply' = CASE o.does = "panic" -> ErrorResult("INTERNAL", 0)
                        [] o.does = "error" -> resultFromError(o)
                        [] OTHER -> IF packet.kind = "notify" THEN OKResult({})
                                    ELSE IF o.does = "nil" THEN ErrorResult("INTERNAL", 0)
                                    ELSE OKResult({o})
    /\ UNCHANGED <<mpc, limits, entry, packet, wellFormed, ended, result, answer>>

\* Registry.Marshal of response v: the codec of the packet is looked up; Protobuf takes
\* a proto.Message only; and either may fail on what it is given.
Lookup(codec) == codec \in {Protobuf, JSON}
Marshals(v) == Lookup(packet.codec) /\ (packet.codec = Protobuf => entry.handler.protoResponse) /\ v.encodable

\* responsePacket.
responsePacket(r, body) ==
    [kind |-> "response", codec |-> packet.codec, requestId |-> packet.requestId, methodId |-> 0,
     body |-> body, message |-> r.message, metadata |-> <<>>, code |-> r.code]

\* handleRequest encodes the body, or answers that it cannot; handleNotify is done.
RespondTo ==
    /\ mpc = "respond"
    /\ \/ packet.kind = "notify" /\ mpc' = "end" /\ UNCHANGED answer
       \/ /\ packet.kind = "request" /\ mpc' = "send"
          /\ \/ result.payload = {} /\ answer' = responsePacket(result, 0)
             \/ \E v \in result.payload :
                   answer' = IF Marshals(v) THEN responsePacket(result, v.size)
                             ELSE responsePacket(ErrorResult("INTERNAL", 0), 0)
    /\ UNCHANGED <<limits, entry, packet, wellFormed, ended, box, ran, reply, result>>

\* writeLoop: what Encode refuses closes the connection.
SendAnswer ==
    /\ mpc = "send" /\ mpc' = (IF Encodes(answer) THEN "sent" ELSE "closed")
    /\ UNCHANGED <<limits, entry, packet, wellFormed, ended, box, ran, reply, result, answer>>
-----------------------------------------------------------------------------
CallInit ==
    /\ mpc = "register" /\ limits \in ConfiguredLimits
    /\ entry = Nothing /\ packet = Nothing /\ wellFormed = TRUE /\ ended = "no" /\ box = "none"
    /\ ran = [does |-> "not run"] /\ reply = Nothing /\ result = Nothing /\ answer = Nothing
CallNext == \/ RegisterMethod \/ ReadPacket \/ ContextEnds \/ DispatchMethod \/ MessageLost \/ InvokeReturns
            \/ DecodePayload \/ InvokeMethod \/ RespondTo \/ SendAnswer

CallSpec == CallInit /\ [][CallNext]_callVars
-----------------------------------------------------------------------------
\* The codes of a call whose method has not run and will not.
NotRun == {"NOT_FOUND", "FAILED_PRECONDITION", "UNSUPPORTED_MEDIA", "INVALID_ARGUMENT"}
\* Unless it is the code of the handler's own error.
OwnCode(code) == ran.does = "error" /\ ran.typed /\ ran.code = code

\* A request the codec has let in is answered with what happened.  The answer passes
\* the same codec, whatever became of the call, unless it is too large for it.  While
\* the context lasts, a response the handler returned arrives with its code and body,
\* or as INTERNAL when it cannot be encoded; once it has ended, the client may read
\* that instead, and OK never comes with anything but what a handler gave it.  A code
\* that refuses the call means that no handler runs for it, now or later, and one for
\* the context that it has ended, unless the handler itself said so.  (ValidatePacket, which guards both ways, adapt,
\* Dispatch, InvokeTarget, invokeTyped, handleRequest, writeLoop.)
CallIsAnswered ==
    /\ mpc = "closed" => \/ answer.body > NormalizeLimits(limits).body
                         \/ MarshalSize(answer) > NormalizeLimits(limits).packet
    /\ mpc \in {"sent", "closed"} =>
          /\ ran.does = "return" /\ ended = "no" =>
                IF ran.encodable THEN answer.code = "OK" /\ answer.body = ran.size ELSE answer.code = "INTERNAL"
          /\ answer.code = "OK" => \/ ran.does = "return" /\ ran.encodable /\ answer.body = ran.size
                                   \/ ran.does = "error" /\ ran.typed /\ ran.code = "OK" /\ answer.body = 0
          /\ answer.code \in NotRun =>
                box \in {"none", "done"} /\ (ran.does = "not run" \/ OwnCode(answer.code))
          /\ answer.code \in {"DEADLINE_EXCEEDED", "CANCELLED"} => answer.code = ended \/ OwnCode(answer.code)
=============================================================================
