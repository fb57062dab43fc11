--------------------------- MODULE PacketFraming ---------------------------
(***************************************************************************)
(* The packet transports.  Over TCP a packet is a big-endian length and    *)
(* its bytes: a Write may take a part of the data only, a Read may return  *)
(* a part of it, and the stream may break at any byte.  Bytes are digits,  *)
(* and the prefix is PrefixLength of them.  Over a WebSocket a packet is a *)
(* message.                                                                *)
(***************************************************************************)
EXTENDS Numbers

CONSTANTS Radix,         \* the number of values of a byte
          PrefixLength,  \* the bytes of the length
          PacketLimits,  \* the values of Limits.MaxPacketSize, normalized
          DefaultSize,   \* DefaultMaxPacketSize
          FramedPackets, \* the packets there are to write
          MaxFramed      \* bound on the packets written

ASSUME FramingAssumption ==
    /\ Radix \in Nat \ {0, 1} /\ PrefixLength \in Nat \ {0}
    /\ PacketLimits \subseteq Nat \ {0} /\ DefaultSize \in 1..(Power(Radix)[PrefixLength] - 1)
    /\ FramedPackets \subseteq Seq(0..Radix - 1) /\ MaxFramed \in Nat

VARIABLES
    webSocketConn, \* the connection has message boundaries
    messages,      \* the messages under way on it
    maxPacketSize, \* Limits.MaxPacketSize, an int
    written,       \* the packets WritePacketBytes has accepted
    data, rest,    \* what writeFull still has to write now, and after it
    wire,          \* the bytes under way
    broken,        \* the stream is broken
    frpc, want,    \* the reader: what it reads, and how many bytes are missing
    buffer,        \* what it has read of it
    read           \* the packets it has returned

transport == <<webSocketConn, messages, maxPacketSize>>
framingVars == <<transport, written, data, rest, wire, broken, frpc, want, buffer, read>>

\* NewTCPPacketFramer gets the limit as a uint32 and replaces zero.
FramerLimit == LET n == maxPacketSize % Power(Radix)[PrefixLength]
               IN  IF n = 0 THEN DefaultSize ELSE n

\* binary.BigEndian.
PutUint(n) == FixedDigits(n, Radix, PrefixLength)
Uint(bytes) == Number(bytes, Radix)

\* newPacketTransport: the connection decides.
FramingInit ==
    /\ webSocketConn \in BOOLEAN /\ messages = <<>>
    /\ maxPacketSize \in PacketLimits
    /\ written = <<>> /\ data = <<>> /\ rest = <<>> /\ wire = <<>> /\ broken = FALSE
    /\ frpc = "prefix" /\ want = PrefixLength /\ buffer = <<>> /\ read = <<>>
-----------------------------------------------------------------------------
\* WritePacketBytes: a packet whose length the framer allows.  The write loop calls it
\* for one packet after the other.
WritePacketBytes(packet) ==
    /\ ~webSocketConn /\ ~broken /\ data = <<>> /\ rest = <<>>
    /\ Len(packet) # 0 /\ Len(packet) <= FramerLimit
    /\ written' = Append(written, packet)
    /\ data' = PutUint(Len(packet)) /\ rest' = packet
    /\ UNCHANGED <<transport, wire, broken, frpc, want, buffer, read>>

\* Mutant: a short write counts as the whole.
writeFull_Once ==
    /\ ~broken /\ data # <<>>
    /\ \E n \in 1..Len(data) :
          /\ wire' = wire \o SubSeq(data, 1, n)
          /\ data' = rest /\ rest' = <<>>
    /\ UNCHANGED <<transport, written, broken, frpc, want, buffer, read>>

\* writeFull: Write takes n bytes, and the loop goes on with the others.
writeFull ==
    /\ ~broken /\ data # <<>>
    /\ \E n \in 1..Len(data) :
          /\ wire' = wire \o SubSeq(data, 1, n)
          /\ data' = IF n < Len(data) THEN SubSeq(data, n + 1, Len(data)) ELSE rest
          /\ rest' = IF n < Len(data) THEN rest ELSE <<>>
    /\ UNCHANGED <<transport, written, broken, frpc, want, buffer, read>>

\* The connection is lost with what is under way.
BreakStream ==
    /\ ~broken /\ broken' = TRUE /\ wire' = <<>> /\ data' = <<>> /\ rest' = <<>>
    /\ messages' = <<>>
    /\ UNCHANGED <<webSocketConn, maxPacketSize, written, frpc, want, buffer, read>>
-----------------------------------------------------------------------------
\* io.ReadFull: some of the missing bytes.
ReadFull ==
    /\ ~webSocketConn /\ frpc \in {"prefix", "payload"} /\ want > 0
    /\ \E n \in 1..want :
          /\ n <= Len(wire)
          /\ buffer' = buffer \o SubSeq(wire, 1, n)
          /\ wire' = SubSeq(wire, n + 1, Len(wire)) /\ want' = want - n
    /\ UNCHANGED <<transport, written, data, rest, broken, frpc, read>>

\* ReadPacketBytes: the length is checked before the packet is allocated.
ReadPrefix ==
    /\ frpc = "prefix" /\ want = 0
    /\ LET length == Uint(buffer)
       IN  IF length = 0 \/ length > FramerLimit
           THEN frpc' = "failed" /\ UNCHANGED want
           ELSE frpc' = "payload" /\ want' = length
    /\ buffer' = <<>>
    /\ UNCHANGED <<transport, written, data, rest, wire, broken, read>>
ReadPayload ==
    /\ frpc = "payload" /\ want = 0
    /\ read' = Append(read, buffer)
    /\ frpc' = "prefix" /\ want' = PrefixLength /\ buffer' = <<>>
    /\ UNCHANGED <<transport, written, data, rest, wire, broken>>
ReadFails ==
    /\ frpc \in {"prefix", "payload"} /\ broken /\ frpc' = "failed"
    /\ UNCHANGED <<transport, written, data, rest, wire, broken, want, buffer, read>>
-----------------------------------------------------------------------------
\* The WebSocket checks the length against the limit itself, on both sides.
Allowed(packet) == Len(packet) # 0 /\ Len(packet) <= maxPacketSize
WriteMessage(packet) ==
    /\ webSocketConn /\ ~broken /\ Allowed(packet)
    /\ written' = Append(written, packet) /\ messages' = Append(messages, packet)
    /\ UNCHANGED <<webSocketConn, maxPacketSize, data, rest, wire, broken, frpc, want, buffer, read>>
ReadMessage ==
    /\ webSocketConn /\ frpc = "prefix" /\ messages # <<>> /\ messages' = Tail(messages)
    /\ IF Allowed(Head(messages)) THEN read' = Append(read, Head(messages)) /\ UNCHANGED frpc
                                  ELSE frpc' = "failed" /\ UNCHANGED read
    /\ UNCHANGED <<webSocketConn, maxPacketSize, written, data, rest, wire, broken, want, buffer>>
-----------------------------------------------------------------------------
FramingNext ==
    \/ Len(written) < MaxFramed /\ \E p \in FramedPackets : WritePacketBytes(p) \/ WriteMessage(p)
    \/ writeFull \/ BreakStream \/ ReadFull \/ ReadPrefix \/ ReadPayload \/ ReadFails
    \/ ReadMessage

FramingSpec == FramingInit /\ [][FramingNext]_framingVars
-----------------------------------------------------------------------------
\* The reader returns the packets that were written, whole and in order, however the
\* stream cuts them, and gives up only on a broken stream (ReadPacketBytes,
\* WritePacketBytes, writeFull).
FramesIntact ==
    /\ Len(read) <= Len(written) /\ read = SubSeq(written, 1, Len(read))
    /\ frpc = "failed" => broken
=============================================================================
