----------------------------- MODULE MCServices -----------------------------
(***************************************************************************)
(* The parts of a node that share no state with one another, checked in    *)
(* one model: a behaviour chooses one part and takes only its steps.       *)
(***************************************************************************)
EXTENDS RedisLock, HttpActor, DataConfig, RotateLogs, MethodCall, PacketFraming,
        Snowflake, ActorEvents, RequestHops, Calendar

VARIABLE part

Parts == {"lock", "http", "config", "logs", "call", "framing", "ids", "events", "hops", "calendar"}
vars == <<part, lockVars, serviceVars, configVars, logVars, callVars, framingVars,
          snowflakeVars, eventVars, hopVars, calendarVars>>

\* The steps of one part leave the others where they are.
Unless(p, q, A) == IF p = q THEN TRUE ELSE A
Only(p) ==
    /\ part = p /\ part' = p
    /\ Unless(p, "lock", UNCHANGED lockVars) /\ Unless(p, "http", UNCHANGED serviceVars)
    /\ Unless(p, "config", UNCHANGED configVars) /\ Unless(p, "logs", UNCHANGED logVars)
    /\ Unless(p, "call", UNCHANGED callVars) /\ Unless(p, "framing", UNCHANGED framingVars)
    /\ Unless(p, "ids", UNCHANGED snowflakeVars) /\ Unless(p, "events", UNCHANGED eventVars)
    /\ Unless(p, "hops", UNCHANGED hopVars) /\ Unless(p, "calendar", UNCHANGED calendarVars)

\* A part that is not chosen begins in one of its initial states.
MCInit ==
    /\ part \in Parts
    /\ LockInit /\ HttpInit /\ LogInit /\ SnowflakeInit /\ HopsInit
    /\ ConfigInit /\ (part # "config" => source = "file")
    /\ CallInit /\ (part # "call" => limits = CHOOSE l \in ConfiguredLimits : TRUE)
    /\ FramingInit /\ (part # "framing" => ~webSocketConn /\ maxPacketSize = CHOOSE l \in PacketLimits : TRUE)
    /\ EventsInit /\ (part # "events" => path = CHOOSE p \in Paths : TRUE)
    /\ CalendarInit /\ (part # "calendar" => IsZero(ct))

Next ==
    \/ Only("lock") /\ LockNext
    \/ Only("http") /\ HttpNext
    \/ Only("config") /\ ConfigNext
    \/ Only("logs") /\ LogNext
    \/ Only("call") /\ CallNext
    \/ Only("framing") /\ FramingNext
    \/ Only("ids") /\ SnowflakeNext
    \/ Only("events") /\ EventsNext
    \/ Only("hops") /\ HopsNext
    \/ Only("calendar") /\ CalendarNext

MCSpec == MCInit /\ [][Next]_vars /\ WF_vars(Only("http") /\ HttpProgress)
-----------------------------------------------------------------------------
MCUserComponents == <<"http">>

\* The days around the ends of the months, in a leap year and the one behind it, and in
\* the first months of a century without a leap day; and the zero time.
ZeroTime == [year |-> 1, month |-> 1, day |-> 1, sec |-> 0]
MCTimes ==
    {t \in [year : {1900, 2000, 2001}, month : 1..12, day : {1, 28, 29, 30, 31}, sec : {0, 86399}] :
        t.day <= LengthOf(t) /\ (t.year = 1900 => t.month <= 3)} \cup {ZeroTime}
MCAmounts == {-13, 1, 14}

\* Packets of different content and of every length there is.
MCFramedPackets == {<<1>>, <<0, 1>>, <<1, 1, 0>>}

\* agp_validator.go's defaults, scaled down; an application that sets nothing, and one
\* that sets some of the limits.
MCDefault == [packet |-> 6, body |-> 4, keys |-> 1, key |-> 2, value |-> 3, size |-> 4]
MCConfiguredLimits ==
    {[packet |-> 0, body |-> 0, keys |-> 0, key |-> 0, value |-> 0, size |-> 0],
     [packet |-> 3, body |-> 0, keys |-> 2, key |-> 1, value |-> -1, size |-> 0]}

\* A top-level Actor, a child on a node whose ID is an address, an ID with a dot in it.
MCPaths ==
    {[node |-> <<"n">>, actor |-> <<"a">>, child |-> <<>>],
     [node |-> <<"1", "1", "2", "1">>, actor |-> <<"a">>, child |-> <<"c">>],
     [node |-> <<"n">>, actor |-> <<"a", "b">>, child |-> <<"c">>]}
=============================================================================
