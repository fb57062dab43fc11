----------------------------- MODULE Connector -----------------------------
(***************************************************************************)
(* How a client socket reaches the connection index and how a server stops *)
(* accepting: net/connector (accept loop, InChan, dispatch, Stop) and the  *)
(* component of net/parser (HandleConn, OnBeforeStop) with its index.      *)
(* Here a connection is its socket; what happens on it is module           *)
(* Connection.                                                             *)
(***************************************************************************)
EXTENDS ConnectionManager, Integers, Sequences

CONSTANT ChanSize     \* capacity of connChan

ASSUME ConnectorAssumption == ChanSize \in Nat

VARIABLES
    webSocket,     \* the accept loop is http.Serve, not TCPConnector.Start
    stopped, running, done,   \* the flags of Connector, and its done channel
    listener,      \* "none" before GetListener, then "open" or "closed"
    connChan,      \* the queue of accepted sockets
    apc,           \* the goroutine of Start
    ipc,           \* the InChan call of each socket
    sock,          \* "dialing", "open" or "closed"
    lpc, dcur,     \* the dispatcher, and the socket it has received
    tpc, snapshot  \* OnBeforeStop with Connector.Stop; the connections it drains

flags == <<stopped, running, done>>
vars == <<webSocket, flags, listener, connChan, apc, ipc, sock, lpc, dcur, managerVars, tpc, snapshot>>

Init ==
    /\ webSocket \in BOOLEAN
    /\ stopped = FALSE /\ running = TRUE /\ done = FALSE
    /\ listener = "none" /\ connChan = <<>>
    /\ apc = "listen" /\ ipc = [s \in Conns |-> "none"]
    /\ sock = [s \in Conns |-> "dialing"]
    /\ lpc = "none" /\ dcur = {}
    /\ ManagerInit /\ tpc = "idle" /\ snapshot = {}
-----------------------------------------------------------------------------
startFrame == <<webSocket, flags, connChan, dcur, managerVars, tpc, snapshot>>

\* GetListener; the field is not protected against a Stop that reads it.
Listen ==
    /\ apc = "listen" /\ apc' = "start" /\ listener' = "open"
    /\ UNCHANGED <<startFrame, ipc, sock, lpc>>

\* Connector.Start: the dispatcher, unless Stop came first.
StartDispatch ==
    /\ apc = "start" /\ apc' = (IF webSocket THEN "accept" ELSE "loop")
    /\ lpc' = IF stopped THEN lpc ELSE "check"
    /\ UNCHANGED <<startFrame, listener, ipc, sock>>

\* The TCP loop looks at running before each Accept.
AcceptLoop ==
    /\ apc = "loop" /\ apc' = (IF running THEN "accept" ELSE "end")
    /\ UNCHANGED <<startFrame, listener, ipc, sock, lpc>>

\* Accept returns a socket.  The TCP loop calls InChan itself, the web server
\* starts a goroutine per socket and may refuse the upgrade.
Accept(s) ==
    /\ apc = "accept" /\ listener = "open" /\ sock[s] = "dialing"
    /\ apc' = IF webSocket THEN "accept" ELSE "inChan"
    /\ \/ sock' = [sock EXCEPT ![s] = "open"] /\ ipc' = [ipc EXCEPT ![s] = "enter"]
       \/ webSocket /\ sock' = [sock EXCEPT ![s] = "closed"] /\ UNCHANGED ipc
    /\ UNCHANGED <<startFrame, listener, lpc>>

\* Accept fails on a closed listener.  Running is 0 before the listener is
\* closed, so the TCP loop returns as well.
AcceptFails ==
    /\ apc = "accept" /\ listener = "closed"
    /\ apc' = IF webSocket \/ ~running THEN "end" ELSE "loop"
    /\ UNCHANGED <<startFrame, listener, ipc, sock, lpc>>

\* InChan returns: the TCP loop goes on.
Return == apc' = IF webSocket THEN apc ELSE "loop"

\* InChan under handoffMu: the handoff is announced, or the socket closed.
InChan(s) ==
    /\ ipc[s] = "enter"
    /\ IF stopped
       THEN /\ sock' = [sock EXCEPT ![s] = "closed"]
            /\ ipc' = [ipc EXCEPT ![s] = "end"] /\ Return
       ELSE ipc' = [ipc EXCEPT ![s] = "handoff"] /\ UNCHANGED <<sock, apc>>
    /\ UNCHANGED <<startFrame, listener, lpc>>

\* Mutant: InChan waits for a place in the queue only.
Handoff_NoDone(s) ==
    /\ ipc[s] = "handoff" /\ ipc' = [ipc EXCEPT ![s] = "end"] /\ Return
    /\ Len(connChan) < ChanSize
    /\ connChan' = Append(connChan, s) /\ UNCHANGED sock
    /\ UNCHANGED <<webSocket, flags, dcur, managerVars, tpc, snapshot, listener, lpc>>

\* Its select: a place in connChan, or done.
Handoff(s) ==
    /\ ipc[s] = "handoff" /\ ipc' = [ipc EXCEPT ![s] = "end"] /\ Return
    /\ \/ /\ Len(connChan) < ChanSize
          /\ connChan' = Append(connChan, s) /\ UNCHANGED sock
       \/ /\ done
          /\ sock' = [sock EXCEPT ![s] = "closed"] /\ UNCHANGED connChan
    /\ UNCHANGED <<webSocket, flags, dcur, managerVars, tpc, snapshot, listener, lpc>>
-----------------------------------------------------------------------------
dispatchFrame == <<webSocket, flags, listener, apc, ipc, tpc, snapshot>>

\* dispatch: done first, then whichever of done and connChan select takes.
DispatchSelect ==
    /\ \/ lpc = "check" /\ lpc' = (IF done THEN "end" ELSE "select")
          /\ UNCHANGED <<connChan, dcur>>
       \/ lpc = "select" /\ done /\ lpc' = "end" /\ UNCHANGED <<connChan, dcur>>
       \/ lpc = "select" /\ connChan # <<>> /\ lpc' = "got"
          /\ dcur' = {Head(connChan)} /\ connChan' = Tail(connChan)
    /\ UNCHANGED <<dispatchFrame, sock, managerVars>>

\* stopped is read before the callback is called.
DispatchCheck ==
    /\ lpc = "got"
    /\ IF stopped
       THEN /\ sock' = [s \in Conns |-> IF s \in dcur THEN "closed" ELSE sock[s]]
            /\ lpc' = "check" /\ dcur' = {}
       ELSE lpc' = "connect" /\ UNCHANGED <<sock, dcur>>
    /\ UNCHANGED <<dispatchFrame, connChan, managerVars>>

\* HandleConn: ConnectionManager.Add, go Run.
HandleConn ==
    /\ lpc = "connect" /\ lpc' = "check"
    /\ (\E s \in dcur : Add(s)) /\ dcur' = {}
    /\ UNCHANGED <<dispatchFrame, connChan, sock>>

\* Close: the socket, then the index.  It comes from the connection itself, or
\* from Kick.
CloseConn(s) ==
    /\ sock[s] = "open" /\ s \in connections
    /\ sock' = [sock EXCEPT ![s] = "closed"]
    /\ UNCHANGED <<dispatchFrame, connChan, lpc, dcur, managerVars>>
RemoveConn(s) ==
    /\ sock[s] = "closed" /\ Remove(s)
    /\ UNCHANGED <<dispatchFrame, connChan, sock, lpc, dcur>>

\* Component.Bind, from any handler.
BindConn(s, u) ==
    /\ Bind(s, u)
    /\ UNCHANGED <<dispatchFrame, connChan, sock, lpc, dcur>>
-----------------------------------------------------------------------------
stopFrame == <<webSocket, apc, ipc, lpc, dcur>>

\* Stop: the compare-and-swap of stopped.
StopBegin ==
    /\ tpc = "idle" /\ tpc' = "running" /\ stopped' = TRUE
    /\ UNCHANGED <<stopFrame, running, done, listener, connChan, sock, managerVars, snapshot>>

\* running, then done under handoffMu.
StopFlags ==
    /\ \/ tpc = "running" /\ tpc' = "done" /\ running' = FALSE /\ UNCHANGED done
       \/ tpc = "done" /\ tpc' = "listener" /\ done' = TRUE /\ UNCHANGED running
    /\ UNCHANGED <<stopFrame, stopped, listener, connChan, sock, managerVars, snapshot>>

\* The listener is closed if Stop sees one.  GetListener assigns the field
\* without a lock, and only Connector.Start after it synchronizes with Stop:
\* until then Stop may read either value.
StopListener ==
    /\ tpc = "listener" /\ tpc' = "waitHandoff"
    /\ listener' \in CASE listener = "none" -> {"none"}
                       [] listener = "open" /\ apc = "start" -> {"open", "closed"}
                       [] OTHER -> {"closed"}
    /\ UNCHANGED <<stopFrame, flags, connChan, sock, managerVars, snapshot>>

\* Mutant: Stop does not wait for the handoffs.
StopWaitHandoff_NoWait ==
    /\ tpc = "waitHandoff" /\ tpc' = "waitDispatch"
    /\ UNCHANGED <<stopFrame, flags, listener, connChan, sock, managerVars, snapshot>>

\* handoffWG.Wait.
StopWaitHandoff ==
    /\ tpc = "waitHandoff" /\ \A s \in Conns : ipc[s] # "handoff"
    /\ tpc' = "waitDispatch"
    /\ UNCHANGED <<stopFrame, flags, listener, connChan, sock, managerVars, snapshot>>

\* dispatchWG.Wait.
StopWaitDispatch ==
    /\ tpc = "waitDispatch" /\ lpc \in {"none", "end"}
    /\ tpc' = "closeQueued"
    /\ UNCHANGED <<stopFrame, flags, listener, connChan, sock, managerVars, snapshot>>

CloseQueued ==
    /\ tpc = "closeQueued"
    /\ sock' = [s \in Conns |-> IF \E i \in 1..Len(connChan) : connChan[i] = s
                                  THEN "closed" ELSE sock[s]]
    /\ connChan' = <<>> /\ tpc' = "snapshot"
    /\ UNCHANGED <<stopFrame, flags, listener, managerVars, snapshot>>

\* OnBeforeStop goes on: Snapshot, then GoAway and Close for each of them.
Snapshot ==
    /\ tpc = "snapshot" /\ tpc' = "drain"
    /\ snapshot' = connections
    /\ UNCHANGED <<stopFrame, flags, listener, connChan, sock, managerVars>>

\* A connection of the snapshot is closed and out of the index.
DrainClose(s) == tpc = "drain" /\ s \in snapshot /\ CloseConn(s)
Drain(s) ==
    /\ tpc = "drain" /\ s \in snapshot \ connections
    /\ snapshot' = snapshot \ {s}
    /\ UNCHANGED <<stopFrame, flags, listener, connChan, sock, managerVars, tpc>>

Drained ==
    /\ tpc = "drain" /\ snapshot = {} /\ tpc' = "end"
    /\ UNCHANGED <<stopFrame, flags, listener, connChan, sock, managerVars, snapshot>>
-----------------------------------------------------------------------------
Start == Listen \/ StartDispatch \/ AcceptLoop \/ AcceptFails
Dispatch == DispatchSelect \/ DispatchCheck \/ HandleConn
Stop == \/ StopFlags \/ StopListener \/ StopWaitHandoff \/ StopWaitDispatch
        \/ CloseQueued \/ Snapshot \/ (\E s \in Conns : Drain(s)) \/ Drained

Next == \/ Start \/ Dispatch \/ StopBegin \/ Stop
        \/ \E s \in Conns : \/ Accept(s) \/ InChan(s) \/ Handoff(s)
                            \/ CloseConn(s) \/ RemoveConn(s) \/ \E u \in Uids : BindConn(s, u)

Spec == Init /\ [][Next]_vars

\* Goroutines run on; nobody has to dial, to hang up or to stop the server.
Fairness == /\ WF_vars(Start) /\ WF_vars(Dispatch) /\ WF_vars(Stop)
            /\ \A s \in Conns : /\ WF_vars(InChan(s) \/ Handoff(s))
                               /\ WF_vars(DrainClose(s)) /\ WF_vars(RemoveConn(s))
FairSpec == Spec /\ Fairness
-----------------------------------------------------------------------------
Stopped == tpc \in {"snapshot", "drain", "end"}

\* Once Stop has returned no accepted socket is left to nobody: it belongs to a
\* connection, is closed, or is about to be closed by its InChan; and when
\* OnBeforeStop is through no connection is left either (Stop, InChan, dispatch,
\* closeQueued, OnBeforeStop).
NoStraySocket ==
    /\ Stopped => \A s \in Conns :
          sock[s] = "open" => s \in connections \/ ipc[s] = "enter"
    /\ tpc = "end" => connections = {}

\* OnBeforeStop comes to an end, also with InChan calls blocked on a full queue
\* (Stop, InChan, dispatch).
StopReturns == (tpc = "running") ~> (tpc = "end")
=============================================================================
