------------------------------ MODULE HttpActor ------------------------------
(***************************************************************************)
(* net/httpactor: the HTTP ingress as a component of the application, down *)
(* to the method table (net/method) and the mailbox of the Actor.  A       *)
(* request is known by what is wrong with it; the Actor behind the one     *)
(* method may stop and be created again with another signature while a     *)
(* request is on its way from one look-up to the next.                     *)
(***************************************************************************)
EXTENDS Application

CONSTANTS HttpRequests

Defects == {"none", "method", "path", "media", "auth", "body"}

VARIABLES
    server,     \* http.Server: "none", "starting", "serving" or "closed"
    table,      \* the message type registered for the method, "none" without one
    recreated,  \* the Actor has stopped by itself (at most once)
    actor,      \* the latest Actor with the path: its number, and whether it is
                \* "up", "closing" (StopState, draining) or "gone" (onStop)
    req,        \* per request: the handler's pc, the defect, the msgType read, the Actors
                \* of Dispatch's look-up and of post's, the status written
    mail        \* per request: where its message is, and what the Actor made of it

httpVars == <<server, table, recreated, actor, req, mail>>
serviceVars == <<appVars, httpVars>>

NewRequest == [pc |-> "new", defect |-> "none", msgType |-> "none", seen |-> 0, found |-> 0, status |-> 0]
\* ran: the number of the Actor that ran the method for the request; result: what it
\* sent to the channel of the caller.
NoMail == [at |-> "none", ran |-> 0, result |-> 0]
HttpInit ==
    /\ AppInit /\ server = "none" /\ table = "none" /\ recreated = FALSE /\ actor = [nr |-> 0, phase |-> "gone"]
    /\ req = [r \in HttpRequests |-> NewRequest] /\ mail = [r \in HttpRequests |-> NoMail]

\* The first Actor registers the method as a REQUEST, the second as a one-way method.
TypeOf(nr) == IF nr = 1 THEN "REQUEST" ELSE "NOTIFY"
\* A context ends: the deadline passes (504), or the client goes (499, told as 504).
Ended == 504

SetReq(r, record) == req' = [req EXCEPT ![r] = record]
Answer(r, status) == SetReq(r, [req[r] EXCEPT !.pc = "answered", !.status = status])
SetMail(r, record) == mail' = [mail EXCEPT ![r] = record]
ActorsUp == "AfterInit" \in SeqSet(done["actor"]) /\ "Stop" \notin SeqSet(done["actor"])
\* mailbox.onStop: what is queued there is dropped.
Destroyed == [r \in HttpRequests |-> IF mail[r].at = "queued" THEN [mail[r] EXCEPT !.at = "dropped"] ELSE mail[r]]
-----------------------------------------------------------------------------
\* The callbacks: OnAfterInit of the actor system creates the Actors, whose OnInit
\* registers their methods; that of the server starts a goroutine that listens;
\* OnStop of the server waits for its handlers, for five seconds at most.
StartEffects ==
    IF aphase = "AfterInit" /\ pos <= Len(ranged)
    THEN /\ IF ranged[pos] = "actor" /\ actor.nr = 0
            THEN table' = "REQUEST" /\ actor' = [nr |-> 1, phase |-> "up"] ELSE UNCHANGED <<table, actor>>
         /\ server' = IF ranged[pos] = "http" /\ server = "none" THEN "starting" ELSE server
    ELSE UNCHANGED <<table, server, actor>>
StopEffects(c) ==
    /\ c = "http" /\ aphase = "Stop" => server \in {"none", "closed"}
    /\ IF c = "actor" /\ aphase = "Stop"
       THEN table' = "none" /\ actor' = [actor EXCEPT !.phase = "gone"] /\ mail' = Destroyed
       ELSE UNCHANGED <<table, actor, mail>>
    /\ UNCHANGED server

HttpStarting == Starting /\ StartEffects /\ UNCHANGED <<recreated, req, mail>>
HttpStopping == \E c \in Components : StoppingNext(c) /\ StopEffects(c) /\ UNCHANGED <<recreated, req>>
HttpOther == (Startup \/ Started \/ StopFails \/ Stopped \/ SelectSignal \/ SelectDie \/ Outside) /\ UNCHANGED httpVars

Serve ==
    /\ server = "starting" /\ server' = "serving"
    /\ UNCHANGED <<appVars, table, recreated, actor, req, mail>>

\* Server.Shutdown: no new connection, also for a Serve that comes later.
ServerShutdown ==
    /\ aphase = "Stop" /\ pos \in 1..Len(components) /\ components[pos] = "http"
    /\ server \in {"starting", "serving"} /\ server' = "closed"
    /\ UNCHANGED <<appVars, table, recreated, actor, req, mail>>

\* The Actor stops by itself: it takes no more messages, then its methods are
\* unregistered, it leaves the actor map, and its mailbox goes with what is in it.
ActorCloses ==
    /\ ActorsUp /\ actor.phase = "up" /\ ~recreated /\ actor' = [actor EXCEPT !.phase = "closing"]
    /\ UNCHANGED <<appVars, server, table, recreated, req, mail>>
ActorStops ==
    /\ actor.phase = "closing" /\ table' = "none" /\ recreated' = TRUE
    /\ actor' = [actor EXCEPT !.phase = "gone"] /\ mail' = Destroyed
    /\ UNCHANGED <<appVars, server, req>>
\* It is created again, with a one-way method.
ActorAgain ==
    /\ ActorsUp /\ actor.nr = 1 /\ table = "none" /\ recreated /\ table' = TypeOf(2) /\ actor' = [nr |-> 2, phase |-> "up"]
    /\ UNCHANGED <<appVars, server, recreated, req, mail>>
-----------------------------------------------------------------------------
\* ServeHTTP up to the body: the early returns, in their order.
Admit(r, defect) ==
    IF defect = "method" THEN Answer(r, 405)
    ELSE IF defect = "path" THEN Answer(r, 404)
    ELSE IF table = "none" THEN Answer(r, 404)
    ELSE IF defect = "media" THEN Answer(r, 415)
    ELSE IF defect = "auth" THEN Answer(r, 401)
    ELSE SetReq(r, [req[r] EXCEPT !.pc = "body", !.defect = defect, !.msgType = table])

ServeHTTP(r) ==
    /\ server = "serving" /\ req[r].pc = "new"
    /\ \E defect \in Defects : Admit(r, defect)
    /\ UNCHANGED <<appVars, server, table, recreated, actor, mail>>

\* Mutant: Dispatch does not compare the message types.
DispatchFails_Unchecked(msgType) == IF table = "none" THEN 404 ELSE 0
\* Dispatch looks the method up again: gone, of another type, or there.
DispatchFails(msgType) == IF table = "none" THEN 404 ELSE IF table # msgType THEN 412 ELSE 0

\* The body is read, then Table.Dispatch: the look-up, the context, and InvokeTarget or
\* NotifyTarget for the target of the look-up.
Dispatch(r) ==
    /\ req[r].pc = "body"
    /\ \/ req[r].defect = "body" /\ Answer(r, 413)
       \/ /\ req[r].defect # "body" /\ DispatchFails(req[r].msgType) # 0
          /\ Answer(r, DispatchFails(req[r].msgType))
       \/ /\ req[r].defect # "body" /\ DispatchFails(req[r].msgType) = 0
          /\ \/ SetReq(r, [req[r] EXCEPT !.pc = "looked", !.seen = actor.nr])
             \/ Answer(r, Ended)
    /\ UNCHANGED <<appVars, server, table, recreated, actor, mail>>

\* post looks for the path and reads the state: the Actor of the look-up, one created
\* since, or nobody who takes messages.  Before it, the context may have ended.
FindActor(r) ==
    /\ req[r].pc = "looked"
    /\ \/ IF actor.phase = "up" THEN SetReq(r, [req[r] EXCEPT !.pc = "found", !.found = actor.nr])
                                ELSE Answer(r, 404)
       \/ Answer(r, Ended)
    /\ UNCHANGED <<appVars, server, table, recreated, actor, mail>>

\* The push, perhaps into the mailbox of an Actor that has stopped since: the message is
\* dropped, or the push panics and the connection goes without an answer.  A NOTIFY is
\* answered, a REQUEST waits.
Post(r) ==
    /\ req[r].pc = "found"
    /\ LET there == req[r].found = actor.nr /\ actor.phase # "gone" IN
       /\ SetMail(r, [NoMail EXCEPT !.at = IF there THEN "queued" ELSE "dropped"])
       /\ \/ req[r].msgType = "NOTIFY" /\ Answer(r, 202)
          \/ req[r].msgType = "REQUEST" /\ SetReq(r, [req[r] EXCEPT !.pc = "posted"])
          \/ ~there /\ Answer(r, 0)
    /\ UNCHANGED <<appVars, server, table, recreated, actor>>

\* invokeTyped on the Actor's loop: not for a context that has ended, as that of every
\* REQUEST that has been answered; method and payload may be refused; the method
\* returns, answers with a status of its own (InvokeError), or fails.
Run(r) ==
    /\ mail[r].at = "queued"
    /\ \/ \E result \in {400, 404, Ended} : SetMail(r, [mail[r] EXCEPT !.at = "done", !.result = result])
       \/ /\ req[r].pc # "answered" \/ req[r].msgType = "NOTIFY"
          /\ \E result \in {200, 404, 500} :
                SetMail(r, [at |-> "done", ran |-> req[r].found, result |-> result])
    /\ UNCHANGED <<appVars, server, table, recreated, actor, req>>

\* The result, unless it is a body that cannot be encoded, or the end of the context.
Invoked(r) ==
    /\ req[r].pc = "posted"
    /\ \/ mail[r].at = "done" /\ Answer(r, mail[r].result)
       \/ mail[r].at = "done" /\ mail[r].result = 200 /\ Answer(r, 500)
       \/ Answer(r, Ended)
    /\ UNCHANGED <<appVars, server, table, recreated, actor, mail>>
-----------------------------------------------------------------------------
HandlerSteps == \E r \in HttpRequests : Dispatch(r) \/ FindActor(r) \/ Post(r) \/ Run(r) \/ Invoked(r)
ServerSteps == Serve \/ ServerShutdown
HttpNext == HttpStarting \/ HttpStopping \/ HttpOther \/ ServerSteps \/ ActorCloses \/ ActorStops \/ ActorAgain
            \/ (\E r \in HttpRequests : ServeHTTP(r)) \/ HandlerSteps
HttpProgress ==
    HttpStarting \/ HttpStopping \/ ServerSteps \/ ((Startup \/ Started \/ SelectDie \/ StopFails \/ Stopped) /\ UNCHANGED httpVars)

\* A handler that hangs does not keep the application from its end.
HttpSpec == HttpInit /\ [][HttpNext]_serviceVars /\ WF_serviceVars(HttpProgress)
-----------------------------------------------------------------------------
\* While the server takes requests the Actors are there: their methods are registered
\* before it listens, and it is closed before they are stopped.  Only an Actor that
\* stops by itself, or a list that a callback edits, leaves a request without one.
ListenersCovered == server = "serving" /\ edits = 0 => ActorsUp /\ (table # "none" \/ recreated)

\* The statuses with which a request is refused.
Refusals == {400, 401, 404, 405, 412, 413, 415}

\* What a client reads is what happened, or will, whatever became of the Actor between
\* the look-ups: with 200 a method has run for it, and unless its Actor was created
\* behind Dispatch's look-up (the mailbox compares no types) a method of type REQUEST;
\* with 202 the message has been given to an Actor, and is lost only with an Actor that
\* stops; and with a refusal the message is in no mailbox any more, and no method has
\* run for it, so that the client may send the request again, unless the method itself
\* has answered so.
SuccessIsReal ==
    \A r \in HttpRequests :
        /\ req[r].status = 200 => mail[r].ran # 0 /\ (mail[r].ran = req[r].seen => TypeOf(mail[r].ran) = "REQUEST")
        /\ req[r].status = 202 => \/ mail[r].at \in {"queued", "done"}
                                  \/ mail[r].at = "dropped" /\ (req[r].found # actor.nr \/ actor.phase = "gone")
        /\ req[r].status \in Refusals => mail[r].at # "queued" /\ (mail[r].ran = 0 \/ mail[r].result = req[r].status)
==============================================================================
