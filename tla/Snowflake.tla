----------------------------- MODULE Snowflake -----------------------------
(***************************************************************************)
(* extend/snowflake: IDs of a time in milliseconds, a node number and a    *)
(* step, generated under a lock by the one default node of each process.   *)
(***************************************************************************)
EXTENDS Encodings

CONSTANTS Processes,           \* the processes; each hashes its name to a node number
          NodeValues,          \* how many numbers the field of the node holds: 1 << NodeBits
          StepValues,          \* and the field of the step: 1 << StepBits
          MaxTime, MaxIds      \* bounds on the clock and on the IDs per process

ASSUME SnowflakeAssumption ==
    /\ {NodeValues, StepValues} \subseteq Nat \ {0, 1} /\ {MaxTime, MaxIds} \subseteq Nat \ {0}

VARIABLES
    clock,      \* milliseconds since the epoch, on the monotonic clock
    nodeOf,     \* the node number, or NoNode before SetDefaultNode
    time, step, \* Node.time and Node.step
    spinning,   \* Generate waits for the next millisecond, with the lock held
    ids         \* history: what each process has been given, in order

snowflakeVars == <<clock, nodeOf, time, step, spinning, ids>>

nodeMax == NodeValues - 1
NoNode == NodeValues
TimeUnit == NodeValues * StepValues   \* 1 << timeShift

SnowflakeInit ==
    /\ clock = 1 /\ nodeOf = [p \in Processes |-> NoNode]
    /\ time = [p \in Processes |-> 0] /\ step = [p \in Processes |-> 0]
    /\ spinning = [p \in Processes |-> FALSE] /\ ids = [p \in Processes |-> <<>>]
-----------------------------------------------------------------------------
\* InitDefaultNode: the checksum of the name modulo nodeMax; the first call wins.
InitDefaultNode(p) ==
    /\ nodeOf[p] = NoNode
    /\ \E checksum \in 0..(2 * nodeMax) : nodeOf' = [nodeOf EXCEPT ![p] = checksum % nodeMax]
    /\ UNCHANGED <<clock, time, step, spinning, ids>>

MillisecondPasses ==
    /\ clock < MaxTime /\ clock' = clock + 1
    /\ UNCHANGED <<nodeOf, time, step, spinning, ids>>

\* now << timeShift | node << nodeShift | step.
ID(p, now, s) == now * TimeUnit + nodeOf[p] * StepValues + s

\* ID.Time, Node and Step.
TimeField(id) == id \div TimeUnit
NodeField(id) == (id % TimeUnit) \div StepValues
StepField(id) == id % StepValues

\* The end of Generate: the time is kept and the ID returned.
Issue(p, now, s) ==
    /\ time' = [time EXCEPT ![p] = now] /\ step' = [step EXCEPT ![p] = s]
    /\ ids' = [ids EXCEPT ![p] = Append(@, ID(p, now, s))]

Generates(p) == nodeOf[p] # NoNode /\ ~spinning[p]

\* Another millisecond than last time: the first ID of it.
GenerateFirst(p) ==
    /\ Generates(p) /\ clock # time[p] /\ Issue(p, clock, 0)
    /\ UNCHANGED <<clock, nodeOf, spinning>>

\* Mutant: Generate does not wait when the steps of a millisecond are used up.
GenerateNext_NoWait(p) ==
    /\ Generates(p) /\ clock = time[p]
    /\ Issue(p, clock, (step[p] + 1) % StepValues)
    /\ UNCHANGED <<clock, nodeOf, spinning>>

\* The same millisecond: the next step, or a wait when the steps are used up.
GenerateNext(p) ==
    /\ Generates(p) /\ clock = time[p]
    /\ LET s == (step[p] + 1) % StepValues
       IN  IF s = 0 THEN /\ spinning' = [spinning EXCEPT ![p] = TRUE]
                         /\ step' = [step EXCEPT ![p] = 0] /\ UNCHANGED <<time, ids>>
                    ELSE Issue(p, clock, s) /\ UNCHANGED spinning
    /\ UNCHANGED <<clock, nodeOf>>
GenerateAfterWait(p) ==
    /\ spinning[p] /\ clock > time[p]
    /\ Issue(p, clock, 0) /\ spinning' = [spinning EXCEPT ![p] = FALSE]
    /\ UNCHANGED <<clock, nodeOf>>
-----------------------------------------------------------------------------
Generate(p) == Len(ids[p]) < MaxIds /\ (GenerateFirst(p) \/ GenerateNext(p))

SnowflakeNext ==
    \/ MillisecondPasses
    \/ \E p \in Processes : InitDefaultNode(p) \/ Generate(p) \/ GenerateAfterWait(p)

SnowflakeSpec == SnowflakeInit /\ [][SnowflakeNext]_snowflakeVars
-----------------------------------------------------------------------------
\* "Generate creates and returns a unique snowflake ID": every ID a process is given is
\* larger than the ones before, and processes with different node numbers never share
\* one, also when the steps of a millisecond run out.  It names its node, its time and its
\* step (Generate, Time, Node, Step).
IdsOrdered ==
    /\ \A p \in Processes : \A i \in 1..Len(ids[p]) :
          /\ i > 1 => ids[p][i - 1] < ids[p][i]
          /\ NodeField(ids[p][i]) = nodeOf[p] /\ TimeField(ids[p][i]) <= time[p]
    /\ \A p \in Processes : ids[p] # <<>> => StepField(ids[p][Len(ids[p])]) = step[p] \/ spinning[p]
    /\ \A p, q \in Processes : nodeOf[p] # nodeOf[q] =>
          \A i \in 1..Len(ids[p]), j \in 1..Len(ids[q]) : ids[p][i] # ids[q][j]

\* IDs are ordered and distinct, and each comes back from every text it is written as
\* (Generate, String, Base2, Base32, Base36, Base58, IntBytes, MarshalJSON, their parsers,
\* base58.Encode and Decode, GenNodeId).
IdsUnique == IdsOrdered /\ \A p \in Processes : \A i \in 1..Len(ids[p]) : ComesBack(ids[p][i])
=============================================================================
