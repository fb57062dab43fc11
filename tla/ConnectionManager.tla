------------------------- MODULE ConnectionManager -------------------------
(***************************************************************************)
(* The index of live client connections in                                 *)
(* net/parser/connection_manager.go: connections by their ID, and the one  *)
(* connection an authenticated user is bound to.  Every operation holds    *)
(* the manager's lock.  Add comes from HandleConn, Remove from Close, and  *)
(* Bind from any handler at any time, also for a connection that is gone.  *)
(***************************************************************************)
CONSTANTS Conns,   \* connections, each with a server-assigned ID of its own
          Uids,    \* the positive user IDs
          NONE     \* no user, no connection

ASSUME NoneAssumption == NONE \notin Conns /\ NONE \notin Uids

VARIABLES
    accepted,      \* the connections HandleConn has created so far
    connections,   \* connections: the ones that are indexed
    byUID,         \* byUID: the connection each user is bound to
    uid            \* the user in each connection's session

managerVars == <<accepted, connections, byUID, uid>>

\* NewConnectionManager; the session of a new connection has no user.
ManagerInit ==
    /\ accepted = {} /\ connections = {}
    /\ byUID = [u \in Uids |-> NONE]
    /\ uid = [c \in Conns |-> NONE]

\* HandleConn indexes each new connection once.
Add(c) ==
    /\ c \notin accepted /\ accepted' = accepted \cup {c}
    /\ connections' = connections \cup {c}
    /\ UNCHANGED <<byUID, uid>>

\* The binding of c is dropped if it is c's own.
Unbound(c) == [u \in Uids |-> IF u = uid[c] /\ byUID[u] = c THEN NONE ELSE byUID[u]]

\* Mutant: the user stays bound to the connection that is gone.
Remove_KeepsUser(c) ==
    /\ c \in connections /\ connections' = connections \ {c}
    /\ UNCHANGED <<accepted, byUID, uid>>

\* closeOnce calls Remove once; the session keeps its user.
Remove(c) ==
    /\ c \in connections
    /\ connections' = connections \ {c}
    /\ byUID' = Unbound(c)
    /\ UNCHANGED <<accepted, uid>>

\* Mutant: a second connection may take the user over.
Bind_Steals(c, u) ==
    /\ c \in connections
    /\ byUID' = [Unbound(c) EXCEPT ![u] = c]
    /\ uid' = [uid EXCEPT ![c] = u]
    /\ UNCHANGED <<accepted, connections>>

\* Bind succeeds for an indexed connection and a user that is bound to no other
\* one; otherwise it returns an error and changes nothing.
Bind(c, u) ==
    /\ c \in connections /\ byUID[u] \in {c, NONE}
    /\ byUID' = [Unbound(c) EXCEPT ![u] = c]
    /\ uid' = [uid EXCEPT ![c] = u]
    /\ UNCHANGED <<accepted, connections>>

ManagerNext == \E c \in Conns : Add(c) \/ Remove(c) \/ \E u \in Uids : Bind(c, u)

ManagerSpec == ManagerInit /\ [][ManagerNext]_managerVars
-----------------------------------------------------------------------------
ManagerTypeOK ==
    /\ accepted \subseteq Conns /\ connections \subseteq accepted
    /\ byUID \in [Uids -> Conns \cup {NONE}]
    /\ uid \in [Conns -> Uids \cup {NONE}]

\* "Bind enforces a one-to-one UID-to-connection mapping": the index by user and
\* the sessions of the indexed connections agree in both directions, through any
\* sequence of rebinds, closes and reconnects (Bind, Remove; GetUID relies on it).
IndexExact ==
    \A c \in Conns, u \in Uids :
        byUID[u] = c <=> c \in connections /\ uid[c] = u

\* What the users of the index see: no two live connections act for one user.
OneConnectionPerUser ==
    \A c, d \in connections : uid[c] = uid[d] /\ uid[c] # NONE => c = d

\* A bound user never moves from one connection to another in one step: it is
\* released first, by its own connection's Bind or Remove (Bind's "already bound").
UidNotStolen ==
    [][\A u \in Uids : byUID[u] # NONE /\ byUID'[u] # byUID[u] => byUID'[u] = NONE]_managerVars

\* The inductive invariant of the proofs: a connection comes into the index
\* without a user (newConnection, Add), and from then on the index is exact.
IndexInv ==
    /\ ManagerTypeOK
    /\ IndexExact
    /\ \A c \in Conns \ accepted : uid[c] = NONE
=============================================================================
