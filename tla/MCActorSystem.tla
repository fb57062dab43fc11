--------------------------- MODULE MCActorSystem ---------------------------
(* Model-checking instances of ActorSystem: which call asks for which ID.   *)
EXTENDS ActorSystem, TLC

CONSTANTS c1, c2, k1, k2, idA, idB, method1

\* Two calls for one ID (a re-creation, or a race), with a child of the first
\* one; two IDs whose handlers claim the same MethodID; one Actor whose child
\* is asked for by its own loop and by a caller.
Twice == (c1 :> idA) @@ (c2 :> idA)
Both == (c1 :> idA) @@ (c2 :> idB)
Journeys == {[ids |-> Twice, calls |-> {c1, c2, k1}], [ids |-> Both, calls |-> {c1, c2}],
             [ids |-> Twice, calls |-> {c1, k1, k2}]}

\* Both children are the first call's: one is created by the parent's loop, one
\* by a caller.
FirstCall == [k \in Kids |-> c1]

MethodOfAll == [id \in Ids |-> method1]
=============================================================================
