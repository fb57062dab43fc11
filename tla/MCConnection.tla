---------------------------- MODULE MCConnection ----------------------------
(* A model-checking instance of Connection.  IDs are tested for equality     *)
(* only, so one assignment of IDs stands for all that repeat the same ones.  *)
EXTENDS Connection

FirstRequest == CHOOSE r \in Requests : TRUE
FirstId == CHOOSE i \in Ids : TRUE

\* Two requests meet the limit of one with different IDs, and the table of IDs
\* with the same one.
MCInit == Init /\ idOf[FirstRequest] = FirstId
               /\ (\A r \in Requests \ cast : idOf[r] = FirstId)
               /\ maxInflight = (IF Requests \subseteq cast /\ \A r \in Requests : idOf[r] = FirstId
                                 THEN 2 ELSE 1)
MCSpec == MCInit /\ [][Next]_vars /\ Fairness
=============================================================================
