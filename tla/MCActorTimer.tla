---------------------------- MODULE MCActorTimer ----------------------------
(* What the actors do: one or two timers each, the wheel stopped or not. *)
EXTENDS ActorTimer

Once(d) == [delay |-> d, periodic |-> FALSE, async |-> FALSE]
Every(d, async) == [delay |-> d, periodic |-> TRUE, async |-> async]

LostPlans == {[timers |-> <<Once(1), Once(1)>>, stop |-> FALSE]}
MCPlans == LostPlans \cup
    {[timers |-> <<Once(2)>>, stop |-> TRUE],
     [timers |-> <<Every(1, TRUE)>>, stop |-> FALSE],
     [timers |-> <<Once(2), Every(1, FALSE)>>, stop |-> FALSE]}
=============================================================================
