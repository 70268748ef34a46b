------------------------------- MODULE MCTimer -------------------------------
(* Model values for Timer. *)
EXTENDS Timer

Two   == {"a", "b"}
Three == {"a", "b", "c"}

\* The delays.
Short   == [t \in Two |-> IF t = "a" THEN 1 ELSE 3]
Spread  == [t \in Three |-> CASE t = "a" -> 1 [] t = "b" -> 2 [] t = "c" -> 4]

AllCalls   == {"init", "reset", "destroy", "flush", "critical"}
InitOnly   == {"init"}
=============================================================================
