-------------------------- MODULE MCConnectionPool --------------------------
(***************************************************************************)
(* Instances of ConnectionPool for TLC.                                    *)
(***************************************************************************)
EXTENDS ConnectionPool, TLC

CONSTANTS a, b, m1, m2

\* "a"
One == {<<<<a>>>>}

\* "a && b"
And == {<<<<a, b>>>>}

\* "a && b", "a || b", "a"
Several == And \union One \union {<<<<a>>, <<b>>>>}

\* No operation treats two messages differently.
Symmetry == Permutations(Msg)

=============================================================================
