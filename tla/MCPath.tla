-------------------------------- MODULE MCPath --------------------------------
(***************************************************************************)
(* Instances of Path for TLC.                                              *)
(***************************************************************************)
EXTENDS Path

CONSTANTS t1, t2

MCHash(n) == Len(n)   \* names of one length are in one list

\* Two threads that share paths and never modify them; one thread that
\* modifies and copies paths and takes no further references.
MCPrograms == {
    [threads |-> {t1, t2}, modifies |-> FALSE, clones |-> TRUE, refs |-> TRUE],
    [threads |-> {t1}, modifies |-> TRUE, clones |-> TRUE, refs |-> FALSE] }

\* One thread that does all of it.
MCSharing == {[threads |-> {t1}, modifies |-> TRUE, clones |-> TRUE, refs |-> TRUE]}

=============================================================================
