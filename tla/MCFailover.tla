------------------------------ MODULE MCFailover ------------------------------
(***************************************************************************)
(* Instances of Failover for TLC.                                          *)
(***************************************************************************)
EXTENDS Failover

\* Every message fits one fragment / the second one needs two.
MCPartsOne == [m \in Msgs |-> 1]
MCPartsTwo == [m \in Msgs |-> IF m = 2 THEN 2 ELSE 1]

=============================================================================
