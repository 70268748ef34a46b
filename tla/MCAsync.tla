------------------------------- MODULE MCAsync -------------------------------
(* Model values for Async. *)
EXTENDS Async

ThreeJobs == {"j1", "j2", "j3"}

AllCalls == CallKinds
=============================================================================
