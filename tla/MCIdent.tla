------------------------------- MODULE MCIdent -------------------------------
(* Ident is checked as it stands: all its constants are numbers. *)
EXTENDS Ident
=============================================================================
