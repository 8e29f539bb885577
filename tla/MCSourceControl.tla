-------------------------- MODULE MCSourceControl --------------------------
(* Small instances of the control of a source. *)
EXTENDS SourceControl
=============================================================================
