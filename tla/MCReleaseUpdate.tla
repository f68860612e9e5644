-------------------------- MODULE MCReleaseUpdate --------------------------
(* One file operation fails in the passing run. *)
EXTENDS ReleaseUpdate
=============================================================================
