--------------------------- MODULE MCTaskScripts ----------------------------
(* Instances of TaskScripts for model checking. *)
EXTENDS TaskScripts
=============================================================================
