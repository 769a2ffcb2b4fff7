---------------------------- MODULE MCThreadPool ----------------------------
(* Instances of ThreadPool for model checking. *)
EXTENDS ThreadPool
=============================================================================
