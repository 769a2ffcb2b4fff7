---------------------------- MODULE MCEventLoop -----------------------------
(* Instances of EventLoop for model checking. *)
EXTENDS EventLoop
=============================================================================
