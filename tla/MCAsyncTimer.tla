---------------------------- MODULE MCAsyncTimer ----------------------------
(* Instances of AsyncTimer for model checking. *)
EXTENDS AsyncTimer
=============================================================================
