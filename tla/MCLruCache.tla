----------------------------- MODULE MCLruCache -----------------------------
(* Instances of LruCache for model checking. *)
EXTENDS LruCache
=============================================================================
