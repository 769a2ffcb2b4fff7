---------------------------- MODULE MCRedisClient ---------------------------
(* Instances of RedisClient for model checking. *)
EXTENDS RedisClient
=============================================================================
