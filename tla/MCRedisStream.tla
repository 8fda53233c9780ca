--------------------------- MODULE MCRedisStream ---------------------------
(* Instances of RedisStream for TLC. *)
EXTENDS RedisStream
=============================================================================
