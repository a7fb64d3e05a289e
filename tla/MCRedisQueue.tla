---------------------------- MODULE MCRedisQueue ----------------------------
(* Two consumers and two messages: one may be requeued again and again   *)
(* while another waits its turn.                                           *)
EXTENDS RedisQueue
=============================================================================
