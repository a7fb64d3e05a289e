--------------------------- MODULE MCMemoryQueue ---------------------------
(* Three messages and two consumers: enough for a slot to be freed and used *)
(* again while another message is held, and for two signals to race one     *)
(* waiter.                                                                  *)
EXTENDS MemoryQueue
=============================================================================
