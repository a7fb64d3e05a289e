--------------------------- MODULE MCRateLimiter ---------------------------
(* Three messages to one address and one to another.  A message whose push  *)
(* fails comes back, so one of the three can refill the window again and    *)
(* again while the two others are in batches of their own: enough to reach  *)
(* the bound.  The fourth is squashed when it is retried, and its batch     *)
(* competes for the squasher with those of the first address.               *)
EXTENDS RateLimiter

CONSTANTS a1, a2, a3, b1, toA, toB

MCMessages == {a1, a2, a3, b1}
MCKeys     == {toA, toB}
MCKeyOf    == [m \in MCMessages |-> IF m = b1 THEN toB ELSE toA]
=============================================================================
