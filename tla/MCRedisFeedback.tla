-------------------------- MODULE MCRedisFeedback --------------------------
(* Two collectors, a job that pops by itself, and three entries: a limit of  *)
(* two may find one entry, and remove another that was pushed, or is next   *)
(* because somebody else removed the first, with one more to follow.         *)
EXTENDS RedisFeedback, TLC

\* No property or action tells one collector from another.
Symmetry == Permutations(Collectors)
=============================================================================
