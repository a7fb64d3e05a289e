------------------------------ MODULE MCServer ------------------------------
(* Two services, the first of which squashes; two requests to the first and *)
(* one to the second; two collectors that ask for one entry each, of the    *)
(* three there can be.                                                      *)
EXTENDS Server

CONSTANTS s1, s2, r1, r2, r3

MCServices  == {s1, s2}
MCSquashing == {s1}
MCRequests  == {r1, r2, r3}
MCTarget    == [r \in MCRequests |-> IF r = r3 THEN s2 ELSE s1]
=============================================================================
