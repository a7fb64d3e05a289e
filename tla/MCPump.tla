------------------------------- MODULE MCPump -------------------------------
(* Messages to one address; m2 cannot be converted, except where the queue  *)
(* is in memory and there is a squasher.                                    *)
EXTENDS Pump

CONSTANTS m1, m2, toA

MCOne   == {m1}
MCTwo   == {m1, m2}
MCKeyOfOne == [m \in MCOne |-> toA]
MCKeyOfTwo == [m \in MCTwo |-> toA]

MemorySquashing == [squashing |-> TRUE,  redis |-> FALSE, bad |-> {}]
RedisSquashing  == [squashing |-> TRUE,  redis |-> TRUE,  bad |-> {m2}]
RedisOne        == [squashing |-> TRUE,  redis |-> TRUE,  bad |-> {}]
RedisPlain      == [squashing |-> FALSE, redis |-> TRUE,  bad |-> {m2}]
MemoryPlain     == [squashing |-> FALSE, redis |-> FALSE, bad |-> {m2}]

MCConfigs       == {MemorySquashing, RedisSquashing, RedisPlain, MemoryPlain}
MCHangConfigs   == {MemorySquashing}
MCOrphanConfigs == {RedisOne}
=============================================================================
