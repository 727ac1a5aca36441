---------------------------- MODULE MCExecution ----------------------------
(* A run of one input; the policy documents a host may hold: the shipped   *)
(* one, one that asks for more scratch in the exception, one that asks for  *)
(* more than the absolute cap, and one with a wall time of zero.            *)
EXTENDS Execution, TLC

Env(cpu, rss, scratch, wall) ==
    [cpu |-> cpu, rss |-> rss, scratch |-> scratch, wall |-> wall]

Doc(default, exception) ==
    [default |-> default, exception |-> exception, canonical_writes |-> 0,
     grants_authority |-> FALSE, required_free_disk |-> 1]

MCPolicyDocs ==
    {Doc(Env(1, 1, 1, 1), Env(2, 2, 1, 2)),
     Doc(Env(1, 1, 1, 1), Env(2, 2, 2, 2)),
     Doc(Env(1, 1, 1, 1), Env(3, 2, 1, 2)),
     Doc(Env(1, 1, 1, 0), Env(1, 1, 1, 2))}
============================================================================
