------------------------------- MODULE MCLanes -------------------------------
(* Small instances of the lane ledger. *)
EXTENDS Lanes, TLC

CONSTANTS a1, l1, l2, t1, t2

SrcA == {<<"src", "a">>}
Src == {<<"src">>}
Docs == {<<"docs">>}
MCPaths == {SrcA, Src, Docs}

\* Each agent names its lanes itself and works in a worktree of its own; between the
\* two, paths are disjoint or nested.
MCRequests ==
    [a \in Agents |->
        IF a = a1 THEN {[id |-> l1, worktree |-> t1, paths |-> SrcA],
                        [id |-> l1, worktree |-> t1, paths |-> Docs]}
                  ELSE {[id |-> l2, worktree |-> t2, paths |-> Src]}]
=============================================================================
