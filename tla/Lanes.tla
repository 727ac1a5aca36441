-------------------------------- MODULE Lanes --------------------------------
(***************************************************************************)
(* The active-lane ledger (srl.autonomy.lanes).  Its operations are pure   *)
(* functions on a ledger in memory; an agent loads the file, applies one,  *)
(* and saves the file, and nothing in the module holds a lock in between:  *)
(* any other agent may load and save meanwhile, and a save replaces the    *)
(* whole file.                                                             *)
(*                                                                         *)
(* A heartbeat stamp is kept as its age, capped at the time to live: the   *)
(* only thing any operation asks of it; parked and completed are both      *)
(* "released", which no operation tells apart.  An owned path is its       *)
(* sequence of parts.  Saving sorts the lanes by id and keeps the order of *)
(* those with one id; no operation depends on the order of different ids,  *)
(* so the ledger stays in insertion order here.                            *)
(***************************************************************************)
EXTENDS Naturals, Sequences, FiniteSets

CONSTANTS
    Agents,       \* processes that run lanes
    LaneIds,      \* lane identifiers
    Worktrees,    \* worktree fingerprints
    OwnedPaths,   \* the sets of paths a lane may ask for
    RequestsOf,   \* RequestsOf[a]: the lanes agent a may ask for
    Caps,         \* the caps a policy may set (policy_lane_cap)
    Ttl,          \* ttl_seconds, in ticks
    MaxLanes      \* bound: entries in the ledger

ASSUME LanesAssumption ==
    /\ Caps \subseteq Nat /\ Ttl \in Nat \ {0} /\ MaxLanes \in Nat
    /\ RequestsOf \in [Agents -> SUBSET [id : LaneIds, worktree : Worktrees, paths : OwnedPaths]]
    /\ \A P \in OwnedPaths : \A p \in P : Len(p) \in Nat

VARIABLES
    disk,   \* automation/lanes.json
    mem,    \* the ledger an agent has loaded
    agentPc,     \* idle, loaded (about to apply an operation), or to save
    claim,  \* what the agent will know once the save is done
    holds,  \* the lane an agent believes it holds, with the age of its lease
    stale,  \* another agent has saved the file since this one loaded it
    raced,  \* some save has replaced a file its agent never saw
    cap     \* the lane cap of the policy all agents have loaded

ledgerVars == <<disk, mem, agentPc, claim, holds, stale, raced>>
laneVars == <<ledgerVars, cap>>

Statuses == {"active", "released", "stopped"}
Lane == [id : LaneIds, worktree : Worktrees, paths : OwnedPaths,
         age : 0..Ttl, status : Statuses]
\* The lane of an agent that holds none.
NoLane == [id |-> "none"]
Claims == {[id |-> l.id, paths |-> l.paths, age |-> l.age] : l \in Lane} \cup {NoLane}

Active(ledger) == {i \in DOMAIN ledger : ledger[i].status = "active"}

\* Wrong variant: only the same path and what it contains collide, not what contains it.
PathsOverlapOneWay(a, b) ==
    Len(a) <= Len(b) /\ \A k \in 1..Len(a) : k <= Len(b) => a[k] = b[k]

\* One is the other, or contains it.
PathsOverlap(a, b) ==
    \A k \in 1..Len(a) : k <= Len(b) => a[k] = b[k]
SetsOverlap(P, Q) == \E a \in P, b \in Q : PathsOverlap(a, b)

LanesInit ==
    /\ disk = << >>
    /\ mem = [a \in Agents |-> << >>]
    /\ agentPc = [a \in Agents |-> "idle"]
    /\ claim = [a \in Agents |-> NoLane]
    /\ holds = [a \in Agents |-> NoLane]
    /\ stale = [a \in Agents |-> FALSE] /\ raced = FALSE
    /\ cap \in Caps

\* The call raised: nothing is saved.
Give(a) ==
    /\ agentPc' = [agentPc EXCEPT ![a] = "idle"]
    /\ mem' = [mem EXCEPT ![a] = << >>]
    /\ stale' = [stale EXCEPT ![a] = FALSE]
    /\ UNCHANGED <<disk, claim, raced>>

\* The operation turned the loaded ledger into `ledger`.
Apply(a, ledger, c) ==
    /\ mem' = [mem EXCEPT ![a] = ledger]
    /\ claim' = [claim EXCEPT ![a] = c]
    /\ agentPc' = [agentPc EXCEPT ![a] = "save"]
    /\ UNCHANGED <<disk, holds, stale, raced>>
-----------------------------------------------------------------------------
(* Wrong variants of the definitions below, each a bug the properties catch. *)

\* Leases are compared the wrong way round: a silent lane is kept.
LapsedNever(l) == l.status = "active" /\ l.age > Ttl

\* A heartbeat finds its lane by the id alone and writes it back as active.
HeartbeatRevives(a) ==
    LET mine == {i \in DOMAIN mem[a] : mem[a][i].id = holds[a].id}
    IN  /\ agentPc[a] = "loaded" /\ holds[a] # NoLane
        /\ \/ \E i \in mine :
                Apply(a, [mem[a] EXCEPT ![i].age = 0, ![i].status = "active"],
                      [holds[a] EXCEPT !.age = 0])
           \/ mine = {} /\ Give(a) /\ holds' = [holds EXCEPT ![a] = NoLane]

-----------------------------------------------------------------------------
\* load_ledger
Load(a) ==
    /\ agentPc[a] = "idle"
    /\ mem' = [mem EXCEPT ![a] = disk]
    /\ agentPc' = [agentPc EXCEPT ![a] = "loaded"]
    /\ UNCHANGED <<disk, claim, holds, stale, raced>>

\* The checks of acquire_lane: cap, ownership, worktree, lane id.
MayAcquire(ledger, l) ==
    /\ Cardinality(Active(ledger)) < cap
    /\ \A i \in Active(ledger) :
         /\ ~SetsOverlap(l.paths, ledger[i].paths)
         /\ ledger[i].worktree # l.worktree
         /\ ledger[i].id # l.id

Acquire(a) ==
    /\ agentPc[a] = "loaded" /\ holds[a] = NoLane
    /\ Len(mem[a]) < MaxLanes
    /\ \E q \in RequestsOf[a] :
         LET l == [id |-> q.id, worktree |-> q.worktree, paths |-> q.paths,
                   age |-> 0, status |-> "active"]
         IN  \/ /\ MayAcquire(mem[a], l)
                /\ Apply(a, Append(mem[a], l), [id |-> q.id, paths |-> q.paths, age |-> 0])
             \/ ~MayAcquire(mem[a], l) /\ Give(a) /\ UNCHANGED holds

\* heartbeat: the active lane of that id is refreshed.  Without one the call
\* raises, and the agent knows that its lane is gone.
Heartbeat(a) ==
    LET mine == {i \in Active(mem[a]) : mem[a][i].id = holds[a].id}
    IN  /\ agentPc[a] = "loaded" /\ holds[a] # NoLane
        /\ \/ \E i \in mine :
                Apply(a, [mem[a] EXCEPT ![i].age = 0], [holds[a] EXCEPT !.age = 0])
           \/ mine = {} /\ Give(a) /\ holds' = [holds EXCEPT ![a] = NoLane]

\* release_lane: the first lane of that id, whatever its status.
Release(a) ==
    LET same == {i \in DOMAIN mem[a] : mem[a][i].id = holds[a].id}
    IN  /\ agentPc[a] = "loaded" /\ holds[a] # NoLane
        /\ \/ \E i \in same :
                /\ \A j \in same : i <= j
                /\ Apply(a, [mem[a] EXCEPT ![i].status = "released"], NoLane)
           \/ same = {} /\ Give(a) /\ UNCHANGED holds

\* expire_leases: every active lane past its time to live is stopped, if any is.
Lapsed(l) == l.status = "active" /\ l.age >= Ttl
ExpireLeases(a) ==
    /\ agentPc[a] = "loaded"
    /\ Apply(a, [i \in DOMAIN mem[a] |->
                   IF Lapsed(mem[a][i]) THEN [mem[a][i] EXCEPT !.status = "stopped"]
                                        ELSE mem[a][i]],
             holds[a])

\* save_ledger, atomic: the file is replaced, whatever it held.
Save(a) ==
    /\ agentPc[a] = "save"
    /\ disk' = mem[a]
    /\ holds' = [holds EXCEPT ![a] = claim[a]]
    /\ mem' = [mem EXCEPT ![a] = << >>]
    /\ claim' = [claim EXCEPT ![a] = NoLane]
    /\ agentPc' = [agentPc EXCEPT ![a] = "idle"]
    /\ stale' = [b \in Agents |-> b # a /\ agentPc[b] # "idle"]
    /\ raced' = (raced \/ stale[a])
-----------------------------------------------------------------------------
\* The agent dies; its lane stays in the ledger.
Die(a) ==
    /\ agentPc' = [agentPc EXCEPT ![a] = "idle"]
    /\ mem' = [mem EXCEPT ![a] = << >>]
    /\ claim' = [claim EXCEPT ![a] = NoLane]
    /\ holds' = [holds EXCEPT ![a] = NoLane]
    /\ stale' = [stale EXCEPT ![a] = FALSE]
    /\ UNCHANGED <<disk, raced>>

\* Time passes, for leases in every copy of the ledger.
Older(n) == IF n < Ttl THEN n + 1 ELSE n
Aged(ledger) == [i \in DOMAIN ledger |-> IF ledger[i].status = "active"
                                         THEN [ledger[i] EXCEPT !.age = Older(@)]
                                         ELSE ledger[i]]
AgedClaim(c) == IF c = NoLane THEN c ELSE [c EXCEPT !.age = Older(@)]
Tick ==
    /\ disk' = Aged(disk)
    /\ mem' = [a \in Agents |-> Aged(mem[a])]
    /\ claim' = [a \in Agents |-> AgedClaim(claim[a])]
    /\ holds' = [a \in Agents |-> AgedClaim(holds[a])]
    /\ UNCHANGED <<agentPc, stale, raced>>

AgentStep(a) == Acquire(a) \/ Heartbeat(a) \/ Release(a) \/ ExpireLeases(a) \/ Save(a)
LanesNext ==
    /\ \/ \E a \in Agents : Load(a) \/ AgentStep(a) \/ Die(a)
       \/ Tick
    /\ UNCHANGED cap

LanesSpec == LanesInit /\ [][LanesNext]_laneVars

\* Somebody keeps loading the ledger and expiring leases, of the calls that are tried
\* again and again some are not killed, and time passes.
LanesFairSpec ==
    /\ LanesSpec /\ WF_ledgerVars(Tick)
    /\ \A a \in Agents : /\ WF_ledgerVars(Load(a)) /\ SF_ledgerVars(ExpireLeases(a))
                         /\ SF_ledgerVars(Save(a))
-----------------------------------------------------------------------------
(* Properties *)

\* Every variable has its type.
LanesTypeOK ==
    /\ disk \in Seq(Lane)
    /\ mem \in [Agents -> Seq(Lane)]
    /\ agentPc \in [Agents -> {"idle", "loaded", "save"}]
    /\ claim \in [Agents -> Claims]
    /\ holds \in [Agents -> Claims]
    /\ stale \in [Agents -> BOOLEAN] /\ raced \in BOOLEAN
    /\ cap \in Caps

\* The file never shows more active lanes than the policy allows, nor two that
\* own a common path, a worktree or an id.
LedgerConsistent ==
    /\ Cardinality(Active(disk)) <= cap
    /\ \A i, j \in Active(disk) : i # j =>
         /\ ~SetsOverlap(disk[i].paths, disk[j].paths)
         /\ disk[i].worktree # disk[j].worktree
         /\ disk[i].id # disk[j].id

\* Two agents whose leases are live never own a common path.  The ledger does
\* not give this to agents whose saves race: a save that replaces a file its agent
\* never saw erases the other's lane, and both work on.
HoldersDisjoint ==
    \A a, b \in Agents :
        (/\ a # b /\ holds[a] # NoLane /\ holds[b] # NoLane
         /\ holds[a].age < Ttl /\ holds[b].age < Ttl)
        => ~SetsOverlap(holds[a].paths, holds[b].paths)

\* The ledger is the truth: a lane whose lease is live is in the file, active.
HoldersListed ==
    \A a \in Agents :
        (holds[a] # NoLane /\ holds[a].age < Ttl) =>
            \E i \in Active(disk) : /\ disk[i].id = holds[a].id
                                    /\ disk[i].paths = holds[a].paths
                                    /\ disk[i].age = holds[a].age

\* The step is a save that replaces a file its agent never saw.
StaleSave == \E a \in Agents : stale[a] /\ Save(a)

\* No entry goes away, and a lane that is released, completed or stopped is never
\* active again, except by a save that replaces a file its agent never saw: a
\* heartbeat on a copy in which the lane was still active.
NeverRevived ==
    [][\/ StaleSave
       \/ \A i \in DOMAIN disk :
            /\ i \in DOMAIN disk'
            /\ disk[i].status # "active" => disk'[i].status # "active"]_laneVars

\* A lane nobody holds any more does not keep its slot for ever, as long as no save
\* replaces a file its agent never saw: such a save may put the lane back each time.
OrphanStopped ==
    \A id \in LaneIds :
        (\E i \in Active(disk) : disk[i].id = id /\ \A a \in Agents : holds[a].id # id)
        ~> (\/ \A i \in Active(disk) : disk[i].id # id
            \/ \E a \in Agents : holds[a].id = id
            \/ raced)

\* The file is consistent whatever the agents do at once; what every agent believes
\* of it is true until a save replaces a file its agent never saw.
LedgerSound ==
    /\ LanesTypeOK
    /\ LedgerConsistent
    /\ ~raced => HoldersDisjoint /\ HoldersListed
=============================================================================
