--------------------------- MODULE SchedulerOrder ---------------------------
(***************************************************************************)
(* The scheduler with one more history variable: how many requests were    *)
(* put into the queue while a request waited in it.  Sequence numbers are  *)
(* taken from what is queued at the moment and repeat, so the order of     *)
(* arrival has to be kept beside them.                                     *)
(***************************************************************************)
EXTENDS Scheduler

VARIABLE seniority  \* enqueues since the request was last enqueued

OrderInit == Init /\ seniority = [r \in Requests |-> 0]

\* The requests a step puts into the queue.
Enqueued == {r \in Requests : queued'[r].gen > queued[r].gen}

OrderNext ==
    /\ Next
    /\ seniority' = [r \in Requests |->
         IF r \in Files(queued) \ Enqueued THEN seniority[r] + Cardinality(Enqueued)
         ELSE 0]

OrderSpec == OrderInit /\ [][OrderNext]_<<vars, seniority>>
-----------------------------------------------------------------------------
\* First come, first served among requests of one priority and pool, as one
\* client submits them and whatever was dispatched or recovered meanwhile.  (A
\* recovered request takes its place from a listing that may be out of date.)
EqualsInOrder ==
    [][\A w \in Workers : Choose(w) /\ job'[w] # Fresh =>
         LET s == job'[w].req IN
         ~ \E r \in Files(queued) :
            /\ Prio[r] = Prio[s] /\ PoolRank(r) = PoolRank(s)
            /\ queued[r].gen = 1 /\ queued[s].gen = 1
            /\ seniority[r] > seniority[s]]_<<vars, seniority>>
=============================================================================
