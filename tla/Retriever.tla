------------------------------ MODULE Retriever ------------------------------
(***************************************************************************)
(* ApiRetriever.fetch, as run by several processes on one cache directory: *)
(* look into the payload cache, take a token from the persistent bucket,   *)
(* send the request with retries, spend the persistent budget, store the   *)
(* payload and then its metadata, and issue a query receipt.  The bucket   *)
(* and the budget are files that are loaded, changed and replaced without  *)
(* a lock; the two files of a cache entry are replaced one after the       *)
(* other; a process may be killed between any two steps.  Time is counted  *)
(* in ticks that refill one token each.                                    *)
(***************************************************************************)
EXTENDS Integers, FiniteSets

CONSTANTS
    Procs,       \* processes that share the cache directory
    Keys,        \* requests, each of its own cache key
    Payloads,    \* bodies an endpoint may answer with
    Size(_),     \* bytes of a body
    Capacity,    \* rate_limit_per_minute: tokens the bucket holds
    ByteBudget,  \* byte_budget of the endpoint
    CostBudget,  \* cost_budget_units of the endpoint
    MAX_RETRIES, \* retries after the first attempt
    Sleeps,      \* rate_limit_sleep: wait for a token instead of raising
    MaxFetches,  \* bound: fetches started
    MaxGap,      \* bound: ticks since the bucket was last saved
    MaxCrashes,  \* bound: kills
    NoFile,      \* not there
    Torn         \* what a file holds between its truncation and its writing

ASSUME RetrieverAssumption ==
    /\ Capacity \in Nat /\ ByteBudget \in Nat /\ CostBudget \in Nat
    /\ MAX_RETRIES \in Nat /\ MaxFetches \in Nat /\ MaxGap \in Nat /\ MaxCrashes \in Nat
    /\ Sleeps \in BOOLEAN /\ IsFiniteSet(Procs)
    /\ \A b \in Payloads : Size(b) \in Nat /\ b \notin {NoFile, Torn}
    /\ NoFile \notin Keys
    /\ NoFile \notin [tokens : Nat, last : Nat] \cup [bytes : Nat, cost : Nat]

VARIABLES
    clock,     \* ticks since the bucket was first full
    bucket,    \* the rate-limit file
    budget,    \* the budget file
    payload,   \* the payload file of every key
    meta,      \* the metadata file of every key: the digest it names
    ptmp,      \* the temporary file every writer of a payload uses
    mtmp,      \* the temporary file every writer of metadata uses
    pc, job,   \* where every process is, and the locals it still needs
    fetches,   \* fetches started
    crashes,
    \* what a bystander saw
    sent,      \* requests put on the wire, while nobody raced for the bucket
    stored,    \* bytes and cost units of the fetches that passed the budget, likewise
    answered,  \* <<key, body>> of every response received
    receipts,  \* <<key, body>> of every receipt handed to a caller
    raced      \* files some process replaced on the strength of a stale load

vars == <<clock, bucket, budget, payload, meta, ptmp, mtmp, pc, job, fetches, crashes,
          sent, stored, answered, receipts, raced>>
cache == <<payload, meta, ptmp, mtmp>>
seen  == <<sent, stored, answered, receipts, raced>>

Idle == [key |-> NoFile, now |-> 0, bucket |-> NoFile, attempt |-> 0, body |-> NoFile,
         budget |-> NoFile]

Nothing == [bytes |-> 0, cost |-> 0]
Min2(a, b) == IF a < b THEN a ELSE b
Max2(a, b) == IF a > b THEN a ELSE b

\* Process p goes to label l with locals j.
Goto(p, l, j) == pc' = [pc EXCEPT ![p] = l] /\ job' = [job EXCEPT ![p] = j]
\* fetch ends for p, with an error or after its receipt.
Finish(p) == Goto(p, "idle", Idle)
-----------------------------------------------------------------------------
(***************************************************************************)
(* The cache.                                                              *)
(***************************************************************************)

\* The endpoint is in the registry and the URL is https: anything else is
\* refused before any state is touched.  _read_payload needs both files.
BeginFetch(p, k) ==
    /\ pc[p] = "idle" /\ fetches < MaxFetches
    /\ fetches' = fetches + 1
    /\ IF payload[k] # NoFile /\ meta[k] # NoFile
       THEN Goto(p, "readMeta", [Idle EXCEPT !.key = k, !.body = payload[k]])
       ELSE Goto(p, "clock", [Idle EXCEPT !.key = k])
    /\ UNCHANGED <<clock, bucket, budget, cache, crashes, seen>>

\* Wrong variant: the digest of the metadata is not compared.
ReadMetaUnverified(p) ==
    LET j == job[p]
    IN  /\ pc[p] = "readMeta"
        /\ Goto(p, "receipt", j)
        /\ UNCHANGED <<clock, bucket, budget, cache, fetches, crashes, seen>>

\* The payload counts as cached only when it hashes to the digest of the
\* metadata, which another process may have replaced since; metadata that
\* cannot be parsed is no metadata.
ReadMeta(p) ==
    LET j == job[p]
    IN  /\ pc[p] = "readMeta"
        /\ IF meta[j.key] = j.body
           THEN Goto(p, "receipt", j)
           ELSE Goto(p, "clock", [j EXCEPT !.body = NoFile])
        /\ UNCHANGED <<clock, bucket, budget, cache, fetches, crashes, seen>>
-----------------------------------------------------------------------------
(***************************************************************************)
(* The token bucket.                                                       *)
(***************************************************************************)

\* A missing or damaged file is a full bucket.
LoadedBucket(b, now) == IF b = NoFile THEN [tokens |-> Capacity, last |-> now] ELSE b

\* The refill since the last save, by this process's reading of the clock.
Refilled(b, now) == Min2(Capacity, b.tokens + Max2(0, now - b.last))

\* now = time.time(), before the bucket is loaded.
ReadClock(p) ==
    /\ pc[p] = "clock"
    /\ IF Capacity = 0 THEN Finish(p) ELSE Goto(p, "loadBucket", [job[p] EXCEPT !.now = clock])
    /\ UNCHANGED <<clock, bucket, budget, cache, fetches, crashes, seen>>

LoadBucket(p) ==
    /\ pc[p] = "loadBucket"
    /\ Goto(p, "saveBucket", [job[p] EXCEPT !.bucket = bucket])
    /\ UNCHANGED <<clock, bucket, budget, cache, fetches, crashes, seen>>

\* One token taken and the file replaced; without one, the file is replaced all
\* the same, and the process sleeps or raises.
SaveBucket(p) ==
    LET j      == job[p]
        b      == LoadedBucket(j.bucket, j.now)
        tokens == Refilled(b, j.now)
    IN  /\ pc[p] = "saveBucket"
        /\ bucket' = [tokens |-> IF tokens >= 1 THEN tokens - 1 ELSE tokens, last |-> j.now]
        /\ raced' = IF bucket # j.bucket \/ b.last > j.now THEN raced \cup {"bucket"} ELSE raced
        /\ IF tokens >= 1 THEN Goto(p, "send", [j EXCEPT !.bucket = NoFile, !.now = 0])
           ELSE IF Sleeps THEN Goto(p, "clock", [j EXCEPT !.bucket = NoFile, !.now = 0])
           ELSE Finish(p)
        /\ sent' = IF "bucket" \in raced' THEN 0 ELSE sent
        /\ UNCHANGED <<clock, budget, cache, fetches, crashes, stored, answered, receipts>>
-----------------------------------------------------------------------------
(***************************************************************************)
(* The request.                                                            *)
(***************************************************************************)

\* Requests are counted as long as nobody raced for the bucket.
CountRequest == sent' = IF "bucket" \in raced THEN 0 ELSE sent + 1

\* A body arrives over https.
SendAnswered(p, b) ==
    /\ pc[p] = "send" /\ CountRequest
    /\ answered' = answered \cup {<<job[p].key, b>>}
    /\ Goto(p, "loadBudget", [job[p] EXCEPT !.body = b, !.attempt = 0])
    /\ UNCHANGED <<clock, bucket, budget, cache, fetches, crashes, stored, receipts, raced>>

SendRetriedForEver(p) ==
    /\ pc[p] = "send"
    /\ Goto(p, "send", [job[p] EXCEPT !.attempt = (@ + 1) % 2])
    /\ UNCHANGED <<sent, clock, bucket, budget, cache, fetches, crashes, stored, answered, receipts,
                   raced>>

\* 429, 5xx or a transport error: after a pause the request is sent again, on
\* the same token, until the retries are used up.
SendRetried(p) ==
    /\ pc[p] = "send" /\ CountRequest
    /\ IF job[p].attempt < MAX_RETRIES
       THEN Goto(p, "send", [job[p] EXCEPT !.attempt = @ + 1]) ELSE Finish(p)
    /\ UNCHANGED <<clock, bucket, budget, cache, fetches, crashes, stored, answered, receipts,
                   raced>>

\* A timeout, any other HTTP error, or a redirect away from https: no retry.
SendRefused(p) ==
    /\ pc[p] = "send" /\ CountRequest
    /\ Finish(p)
    /\ UNCHANGED <<clock, bucket, budget, cache, fetches, crashes, stored, answered, receipts,
                   raced>>
-----------------------------------------------------------------------------
(***************************************************************************)
(* The budget, and the two files of the cache entry.                       *)
(***************************************************************************)
LoadedBudget == IF budget = NoFile THEN [bytes |-> ByteBudget, cost |-> CostBudget] ELSE budget

LoadBudget(p) ==
    /\ pc[p] = "loadBudget"
    /\ Goto(p, "saveBudget", [job[p] EXCEPT !.budget = LoadedBudget])
    /\ UNCHANGED <<clock, bucket, budget, cache, fetches, crashes, seen>>

Affords(b, body) == Size(body) <= b.bytes /\ b.cost >= 1

\* A body the loaded budget cannot pay for is dropped, and nothing is cached.
SaveBudget(p) ==
    LET j == job[p]
    IN  /\ pc[p] = "saveBudget"
        /\ IF Affords(j.budget, j.body)
           THEN /\ budget' = [bytes |-> j.budget.bytes - Size(j.body), cost |-> j.budget.cost - 1]
                /\ raced' = IF LoadedBudget # j.budget THEN raced \cup {"budget"} ELSE raced
                /\ stored' = IF "budget" \in raced' THEN Nothing
                             ELSE [bytes |-> stored.bytes + Size(j.body), cost |-> stored.cost + 1]
                /\ Goto(p, "payloadTmp", [j EXCEPT !.budget = NoFile])
           ELSE Finish(p) /\ UNCHANGED <<budget, raced, stored>>
        /\ UNCHANGED <<clock, bucket, cache, fetches, crashes, sent, answered, receipts>>

\* Opening the temporary file truncates it, whoever else is writing it.
OpenPayloadTmp(p) ==
    /\ pc[p] = "payloadTmp"
    /\ ptmp' = [ptmp EXCEPT ![job[p].key] = Torn]
    /\ Goto(p, "payloadWrite", job[p])
    /\ UNCHANGED <<clock, bucket, budget, payload, meta, mtmp, fetches, crashes, seen>>

\* The bytes go into the file that was opened, which another process may have
\* moved into place meanwhile.
WritePayloadTmp(p) ==
    LET k == job[p].key
    IN  /\ pc[p] = "payloadWrite"
        /\ IF ptmp[k] # NoFile
           THEN ptmp' = [ptmp EXCEPT ![k] = job[p].body] /\ UNCHANGED payload
           ELSE payload' = [payload EXCEPT ![k] = job[p].body] /\ UNCHANGED ptmp
        /\ Goto(p, "payload", job[p])
        /\ UNCHANGED <<clock, bucket, budget, meta, mtmp, fetches, crashes, seen>>

\* os.replace moves whatever the shared temporary file holds, and fails when
\* another process has moved it already.
ReplacePayload(p) ==
    LET k == job[p].key
    IN  /\ pc[p] = "payload"
        /\ IF ptmp[k] # NoFile
           THEN /\ payload' = [payload EXCEPT ![k] = ptmp[k]]
                /\ ptmp' = [ptmp EXCEPT ![k] = NoFile]
                /\ Goto(p, "metaTmp", job[p])
           ELSE Finish(p) /\ UNCHANGED <<payload, ptmp>>
        /\ UNCHANGED <<clock, bucket, budget, meta, mtmp, fetches, crashes, seen>>

WriteMetaTmp(p) ==
    /\ pc[p] = "metaTmp"
    /\ mtmp' = [mtmp EXCEPT ![job[p].key] = job[p].body]
    /\ Goto(p, "meta", job[p])
    /\ UNCHANGED <<clock, bucket, budget, payload, meta, ptmp, fetches, crashes, seen>>

ReplaceMeta(p) ==
    LET k == job[p].key
    IN  /\ pc[p] = "meta"
        /\ IF mtmp[k] # NoFile
           THEN /\ meta' = [meta EXCEPT ![k] = mtmp[k]]
                /\ mtmp' = [mtmp EXCEPT ![k] = NoFile]
                /\ Goto(p, "receipt", job[p])
           ELSE Finish(p) /\ UNCHANGED <<meta, mtmp>>
        /\ UNCHANGED <<clock, bucket, budget, payload, ptmp, fetches, crashes, seen>>

\* _build_receipt digests the body it is given, cached or not.
BuildReceipt(p) ==
    /\ pc[p] = "receipt"
    /\ receipts' = receipts \cup {<<job[p].key, job[p].body>>}
    /\ Finish(p)
    /\ UNCHANGED <<clock, bucket, budget, cache, fetches, crashes, sent, stored, answered, raced>>
-----------------------------------------------------------------------------
\* Time may run ahead of the bucket by MaxGap ticks: a process that waits for a
\* token saves the bucket in every round, so it is never starved by the bound.
Tick ==
    /\ clock - (IF bucket = NoFile THEN 0 ELSE bucket.last) < MaxGap
    /\ clock' = clock + 1
    /\ UNCHANGED <<bucket, budget, cache, pc, job, fetches, crashes, seen>>

\* A kill loses the locals; files stay as they are.
Crash(p) ==
    /\ pc[p] # "idle" /\ crashes < MaxCrashes
    /\ crashes' = crashes + 1 /\ Finish(p)
    /\ UNCHANGED <<clock, bucket, budget, cache, fetches, seen>>

Init ==
    /\ clock = 0 /\ bucket = NoFile /\ budget = NoFile
    /\ payload = [k \in Keys |-> NoFile] /\ meta = [k \in Keys |-> NoFile]
    /\ ptmp = [k \in Keys |-> NoFile] /\ mtmp = [k \in Keys |-> NoFile]
    /\ pc = [p \in Procs |-> "idle"] /\ job = [p \in Procs |-> Idle]
    /\ fetches = 0 /\ crashes = 0
    /\ sent = 0 /\ stored = Nothing
    /\ answered = {} /\ receipts = {} /\ raced = {}

Send(p) == SendRetried(p) \/ SendRefused(p) \/ \E b \in Payloads : SendAnswered(p, b)
ProcStep(p) ==
    \/ ReadMeta(p) \/ ReadClock(p) \/ LoadBucket(p) \/ SaveBucket(p) \/ Send(p)
    \/ LoadBudget(p) \/ SaveBudget(p) \/ OpenPayloadTmp(p) \/ WritePayloadTmp(p)
    \/ ReplacePayload(p) \/ WriteMetaTmp(p) \/ ReplaceMeta(p) \/ BuildReceipt(p)

Next ==
    \/ \E p \in Procs : ProcStep(p) \/ Crash(p) \/ \E k \in Keys : BeginFetch(p, k)
    \/ Tick

Spec == Init /\ [][Next]_vars

\* A process that is not killed goes on, and time passes.
FairSpec == Spec /\ WF_vars(Tick) /\ \A p \in Procs : WF_vars(ProcStep(p))
-----------------------------------------------------------------------------
(* Properties *)

\* A receipt, cached or not, is for a body the endpoint did send for that very
\* request, whatever the interleaving of writers and readers of the cache.
ReceiptIsAnswer == receipts \subseteq answered

\* No more bytes or cost units are spent than the policy grants, unless two
\* processes overlapped between loading and saving the budget.
BudgetKept ==
    "budget" \notin raced => stored.bytes <= ByteBudget /\ stored.cost <= CostBudget

\* Requests on the wire stay below what the bucket grants, each token paying
\* for all the retries of its fetch, unless the bucket file was raced for.
RequestsMetered ==
    "bucket" \notin raced => sent <= (1 + MAX_RETRIES) * (Capacity + clock)

\* What is left in the budget file is what was granted less what was spent:
\* a kill at any moment neither forgets a spending nor counts it twice.
BudgetAccounted ==
    ("budget" \notin raced /\ budget # NoFile) =>
        budget.bytes = ByteBudget - stored.bytes /\ budget.cost = CostBudget - stored.cost

\* A fetch that has begun comes back, with a receipt or an error.
FetchEnds == \A p \in Procs : pc[p] # "idle" ~> pc[p] = "idle"

\* Receipts are answers, and the budget and the rate limit hold.
RetrievalSound ==
    /\ ReceiptIsAnswer
    /\ BudgetKept
    /\ BudgetAccounted
    /\ RequestsMetered
=============================================================================
