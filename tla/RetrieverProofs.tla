--------------------------- MODULE RetrieverProofs ---------------------------
(***************************************************************************)
(* Proofs about the retriever: for any number of processes, requests,      *)
(* bodies, budgets, retries and kills.  That a receipt is for an answer of *)
(* the endpoint holds whatever the writers and readers of the cache do;    *)
(* the budget and the rate limit hold as long as nobody replaced their     *)
(* file on the strength of a stale load.                                   *)
(***************************************************************************)
EXTENDS Retriever, FiniteSetTheorems, TLAPS

Buckets == [tokens : Nat, last : Nat]
Budgets == [bytes : Nat, cost : Nat]
Bodies  == Payloads \cup {NoFile, Torn}
Jobs == [key : Keys \cup {NoFile}, now : Nat, bucket : Buckets \cup {NoFile},
         attempt : 0..MAX_RETRIES, body : Bodies, budget : Budgets \cup {NoFile}]

\* Where a process holds a body it was sent, or found under its own digest.
HasBody == {"loadBudget", "saveBudget", "payloadTmp", "payloadWrite", "payload", "metaTmp",
            "meta", "receipt"}
Labels == {"idle", "readMeta", "clock", "loadBucket", "saveBucket", "send"} \cup HasBody

\* What a process has at hand at label l, by the clock c.
AtHand(l, j, c) ==
    /\ l # "idle" => j.key \in Keys
    /\ l = "readMeta" => j.body # NoFile
    /\ l = "saveBudget" => j.budget \in Budgets
    /\ j.now <= c

ControlTypes ==
    /\ pc \in [Procs -> Labels] /\ job \in [Procs -> Jobs]
    /\ \A p \in Procs : AtHand(pc[p], job[p], clock)
FileTypes ==
    /\ clock \in Nat
    /\ bucket # NoFile => bucket \in Buckets /\ bucket.last <= clock
    /\ budget # NoFile => budget \in Budgets
    /\ payload \in [Keys -> Bodies] /\ ptmp \in [Keys -> Bodies]
    /\ meta \in [Keys -> Payloads \cup {NoFile}] /\ mtmp \in [Keys -> Payloads \cup {NoFile}]
    /\ sent \in Nat /\ stored \in Budgets

\* A digest that is named, in place or not yet, is one of an answer, and so is
\* the body every process works with past the cache.
AnswerInv ==
    /\ answered \subseteq Keys \X Payloads
    /\ receipts \subseteq answered
    /\ \A k \in Keys : /\ meta[k] # NoFile => <<k, meta[k]>> \in answered
                       /\ mtmp[k] # NoFile => <<k, mtmp[k]>> \in answered
    /\ \A p \in Procs : pc[p] \in HasBody => <<job[p].key, job[p].body>> \in answered

\* What is left and what was spent make up the grant.
BudgetInv ==
    "budget" \notin raced =>
        IF budget = NoFile THEN stored = Nothing
        ELSE /\ stored.bytes + budget.bytes = ByteBudget
             /\ stored.cost + budget.cost = CostBudget

\* The attempts the processes on the wire still have on the tokens they took.
Owed == {a \in Procs \X (0..MAX_RETRIES) : pc[a[1]] = "send" /\ job[a[1]].attempt <= a[2]}

\* Requests sent, attempts still owed and tokens in the file, each worth all the
\* attempts of a fetch, are paid for by the capacity and the time of the last save.
MeterInv ==
    /\ bucket = NoFile => sent = 0 /\ Owed = {}
    /\ "bucket" \notin raced /\ bucket # NoFile =>
         sent + Cardinality(Owed) + (1 + MAX_RETRIES) * bucket.tokens
            <= (1 + MAX_RETRIES) * (Capacity + bucket.last)

RetrieverInv == ControlTypes /\ FileTypes /\ AnswerInv /\ BudgetInv /\ MeterInv
-----------------------------------------------------------------------------
\* What the assumptions say of the constants, in the form the steps use.
LEMMA Consts ==
    /\ Capacity \in Nat /\ ByteBudget \in Nat /\ CostBudget \in Nat /\ MAX_RETRIES \in Nat
    /\ \A b \in Payloads : Size(b) \in Nat /\ b # NoFile /\ b # Torn
    /\ NoFile \notin Keys /\ NoFile \notin Buckets /\ NoFile \notin Budgets
  BY RetrieverAssumption DEF Buckets, Budgets

\* A process between fetches carries nothing.
LEMMA IdleTyped ==
    /\ Idle \in Jobs /\ Idle.key = NoFile /\ Idle.now = 0 /\ Idle.attempt = 0 /\ Idle.body = NoFile
    /\ \A c \in Nat : AtHand("idle", Idle, c)
<1>1. /\ Idle \in Jobs /\ Idle.key = NoFile /\ Idle.now = 0 /\ Idle.attempt = 0 /\ Idle.body = NoFile
  BY Consts DEF Idle, Jobs, Bodies
<1> QED BY <1>1 DEF AtHand

\* p goes to label l with locals j, and what it needs there is at hand.
Moves(p, l, j) == l \in Labels /\ j \in Jobs /\ AtHand(l, j, clock) /\ Goto(p, l, j)

\* A move changes the control state of one process.
LEMMA Moved ==
    ASSUME ControlTypes, NEW p \in Procs, NEW l, NEW j, Goto(p, l, j)
    PROVE  /\ pc'[p] = l /\ job'[p] = j
           /\ \A q \in Procs \ {p} : pc'[q] = pc[q] /\ job'[q] = job[q]
  BY DEF ControlTypes, Goto

\* A typed move keeps the control state typed.
LEMMA MovesTyped ==
    ASSUME ControlTypes, NEW p \in Procs, NEW l, NEW j, Moves(p, l, j), clock' = clock
    PROVE  ControlTypes'
<1>1. pc' \in [Procs -> Labels] /\ job' \in [Procs -> Jobs]
  BY DEF Moves, Goto, ControlTypes
<1>2. ASSUME NEW q \in Procs PROVE AtHand(pc'[q], job'[q], clock')
  <2>1. CASE q = p
    BY <2>1, Moved DEF Moves
  <2>2. CASE q # p
    BY <2>2, Moved DEF Moves, ControlTypes
  <2> QED BY <2>1, <2>2
<1> QED BY <1>1, <1>2 DEF ControlTypes

\* Every step of a process, and what it has at hand after it.
LEMMA Ends ==
    ASSUME FileTypes, NEW p \in Procs, Finish(p)
    PROVE  Moves(p, "idle", Idle)
  BY IdleTyped DEF Finish, Moves, Labels, FileTypes

\* A fetch begins by looking into the cache or at the clock.
LEMMA Begins ==
    ASSUME ControlTypes, FileTypes, NEW p \in Procs, NEW k \in Keys, BeginFetch(p, k)
    PROVE  \E l \in {"readMeta", "clock"}, j \in Jobs :
              /\ Moves(p, l, j) /\ j.key = k /\ j.attempt = 0
              /\ l = "readMeta" => j.body = payload[k]
<1>1. /\ [Idle EXCEPT !.key = k] \in Jobs
      /\ [Idle EXCEPT !.key = k].key = k /\ [Idle EXCEPT !.key = k].now = 0
      /\ [Idle EXCEPT !.key = k].attempt = 0
  BY IdleTyped DEF Jobs
<1>2. payload[k] \in Bodies
  BY DEF FileTypes
<1>3. /\ [Idle EXCEPT !.key = k, !.body = payload[k]] \in Jobs
      /\ [Idle EXCEPT !.key = k, !.body = payload[k]].key = k
      /\ [Idle EXCEPT !.key = k, !.body = payload[k]].now = 0
      /\ [Idle EXCEPT !.key = k, !.body = payload[k]].attempt = 0
      /\ [Idle EXCEPT !.key = k, !.body = payload[k]].body = payload[k]
  BY <1>2, IdleTyped DEF Jobs
<1>4. CASE payload[k] # NoFile /\ meta[k] # NoFile
  <2> DEFINE j == [Idle EXCEPT !.key = k, !.body = payload[k]]
  <2>1. Goto(p, "readMeta", j)
    BY <1>4 DEF BeginFetch
  <2>2. AtHand("readMeta", j, clock)
    BY <1>3, <1>4 DEF AtHand, FileTypes
  <2>3. Moves(p, "readMeta", j)
    BY <1>3, <2>1, <2>2 DEF Moves, Labels
  <2> HIDE DEF j
  <2>4. j.key = k /\ j.attempt = 0 /\ j.body = payload[k] /\ j \in Jobs
    BY <1>3 DEF j
  <2> QED BY <2>3, <2>4
<1>5. CASE ~(payload[k] # NoFile /\ meta[k] # NoFile)
  <2> DEFINE j == [Idle EXCEPT !.key = k]
  <2>1. Goto(p, "clock", j)
    BY <1>5 DEF BeginFetch
  <2>2. AtHand("clock", j, clock)
    BY <1>1 DEF AtHand, FileTypes
  <2>3. Moves(p, "clock", j)
    BY <1>1, <2>1, <2>2 DEF Moves, Labels
  <2> HIDE DEF j
  <2>4. j.key = k /\ j.attempt = 0 /\ j \in Jobs
    BY <1>1 DEF j
  <2> QED BY <2>3, <2>4
<1> QED BY <1>4, <1>5

\* p has moved to l with j, with a body that was answered where it needs one.
Arrives(p, l, j) ==
    Moves(p, l, j) /\ (l \in HasBody => <<j.key, j.body>> \in answered')

\* Past the cache a process that keeps its key and body keeps an answered one.
LEMMA KeepsBody ==
    ASSUME ControlTypes, FileTypes, AnswerInv, NEW p \in Procs, pc[p] \in HasBody,
           answered \subseteq answered',
           NEW l \in HasBody \ {"saveBudget"}, NEW j \in Jobs, Goto(p, l, j),
           j.key = job[p].key, j.body = job[p].body, j.now = job[p].now
    PROVE  Arrives(p, l, j)
<1>1. job[p].key \in Keys /\ job[p].now <= clock
  BY DEF ControlTypes, AtHand, HasBody
<1>2. AtHand(l, j, clock)
  BY <1>1 DEF AtHand, HasBody
<1>3. <<j.key, j.body>> \in answered'
  BY DEF AnswerInv
<1> QED BY <1>2, <1>3 DEF Arrives, Moves, Labels

\* A fetch that ends leaves an idle process.
LEMMA EndsArrives ==
    ASSUME FileTypes, NEW p \in Procs, Finish(p)
    PROVE  Arrives(p, "idle", Idle)
  BY Ends DEF Arrives, HasBody

\* Reading the cached metadata arrives at a state the invariant knows.
LEMMA ReadMetaArrives ==
    ASSUME ControlTypes, FileTypes, AnswerInv, NEW p \in Procs, ReadMeta(p)
    PROVE  \E l \in Labels \ {"send"}, j \in Jobs : Arrives(p, l, j)
<1>1. job[p] \in Jobs /\ job[p].key \in Keys /\ job[p].now <= clock /\ job[p].body # NoFile
      /\ pc[p] = "readMeta"
  BY DEF ReadMeta, ControlTypes, AtHand
<1>2. CASE meta[job[p].key] = job[p].body
  <2>1. Goto(p, "receipt", job[p]) /\ answered' = answered
    BY <1>2 DEF ReadMeta, seen
  <2>2. <<job[p].key, job[p].body>> \in answered
    BY <1>1, <1>2 DEF AnswerInv
  <2>3. AtHand("receipt", job[p], clock)
    BY <1>1 DEF AtHand
  <2>4. Arrives(p, "receipt", job[p])
    BY <1>1, <2>1, <2>2, <2>3 DEF Arrives, Moves, Labels, HasBody
  <2> QED BY <1>1, <2>4 DEF Labels, HasBody
<1>3. CASE meta[job[p].key] # job[p].body
  <2>1. PICK j : j = [job[p] EXCEPT !.body = NoFile]
    OBVIOUS
  <2>2. Goto(p, "clock", j)
    BY <1>3, <2>1 DEF ReadMeta
  <2>3. j \in Jobs /\ j.key = job[p].key /\ j.now = job[p].now
    BY <1>1, <2>1 DEF Jobs, Bodies
  <2>4. Arrives(p, "clock", j)
    BY <1>1, <2>2, <2>3 DEF Arrives, Moves, AtHand, Labels, HasBody
  <2> QED BY <2>3, <2>4 DEF Labels
<1> QED BY <1>2, <1>3

\* Reading the clock and the bucket arrives at a state the invariant knows.
LEMMA ClockArrives ==
    ASSUME ControlTypes, FileTypes, AnswerInv, NEW p \in Procs, ReadClock(p) \/ LoadBucket(p)
    PROVE  \E l \in Labels \ {"send"}, j \in Jobs : Arrives(p, l, j)
<1>1. job[p] \in Jobs /\ job[p].key \in Keys /\ job[p].now <= clock /\ clock \in Nat
  BY DEF ReadClock, LoadBucket, ControlTypes, AtHand, FileTypes
<1>2. CASE Finish(p)
  BY <1>2, EndsArrives, IdleTyped DEF Labels
<1>3. CASE Goto(p, "loadBucket", [job[p] EXCEPT !.now = clock])
  <2>1. PICK j : j = [job[p] EXCEPT !.now = clock]
    OBVIOUS
  <2>2. j \in Jobs /\ j.key = job[p].key /\ j.now = clock
    BY <1>1, <2>1 DEF Jobs
  <2>3. Arrives(p, "loadBucket", j)
    BY <1>1, <1>3, <2>1, <2>2 DEF Arrives, Moves, AtHand, Labels, HasBody
  <2> QED BY <2>2, <2>3 DEF Labels
<1>4. CASE Goto(p, "saveBucket", [job[p] EXCEPT !.bucket = bucket])
  <2>1. PICK j : j = [job[p] EXCEPT !.bucket = bucket]
    OBVIOUS
  <2>2. bucket \in Buckets \cup {NoFile}
    BY DEF FileTypes
  <2>3. j \in Jobs /\ j.key = job[p].key /\ j.now = job[p].now
    BY <1>1, <2>1, <2>2 DEF Jobs
  <2>4. Arrives(p, "saveBucket", j)
    BY <1>1, <1>4, <2>1, <2>3 DEF Arrives, Moves, AtHand, Labels, HasBody
  <2> QED BY <2>3, <2>4 DEF Labels
<1> QED BY <1>2, <1>3, <1>4 DEF ReadClock, LoadBucket

\* A process that got its token goes on the wire with the attempts it has left.
LEMMA BucketArrives ==
    ASSUME ControlTypes, FileTypes, AnswerInv, NEW p \in Procs, SaveBucket(p)
    PROVE  \E l \in Labels, j \in Jobs :
              /\ Arrives(p, l, j)
              /\ l = "send" => Refilled(LoadedBucket(job[p].bucket, job[p].now), job[p].now) >= 1
<1>1. job[p] \in Jobs /\ job[p].key \in Keys /\ clock \in Nat
  BY DEF SaveBucket, ControlTypes, AtHand, FileTypes
<1>2. CASE Finish(p)
  BY <1>2, EndsArrives, IdleTyped DEF Labels
<1>3. PICK j : j = [job[p] EXCEPT !.bucket = NoFile, !.now = 0]
  OBVIOUS
<1>4. j \in Jobs /\ j.key = job[p].key /\ j.now = 0
  BY <1>1, <1>3 DEF Jobs
<1>5. ASSUME NEW l \in {"send", "clock"}, Goto(p, l, j) PROVE Arrives(p, l, j)
  BY <1>1, <1>4, <1>5 DEF Arrives, Moves, AtHand, Labels, HasBody
<1>6. \/ Goto(p, "send", j) /\ Refilled(LoadedBucket(job[p].bucket, job[p].now), job[p].now) >= 1
      \/ Goto(p, "clock", j) \/ Finish(p)
  BY <1>3 DEF SaveBucket
<1> QED BY <1>2, <1>4, <1>5, <1>6 DEF Labels

\* An answer is a body; a retry takes one of the attempts left.
LEMMA SendArrives ==
    ASSUME ControlTypes, FileTypes, AnswerInv, NEW p \in Procs, Send(p)
    PROVE  \E l \in Labels, j \in Jobs :
              /\ Arrives(p, l, j)
              /\ l = "send" => j.attempt = job[p].attempt + 1
<1>1. /\ pc[p] = "send" /\ job[p] \in Jobs /\ job[p].key \in Keys /\ job[p].now <= clock
      /\ MAX_RETRIES \in Nat
  BY Consts DEF Send, SendRetried, SendRefused, SendAnswered, ControlTypes, AtHand
<1>2. CASE Finish(p)
  BY <1>2, EndsArrives, IdleTyped DEF Labels
<1>3. ASSUME NEW b \in Payloads, SendAnswered(p, b)
      PROVE  \E j \in Jobs : Arrives(p, "loadBudget", j)
  <2>1. PICK j : j = [job[p] EXCEPT !.body = b, !.attempt = 0]
    OBVIOUS
  <2>2. j \in Jobs /\ j.key = job[p].key /\ j.now = job[p].now /\ j.body = b
    <3>1. b \in Bodies /\ 0 \in 0..MAX_RETRIES
      BY <1>1 DEF Bodies
    <3>2. PICK i : i = [job[p] EXCEPT !.body = b]
      OBVIOUS
    <3>3. i \in Jobs /\ i.key = job[p].key /\ i.now = job[p].now /\ i.body = b
      BY <1>1, <3>1, <3>2 DEF Jobs
    <3>4. j = [i EXCEPT !.attempt = 0]
      BY <2>1, <3>2
    <3> QED BY <3>1, <3>3, <3>4 DEF Jobs
  <2>3. <<j.key, j.body>> \in answered'
    BY <1>3, <2>2 DEF SendAnswered
  <2>4. Goto(p, "loadBudget", j)
    BY <1>3, <2>1 DEF SendAnswered
  <2> QED BY <1>1, <2>2, <2>3, <2>4 DEF Arrives, Moves, AtHand, Labels, HasBody
<1>4. CASE SendRetried(p) /\ job[p].attempt < MAX_RETRIES
  <2>2. PICK n \in 0..MAX_RETRIES : n = job[p].attempt + 1
    BY <1>1, <1>4 DEF Jobs
  <2>1. PICK j : j = [job[p] EXCEPT !.attempt = n]
    OBVIOUS
  <2>3. j \in Jobs /\ j.key = job[p].key /\ j.now = job[p].now /\ j.attempt = job[p].attempt + 1
    <3>1. j \in Jobs
      BY <1>1, <2>1 DEF Jobs
    <3>2. j.key = job[p].key /\ j.now = job[p].now /\ j.attempt = n
      BY <1>1, <2>1 DEF Jobs
    <3> QED BY <2>2, <3>1, <3>2
  <2>4. Goto(p, "send", j)
    BY <1>1, <1>4, <2>1, <2>2 DEF SendRetried, Jobs
  <2>5. Arrives(p, "send", j)
    BY <1>1, <2>3, <2>4 DEF Arrives, Moves, AtHand, Labels, HasBody
  <2> QED BY <2>3, <2>5 DEF Labels
<1>5. "loadBudget" \in Labels /\ "loadBudget" # "send"
  BY DEF Labels, HasBody
<1> QED BY <1>2, <1>3, <1>4, <1>5 DEF Send, SendRetried, SendRefused

\* Loading and saving the budget arrives at a state the invariant knows.
LEMMA BudgetArrives ==
    ASSUME ControlTypes, FileTypes, AnswerInv, NEW p \in Procs, LoadBudget(p) \/ SaveBudget(p)
    PROVE  \E l \in Labels \ {"send"}, j \in Jobs : Arrives(p, l, j)
<1>1. /\ pc[p] \in HasBody /\ job[p] \in Jobs /\ job[p].key \in Keys /\ job[p].now <= clock
      /\ answered' = answered
  BY DEF LoadBudget, SaveBudget, ControlTypes, AtHand, HasBody, seen
<1>2. CASE Finish(p)
  BY <1>2, EndsArrives, IdleTyped DEF Labels
<1>3. CASE LoadBudget(p)
  <2>1. PICK j : j = [job[p] EXCEPT !.budget = LoadedBudget]
    OBVIOUS
  <2>2. LoadedBudget \in Budgets
    BY Consts DEF LoadedBudget, FileTypes, Budgets
  <2>3. j \in Jobs /\ j.key = job[p].key /\ j.now = job[p].now /\ j.body = job[p].body
        /\ j.budget \in Budgets
    BY <1>1, <2>1, <2>2 DEF Jobs
  <2>4. Goto(p, "saveBudget", j)
    BY <1>3, <2>1 DEF LoadBudget
  <2>5. <<j.key, j.body>> \in answered'
    BY <1>1, <2>3 DEF AnswerInv
  <2>6. Arrives(p, "saveBudget", j)
    BY <1>1, <2>3, <2>4, <2>5 DEF Arrives, Moves, AtHand, Labels, HasBody
  <2> QED BY <2>3, <2>6 DEF Labels, HasBody
<1>4. CASE Goto(p, "payloadTmp", [job[p] EXCEPT !.budget = NoFile])
  <2>1. PICK j : j = [job[p] EXCEPT !.budget = NoFile]
    OBVIOUS
  <2>2. j \in Jobs /\ j.key = job[p].key /\ j.now = job[p].now /\ j.body = job[p].body
    BY <1>1, <2>1 DEF Jobs
  <2>3. Arrives(p, "payloadTmp", j)
    BY <1>1, <1>4, <2>1, <2>2, KeepsBody DEF HasBody
  <2> QED BY <2>2, <2>3 DEF Labels, HasBody
<1> QED BY <1>2, <1>3, <1>4 DEF SaveBudget

CacheStep(p) ==
    \/ OpenPayloadTmp(p) \/ WritePayloadTmp(p) \/ ReplacePayload(p)
    \/ WriteMetaTmp(p) \/ ReplaceMeta(p) \/ BuildReceipt(p)

\* Writing the cache arrives at a state the invariant knows.
LEMMA CacheArrives ==
    ASSUME ControlTypes, FileTypes, AnswerInv, NEW p \in Procs, CacheStep(p)
    PROVE  \E l \in Labels \ {"send"}, j \in Jobs : Arrives(p, l, j)
<1>1. pc[p] \in HasBody /\ job[p] \in Jobs /\ answered' = answered
  BY DEF CacheStep, OpenPayloadTmp, WritePayloadTmp, ReplacePayload, WriteMetaTmp, ReplaceMeta,
         BuildReceipt, ControlTypes, HasBody, seen
<1>2. CASE Finish(p)
  BY <1>2, EndsArrives, IdleTyped DEF Labels
<1>3. ASSUME NEW l \in HasBody \ {"saveBudget"}, Goto(p, l, job[p]) PROVE Arrives(p, l, job[p])
  BY <1>1, <1>3, KeepsBody
<1>4. Finish(p) \/ \E l \in {"payloadWrite", "payload", "metaTmp", "meta", "receipt"} : Goto(p, l, job[p])
  BY DEF CacheStep, OpenPayloadTmp, WritePayloadTmp, ReplacePayload, WriteMetaTmp, ReplaceMeta,
         BuildReceipt
<1> QED BY <1>1, <1>2, <1>3, <1>4 DEF Labels, HasBody

\* Every step of a process arrives at a state the invariant knows.
LEMMA ProcArrives ==
    ASSUME ControlTypes, FileTypes, AnswerInv, NEW p \in Procs, ProcStep(p) \/ Crash(p)
    PROVE  \E l \in Labels, j \in Jobs : Arrives(p, l, j)
<1>1. CASE Crash(p)
  BY <1>1, EndsArrives, IdleTyped DEF Crash, Labels
<1> QED BY <1>1, ReadMetaArrives, ClockArrives, BucketArrives, SendArrives, BudgetArrives, CacheArrives
        DEF ProcStep, CacheStep
-----------------------------------------------------------------------------
\* The files keep their types, whoever replaces them.
LEMMA RefilledTyped ==
    ASSUME NEW b \in Buckets, NEW now \in Nat
    PROVE  /\ Refilled(b, now) \in Nat
           /\ b.last <= now => Refilled(b, now) <= b.tokens + (now - b.last)
  BY Consts DEF Buckets, Refilled, Min2, Max2

\* A bucket that is absent loads as a full one.
LEMMA LoadedTyped ==
    ASSUME NEW b \in Buckets \cup {NoFile}, NEW now \in Nat
    PROVE  LoadedBucket(b, now) \in Buckets
  BY Consts DEF LoadedBucket, Buckets

\* The saved bucket is the refilled one, less the token taken.
LEMMA BucketSaved ==
    ASSUME ControlTypes, FileTypes, NEW p \in Procs, SaveBucket(p)
    PROVE  /\ bucket' \in Buckets /\ bucket' # NoFile /\ bucket'.last = job[p].now
           /\ LET tokens == Refilled(LoadedBucket(job[p].bucket, job[p].now), job[p].now)
              IN  /\ tokens \in Nat
                  /\ tokens >= 1 => bucket'.tokens = tokens - 1
                  /\ ~(tokens >= 1) => bucket'.tokens = tokens
<1> DEFINE tokens == Refilled(LoadedBucket(job[p].bucket, job[p].now), job[p].now)
<1>1. job[p].now \in Nat /\ job[p].bucket \in Buckets \cup {NoFile}
  BY DEF ControlTypes, Jobs
<1>2. tokens \in Nat
  BY <1>1, LoadedTyped, RefilledTyped
<1>3. bucket' = [tokens |-> IF tokens >= 1 THEN tokens - 1 ELSE tokens, last |-> job[p].now]
  BY DEF SaveBucket
<1> HIDE DEF tokens
<1>4. bucket' \in Buckets
  BY <1>1, <1>2, <1>3 DEF Buckets
<1>5. bucket'.last = job[p].now /\ (tokens >= 1 => bucket'.tokens = tokens - 1)
      /\ (~(tokens >= 1) => bucket'.tokens = tokens)
  BY <1>3
<1> QED BY <1>2, <1>4, <1>5, Consts DEF tokens

\* The saved budget is the loaded one, less the body and one request.
LEMMA BudgetSaved ==
    ASSUME ControlTypes, FileTypes, AnswerInv, NEW p \in Procs, SaveBudget(p)
    PROVE  \/ UNCHANGED <<budget, raced, stored>>
           \/ /\ job[p].budget \in Budgets /\ Size(job[p].body) \in Nat
              /\ budget' \in Budgets /\ budget' # NoFile
              /\ budget'.bytes = job[p].budget.bytes - Size(job[p].body)
              /\ budget'.cost = job[p].budget.cost - 1
              /\ raced \subseteq raced'
              /\ "budget" \notin raced' => LoadedBudget = job[p].budget
              /\ stored' \in Budgets
              /\ "budget" \notin raced' => /\ stored'.bytes = stored.bytes + Size(job[p].body)
                                           /\ stored'.cost = stored.cost + 1
<1>1. job[p].budget \in Budgets /\ job[p].body \in Payloads
  BY DEF SaveBudget, ControlTypes, AtHand, AnswerInv, HasBody
<1>2. Size(job[p].body) \in Nat
  BY <1>1, Consts
<1>3. CASE ~Affords(job[p].budget, job[p].body)
  BY <1>3 DEF SaveBudget
<1>4. CASE Affords(job[p].budget, job[p].body)
  <2> DEFINE s == Size(job[p].body)
             b == job[p].budget
  <2>1. s \in Nat /\ s <= b.bytes /\ 1 <= b.cost /\ b \in Budgets
    BY <1>1, <1>2, <1>4 DEF Affords, Budgets
  <2>2. budget' = [bytes |-> b.bytes - s, cost |-> b.cost - 1]
    BY <1>4 DEF SaveBudget
  <2>3. /\ raced' = IF LoadedBudget # b THEN raced \cup {"budget"} ELSE raced
        /\ stored' = IF "budget" \in raced' THEN Nothing
                     ELSE [bytes |-> stored.bytes + s, cost |-> stored.cost + 1]
    BY <1>4 DEF SaveBudget
  <2> HIDE DEF s, b
  <2>4. /\ budget' \in Budgets /\ budget'.bytes = b.bytes - s /\ budget'.cost = b.cost - 1
    BY <2>1, <2>2 DEF Budgets
  <2>5. stored' \in Budgets
    <3>1. Nothing \in Budgets
      BY DEF Nothing, Budgets
    <3>2. [bytes |-> stored.bytes + s, cost |-> stored.cost + 1] \in Budgets
      BY <2>1 DEF Budgets, FileTypes
    <3> QED BY <2>3, <3>1, <3>2, Zenon
  <2>6. "budget" \notin raced' => stored'.bytes = stored.bytes + s /\ stored'.cost = stored.cost + 1
    BY <2>3
  <2>7. raced \subseteq raced' /\ ("budget" \notin raced' => LoadedBudget = b)
    BY <2>3
  <2> QED BY <1>1, <1>2, <2>4, <2>5, <2>6, <2>7, Consts DEF s, b
<1> QED BY <1>3, <1>4

\* Every step keeps the types of the files.
LEMMA FilesStep ==
    ASSUME ControlTypes, FileTypes, AnswerInv, [Next]_vars
    PROVE  FileTypes'
<1>1. ASSUME NEW p \in Procs, SaveBucket(p) PROVE FileTypes'
  <2>1. bucket' \in Buckets /\ bucket'.last <= clock
    BY <1>1, BucketSaved DEF SaveBucket, ControlTypes, AtHand
  <2>2. sent' \in Nat /\ UNCHANGED <<clock, budget, payload, meta, ptmp, mtmp, stored>>
    BY <1>1 DEF SaveBucket, FileTypes, cache
  <2> QED BY <2>1, <2>2 DEF FileTypes
<1>2. ASSUME NEW p \in Procs, Send(p) PROVE FileTypes'
  <2>1. CountRequest /\ UNCHANGED <<clock, bucket, budget, cache, stored>>
    BY <1>2 DEF Send, SendRetried, SendRefused, SendAnswered
  <2>2. sent' \in Nat
    BY <2>1 DEF CountRequest, FileTypes
  <2> QED BY <2>1, <2>2 DEF FileTypes, cache
<1>3. ASSUME NEW p \in Procs, SaveBudget(p) PROVE FileTypes'
  <2>1. budget' = budget \/ budget' \in Budgets
    BY <1>3, BudgetSaved
  <2>2. stored' \in Budgets
    BY <1>3, BudgetSaved DEF FileTypes
  <2>3. UNCHANGED <<clock, bucket, payload, meta, ptmp, mtmp, sent>>
    BY <1>3 DEF SaveBudget, cache
  <2> QED BY <2>1, <2>2, <2>3 DEF FileTypes
<1>4. ASSUME NEW p \in Procs, CacheStep(p) PROVE FileTypes'
  <2>1. /\ pc[p] \in HasBody /\ job[p].body \in Payloads /\ Torn \in Bodies /\ NoFile \in Bodies
        /\ Payloads \subseteq Bodies /\ job[p].key \in Keys
    BY <1>4 DEF CacheStep, OpenPayloadTmp, WritePayloadTmp, ReplacePayload, WriteMetaTmp, ReplaceMeta,
                BuildReceipt, ControlTypes, AtHand, AnswerInv, HasBody, Bodies
  <2>2. UNCHANGED <<clock, bucket, budget, sent, stored>>
    BY <1>4 DEF CacheStep, OpenPayloadTmp, WritePayloadTmp, ReplacePayload, WriteMetaTmp, ReplaceMeta,
                BuildReceipt, seen, cache
  <2>3. payload' \in [Keys -> Bodies] /\ ptmp' \in [Keys -> Bodies]
    BY <1>4, <2>1 DEF CacheStep, OpenPayloadTmp, WritePayloadTmp, ReplacePayload, WriteMetaTmp,
                ReplaceMeta, BuildReceipt, cache, FileTypes
  <2>4. meta' \in [Keys -> Payloads \cup {NoFile}] /\ mtmp' \in [Keys -> Payloads \cup {NoFile}]
    BY <1>4, <2>1 DEF CacheStep, OpenPayloadTmp, WritePayloadTmp, ReplacePayload, WriteMetaTmp,
                ReplaceMeta, BuildReceipt, cache, FileTypes
  <2> QED BY <2>2, <2>3, <2>4 DEF FileTypes
<1>5. CASE Tick
  BY <1>5 DEF Tick, FileTypes, cache, seen, Buckets
<1>6. CASE UNCHANGED <<clock, bucket, budget, payload, meta, ptmp, mtmp, sent, stored>>
  BY <1>6 DEF FileTypes
<1>7. ASSUME NEW p \in Procs, \/ ReadMeta(p) \/ ReadClock(p) \/ LoadBucket(p) \/ LoadBudget(p)
                              \/ Crash(p) \/ \E k \in Keys : BeginFetch(p, k)
      PROVE  FileTypes'
  BY <1>6, <1>7 DEF ReadMeta, ReadClock, LoadBucket, LoadBudget, Crash, BeginFetch, cache, seen
<1>8. CASE UNCHANGED vars
  BY <1>6, <1>8 DEF vars
<1> QED BY <1>1, <1>2, <1>3, <1>4, <1>5, <1>7, <1>8 DEF Next, ProcStep, CacheStep

\* Every step keeps the types of the control state.
LEMMA ControlStep ==
    ASSUME ControlTypes, FileTypes, AnswerInv, [Next]_vars
    PROVE  ControlTypes'
<1>1. ASSUME NEW p \in Procs, ProcStep(p) \/ Crash(p) PROVE ControlTypes'
  <2>1. clock' = clock
    BY <1>1 DEF ProcStep, Crash, ReadMeta, ReadClock, LoadBucket, SaveBucket, Send, SendRetried,
                SendRefused, SendAnswered, LoadBudget, SaveBudget, OpenPayloadTmp, WritePayloadTmp,
                ReplacePayload, WriteMetaTmp, ReplaceMeta, BuildReceipt
  <2>2. \E l \in Labels, j \in Jobs : Moves(p, l, j)
    BY <1>1, ProcArrives DEF Arrives
  <2> QED BY <2>1, <2>2, MovesTyped
<1>2. ASSUME NEW p \in Procs, NEW k \in Keys, BeginFetch(p, k) PROVE ControlTypes'
  <2>1. clock' = clock
    BY <1>2 DEF BeginFetch
  <2> QED BY <1>2, <2>1, Begins, MovesTyped
<1>3. CASE Tick
  BY <1>3 DEF Tick, ControlTypes, FileTypes, AtHand, Jobs
<1>4. CASE UNCHANGED vars
  BY <1>4 DEF vars, ControlTypes
<1> QED BY <1>1, <1>2, <1>3, <1>4 DEF Next

\* Every step keeps receipts and payloads those of answers.
LEMMA AnswerStep ==
    ASSUME ControlTypes, FileTypes, AnswerInv, [Next]_vars
    PROVE  AnswerInv'
<1> DEFINE Metas == \A k \in Keys : /\ meta[k] # NoFile => <<k, meta[k]>> \in answered
                                    /\ mtmp[k] # NoFile => <<k, mtmp[k]>> \in answered
           Held == \A p \in Procs : pc[p] \in HasBody => <<job[p].key, job[p].body>> \in answered
<1>1. Metas /\ Held /\ answered \subseteq Keys \X Payloads /\ receipts \subseteq answered
  BY DEF AnswerInv
<1>2. ASSUME NEW p \in Procs, NEW b \in Payloads, SendAnswered(p, b)
      PROVE  /\ answered \subseteq answered' /\ answered' \subseteq Keys \X Payloads
             /\ receipts' \subseteq answered' /\ Metas'
  <2>1. job[p].key \in Keys
    BY <1>2 DEF SendAnswered, ControlTypes, AtHand
  <2> QED BY <1>1, <1>2, <2>1 DEF SendAnswered, cache
<1>3. ASSUME NEW p \in Procs, BuildReceipt(p)
      PROVE  answered' = answered /\ receipts' \subseteq answered' /\ Metas'
  <2>1. <<job[p].key, job[p].body>> \in answered
    BY <1>1, <1>3 DEF BuildReceipt, HasBody
  <2> QED BY <1>1, <1>3, <2>1 DEF BuildReceipt, cache
<1>4. ASSUME NEW p \in Procs, WriteMetaTmp(p) \/ ReplaceMeta(p)
      PROVE  UNCHANGED <<answered, receipts>> /\ Metas'
  <2>1. <<job[p].key, job[p].body>> \in answered /\ job[p].key \in Keys
    BY <1>1, <1>4 DEF WriteMetaTmp, ReplaceMeta, HasBody
  <2> QED BY <1>1, <1>4, <2>1 DEF WriteMetaTmp, ReplaceMeta, FileTypes, seen
<1>5. ASSUME UNCHANGED <<answered, receipts, meta, mtmp>>
      PROVE  /\ answered \subseteq answered' /\ answered' \subseteq Keys \X Payloads
             /\ receipts' \subseteq answered' /\ Metas'
  BY <1>1, <1>5
<1>6. ASSUME NEW p \in Procs, \/ ReadMeta(p) \/ ReadClock(p) \/ LoadBucket(p) \/ SaveBucket(p)
                              \/ SendRetried(p) \/ SendRefused(p) \/ LoadBudget(p) \/ SaveBudget(p)
      PROVE  UNCHANGED <<answered, receipts, meta, mtmp>>
  BY <1>6 DEF ReadMeta, ReadClock, LoadBucket, SaveBucket, SendRetried, SendRefused, LoadBudget,
              SaveBudget, cache, seen
<1>7. ASSUME NEW p \in Procs, \/ OpenPayloadTmp(p) \/ WritePayloadTmp(p) \/ ReplacePayload(p)
                              \/ Crash(p) \/ \E k \in Keys : BeginFetch(p, k)
      PROVE  UNCHANGED <<answered, receipts, meta, mtmp>>
  BY <1>7 DEF OpenPayloadTmp, WritePayloadTmp, ReplacePayload, Crash, BeginFetch, cache, seen
<1>8. ASSUME Tick \/ UNCHANGED vars PROVE UNCHANGED <<answered, receipts, meta, mtmp>>
  BY <1>8 DEF Tick, vars, cache, seen
<1>9. /\ answered \subseteq answered' /\ answered' \subseteq Keys \X Payloads
      /\ receipts' \subseteq answered' /\ Metas'
  BY <1>1, <1>2, <1>3, <1>4, <1>5, <1>6, <1>7, <1>8 DEF Next, ProcStep, Send
<1>10. Held'
  <2>1. ASSUME NEW p \in Procs, NEW l, NEW j, Arrives(p, l, j) PROVE Held'
    <3>1. /\ pc'[p] = l /\ job'[p] = j
          /\ \A q \in Procs \ {p} : pc'[q] = pc[q] /\ job'[q] = job[q]
      BY <2>1, Moved DEF Arrives, Moves
    <3> QED BY <1>1, <1>9, <2>1, <3>1 DEF Arrives
  <2>2. ASSUME NEW p \in Procs, NEW k \in Keys, BeginFetch(p, k) PROVE Held'
    <3>1. PICK l \in {"readMeta", "clock"}, j \in Jobs : Moves(p, l, j)
      BY <2>2, Begins
    <3>2. Arrives(p, l, j)
      BY <3>1 DEF Arrives, HasBody
    <3> QED BY <2>1, <3>2
  <2>3. CASE Tick \/ UNCHANGED vars
    BY <1>1, <1>9, <2>3 DEF Tick, vars
  <2> QED BY <2>1, <2>2, <2>3, ProcArrives DEF Next
<1> QED BY <1>9, <1>10 DEF AnswerInv

\* Every step keeps the budget accounted for, unless two saves raced.
LEMMA BudgetStep ==
    ASSUME ControlTypes, FileTypes, AnswerInv, BudgetInv, [Next]_vars
    PROVE  BudgetInv'
<1>1. ASSUME NEW p \in Procs, SaveBudget(p) PROVE BudgetInv'
  <2>1. CASE UNCHANGED <<budget, raced, stored>>
    BY <2>1 DEF BudgetInv
  <2>2. CASE ~UNCHANGED <<budget, raced, stored>>
    <3> SUFFICES ASSUME "budget" \notin raced' PROVE BudgetInv'
      BY DEF BudgetInv
    <3>1. /\ Size(job[p].body) \in Nat /\ budget' # NoFile /\ LoadedBudget = job[p].budget
          /\ budget'.bytes = job[p].budget.bytes - Size(job[p].body)
          /\ budget'.cost = job[p].budget.cost - 1
          /\ stored'.bytes = stored.bytes + Size(job[p].body)
          /\ stored'.cost = stored.cost + 1
          /\ "budget" \notin raced
      BY <1>1, <2>2, BudgetSaved
    <3>2. /\ stored.bytes + LoadedBudget.bytes = ByteBudget
          /\ stored.cost + LoadedBudget.cost = CostBudget
      <4>1. CASE budget = NoFile
        BY <3>1, <4>1, Consts DEF BudgetInv, LoadedBudget, Nothing
      <4>2. CASE budget # NoFile
        BY <3>1, <4>2 DEF BudgetInv, LoadedBudget
      <4> QED BY <4>1, <4>2
    <3>3. /\ stored \in Budgets /\ LoadedBudget \in Budgets
      BY Consts DEF FileTypes, LoadedBudget, Budgets
    <3>4. stored.bytes \in Nat /\ stored.cost \in Nat /\ LoadedBudget.bytes \in Nat
          /\ LoadedBudget.cost \in Nat
      BY <3>3 DEF Budgets
    <3>5. stored'.bytes + budget'.bytes = ByteBudget /\ stored'.cost + budget'.cost = CostBudget
      BY <3>1, <3>2, <3>4
    <3> QED BY <3>1, <3>5 DEF BudgetInv
  <2> QED BY <2>1, <2>2
<1>2. CASE UNCHANGED <<budget, stored>> /\ raced \subseteq raced'
  BY <1>2 DEF BudgetInv
<1>3. ASSUME NEW p \in Procs, SaveBucket(p) PROVE BudgetInv'
  BY <1>2, <1>3 DEF SaveBucket
<1>4. ASSUME NEW p \in Procs, \/ ReadMeta(p) \/ ReadClock(p) \/ LoadBucket(p) \/ Send(p) \/ LoadBudget(p)
                              \/ CacheStep(p) \/ Crash(p) \/ \E k \in Keys : BeginFetch(p, k)
      PROVE  BudgetInv'
  <2>1. UNCHANGED <<budget, stored, raced>>
    BY <1>4 DEF ReadMeta, ReadClock, LoadBucket, Send, SendRetried, SendRefused, SendAnswered, LoadBudget,
              CacheStep, OpenPayloadTmp, WritePayloadTmp, ReplacePayload, WriteMetaTmp, ReplaceMeta,
              BuildReceipt, Crash, BeginFetch, seen
  <2> QED BY <1>2, <2>1
<1>5. CASE Tick \/ UNCHANGED vars
  BY <1>2, <1>5 DEF Tick, vars, seen
<1> QED BY <1>1, <1>3, <1>4, <1>5 DEF Next, ProcStep, CacheStep
-----------------------------------------------------------------------------
\* The attempts owed.
LEMMA OwedFinite ==
    /\ IsFiniteSet(Owed) /\ Cardinality(Owed) \in Nat
<1>0. MAX_RETRIES \in Int /\ 0 \in Int
  BY Consts
<1>1. IsFiniteSet(Procs) /\ IsFiniteSet(0..MAX_RETRIES)
  <2>1. IsFiniteSet(Procs)
    BY RetrieverAssumption
  <2>2. IsFiniteSet(0..MAX_RETRIES)
    BY <1>0, FS_Interval
  <2> QED BY <2>1, <2>2
<1>2. IsFiniteSet(Procs \X (0..MAX_RETRIES))
  BY <1>1, FS_Product
<1>3. Owed \in SUBSET (Procs \X (0..MAX_RETRIES))
  BY DEF Owed
<1>4. IsFiniteSet(Owed)
  BY <1>2, <1>3, FS_Subset
<1> QED BY <1>4, FS_CardinalityType

\* A process that sends or leaves owes fewer requests.
LEMMA OwedShrinks ==
    ASSUME ControlTypes, NEW p \in Procs, NEW l, NEW j, Moves(p, l, j),
           l = "send" => pc[p] = "send" /\ j.attempt = job[p].attempt + 1
    PROVE  /\ Owed' \subseteq Owed
           /\ Cardinality(Owed') <= Cardinality(Owed) /\ Cardinality(Owed') \in Nat
           /\ pc[p] = "send" => Cardinality(Owed') <= Cardinality(Owed) - 1
<1>1. /\ pc'[p] = l /\ job'[p] = j
      /\ \A q \in Procs \ {p} : pc'[q] = pc[q] /\ job'[q] = job[q]
  BY Moved DEF Moves
<1>2. job[p].attempt \in 0..MAX_RETRIES /\ MAX_RETRIES \in Nat
  BY Consts DEF ControlTypes, Jobs
<1>3. Owed' \subseteq Owed
  <2> SUFFICES ASSUME NEW q \in Procs, NEW i \in 0..MAX_RETRIES,
                      pc'[q] = "send", job'[q].attempt <= i
               PROVE  pc[q] = "send" /\ job[q].attempt <= i
    BY DEF Owed
  <2>1. CASE q = p
    BY <1>1, <1>2, <2>1
  <2>2. CASE q # p
    BY <1>1, <2>2
  <2> QED BY <2>1, <2>2
<1>4. Cardinality(Owed') <= Cardinality(Owed) /\ Cardinality(Owed') \in Nat
  BY <1>3, OwedFinite, FS_Subset, FS_CardinalityType
<1>5. ASSUME pc[p] = "send" PROVE Cardinality(Owed') <= Cardinality(Owed) - 1
  <2> DEFINE a == <<p, job[p].attempt>>
  <2>1. a \in Owed
    BY <1>2, <1>5 DEF Owed
  <2>2. a \notin Owed'
    BY <1>1, <1>2 DEF Owed
  <2> HIDE DEF a
  <2>3. PICK U : U = Owed \ {a}
    OBVIOUS
  <2>4. IsFiniteSet(U) /\ Cardinality(U) = Cardinality(Owed) - 1
    BY <2>1, <2>3, OwedFinite, FS_RemoveElement
  <2>5. Owed' \in SUBSET U
    BY <1>3, <2>2, <2>3
  <2> QED BY <2>4, <2>5, FS_Subset
<1> QED BY <1>3, <1>4, <1>5

\* A process that takes a token owes at most the attempts of one fetch.
LEMMA OwedGrows ==
    ASSUME ControlTypes, NEW p \in Procs, NEW l, NEW j, Moves(p, l, j)
    PROVE  Cardinality(Owed') <= Cardinality(Owed) + (1 + MAX_RETRIES) /\ Cardinality(Owed') \in Nat
<1>1. \A q \in Procs \ {p} : pc'[q] = pc[q] /\ job'[q] = job[q]
  BY Moved DEF Moves
<1>2. PICK T : T = {p} \X (0..MAX_RETRIES)
  OBVIOUS
<1>3. IsFiniteSet(T) /\ Cardinality(T) = 1 + MAX_RETRIES
  <2>1. IsFiniteSet({p}) /\ Cardinality({p}) = 1
    BY FS_Singleton
  <2>2. IsFiniteSet(0..MAX_RETRIES) /\ Cardinality(0..MAX_RETRIES) = 1 + MAX_RETRIES
    BY Consts, FS_Interval
  <2>3. IsFiniteSet(T) /\ Cardinality(T) = Cardinality({p}) * Cardinality(0..MAX_RETRIES)
    BY <1>2, <2>1, <2>2, FS_Product
  <2> QED BY <2>1, <2>2, <2>3, Consts
<1>4. PICK U : U = Owed \cup T
  OBVIOUS
<1>5. IsFiniteSet(U) /\ Cardinality(U) <= Cardinality(Owed) + (1 + MAX_RETRIES)
  <2>1. PICK V : V = Owed \cap T
    OBVIOUS
  <2>2. IsFiniteSet(V)
    BY <1>3, <2>1, FS_Subset
  <2>3. Cardinality(V) \in Nat
    BY <2>2, FS_CardinalityType
  <2>4. IsFiniteSet(U) /\ Cardinality(U) = Cardinality(Owed) + Cardinality(T) - Cardinality(V)
    BY <1>3, <1>4, <2>1, OwedFinite, FS_Union
  <2> QED BY <1>3, <2>3, <2>4, OwedFinite, Consts
<1>6. Owed' \in SUBSET U
  BY <1>1, <1>2, <1>4 DEF Owed
<1>7. IsFiniteSet(Owed') /\ Cardinality(Owed') <= Cardinality(U)
  BY <1>5, <1>6, FS_Subset
<1>8. Cardinality(Owed') \in Nat /\ Cardinality(U) \in Nat
  BY <1>5, <1>7, FS_CardinalityType
<1> QED BY <1>5, <1>7, <1>8, OwedFinite, Consts

\* Multiplication distributes over a sum of integers.
LEMMA Spread ==
    ASSUME NEW m \in Int, NEW a \in Int, NEW b \in Int
    PROVE  m * (a + b) = m * a + m * b /\ m * a \in Int
  OBVIOUS

\* Multiplication by a natural number is monotone.
LEMMA SpreadLess ==
    ASSUME NEW m \in Nat, NEW a \in Nat, NEW b \in Nat, a <= b
    PROVE  m * a <= m * b /\ m * a \in Nat /\ m * b \in Nat
  OBVIOUS

\* The balance of the meter, as plain arithmetic.
LEMMA AddsUp ==
    ASSUME NEW s \in Int, NEW owed \in Int, NEW owes \in Int, NEW left \in Int, NEW filled \in Int,
           NEW had \in Int, NEW gain \in Int, NEW before \in Int,
           owes + left <= owed + filled, filled <= had + gain, s + owed + had <= before
    PROVE  s + owes + left <= before + gain
  OBVIOUS

\* A save that raced with nobody takes from the bucket what it hands out.
LEMMA MeterSaved ==
    ASSUME ControlTypes, FileTypes, AnswerInv, MeterInv, NEW p \in Procs, SaveBucket(p)
    PROVE  MeterInv'
<1> SUFFICES ASSUME "bucket" \notin raced'
             PROVE  sent' + Cardinality(Owed') + (1 + MAX_RETRIES) * bucket'.tokens
                      <= (1 + MAX_RETRIES) * (Capacity + bucket'.last)
  BY BucketSaved DEF MeterInv
<1> DEFINE m == 1 + MAX_RETRIES
           now == job[p].now
           b == LoadedBucket(job[p].bucket, now)
           t == Refilled(b, now)
<1>1. /\ bucket = job[p].bucket /\ ~(b.last > now) /\ "bucket" \notin raced /\ sent' = sent
  BY DEF SaveBucket
<1>2. now \in Nat /\ job[p].bucket \in Buckets \cup {NoFile} /\ m \in Nat /\ Capacity \in Nat /\ sent \in Nat
  BY Consts DEF ControlTypes, Jobs, FileTypes
<1>3. b \in Buckets
  BY <1>2, LoadedTyped
<1>4. b.tokens \in Nat /\ b.last \in Nat /\ b.last <= now
  BY <1>1, <1>2, <1>3 DEF Buckets
<1>5. t \in Nat /\ t <= b.tokens + (now - b.last)
  BY <1>2, <1>3, <1>4, RefilledTyped
<1>6. sent + Cardinality(Owed) + m * b.tokens <= m * (Capacity + b.last)
  <2>1. CASE bucket = NoFile
    <3>1. sent = 0 /\ Cardinality(Owed) = 0
      BY <2>1, FS_EmptySet DEF MeterInv
    <3>2. b.tokens = Capacity /\ b.last = now
      BY <1>1, <2>1 DEF LoadedBucket
    <3>3. m * Capacity <= m * (Capacity + now) /\ m * Capacity \in Nat
      BY <1>2, SpreadLess
    <3> QED BY <3>1, <3>2, <3>3
  <2>2. CASE bucket # NoFile
    <3>1. b = bucket
      BY <1>1, <2>2 DEF LoadedBucket
    <3> QED BY <1>1, <2>2, <3>1 DEF MeterInv
  <2> QED BY <2>1, <2>2
<1>7. /\ bucket'.last = now
      /\ t >= 1 => bucket'.tokens = t - 1
      /\ ~(t >= 1) => bucket'.tokens = t
  BY BucketSaved
<1>8. Cardinality(Owed') + m * bucket'.tokens <= Cardinality(Owed) + m * t
  <2>1. PICK l \in Labels, j \in Jobs : Moves(p, l, j) /\ (l = "send" => t >= 1)
    BY BucketArrives DEF Arrives
  <2>2. CASE t >= 1
    <3>1. Cardinality(Owed') <= Cardinality(Owed) + m /\ Cardinality(Owed') \in Nat
      BY <2>1, OwedGrows
    <3>2. m * t = m * (t - 1) + m * 1 /\ m * (t - 1) \in Int /\ m * 1 = m
      <4>1. t = (t - 1) + 1 /\ t - 1 \in Int /\ m \in Int /\ 1 \in Int
        BY <1>2, <1>5
      <4> HIDE DEF t, m
      <4>2. m * ((t - 1) + 1) = m * (t - 1) + m * 1 /\ m * (t - 1) \in Int
        BY <4>1, Spread
      <4> QED BY <4>1, <4>2
    <3> HIDE DEF t, m
    <3> QED BY <1>2, <1>7, <2>2, <3>1, <3>2, OwedFinite
  <2>3. CASE ~(t >= 1)
    <3>1. Cardinality(Owed') <= Cardinality(Owed) /\ Cardinality(Owed') \in Nat
      BY <2>1, <2>3, OwedShrinks
    <3>2. m * t \in Int
      BY <1>2, <1>5
    <3> HIDE DEF t, m
    <3> QED BY <1>7, <2>3, <3>1, <3>2, OwedFinite
  <2> QED BY <2>2, <2>3
<1>9. m * t <= m * b.tokens + m * (now - b.last) /\ m * t \in Nat /\ m * b.tokens \in Nat
  <2>1. b.tokens + (now - b.last) \in Nat /\ now - b.last \in Int
    BY <1>2, <1>4
  <2> HIDE DEF t, m, b, now
  <2>2. m * t <= m * (b.tokens + (now - b.last)) /\ m * t \in Nat
    BY <1>2, <1>5, <2>1, SpreadLess
  <2>3. m * (b.tokens + (now - b.last)) = m * b.tokens + m * (now - b.last)
    BY <1>2, <1>4, <2>1, Spread
  <2>4. m * b.tokens \in Nat
    BY <1>2, <1>4
  <2> QED BY <2>2, <2>3, <2>4
<1>10. m * (Capacity + now) = m * (Capacity + b.last) + m * (now - b.last)
       /\ m * (now - b.last) \in Int /\ m * (Capacity + b.last) \in Int
  <2>1. Capacity + now = (Capacity + b.last) + (now - b.last) /\ Capacity + b.last \in Int
        /\ now - b.last \in Int /\ m \in Int
    BY <1>2, <1>4
  <2> HIDE DEF t, m, b, now
  <2>2. m * ((Capacity + b.last) + (now - b.last)) = m * (Capacity + b.last) + m * (now - b.last)
    BY <2>1, Spread
  <2> QED BY <2>1, <2>2
<1>11. Cardinality(Owed') \in Nat /\ m * bucket'.tokens \in Int
  <2>1. \E l \in Labels, j \in Jobs : Moves(p, l, j)
    BY BucketArrives DEF Arrives
  <2>2. bucket'.tokens \in Nat
    BY BucketSaved DEF Buckets
  <2> QED BY <1>2, <2>1, <2>2, OwedGrows
<1> HIDE DEF m, t, b, now
<1>12. sent' + Cardinality(Owed') + m * bucket'.tokens <= m * (Capacity + now)
  <2>1. /\ sent \in Int /\ Cardinality(Owed) \in Int /\ Cardinality(Owed') \in Int
        /\ m * t \in Int /\ m * b.tokens \in Int
    BY <1>2, <1>9, <1>11, OwedFinite
  <2>2. sent + Cardinality(Owed') + m * bucket'.tokens
          <= m * (Capacity + b.last) + m * (now - b.last)
    BY <1>6, <1>8, <1>9, <1>10, <1>11, <2>1, AddsUp
  <2> QED BY <1>1, <1>10, <2>2
<1> QED BY <1>7, <1>12 DEF m

\* Every step keeps the requests within what the bucket gave out.
LEMMA MeterStep ==
    ASSUME ControlTypes, FileTypes, AnswerInv, MeterInv, [Next]_vars
    PROVE  MeterInv'
<1>1. ASSUME NEW p \in Procs, SaveBucket(p) PROVE MeterInv'
  BY <1>1, MeterSaved
<1>2. ASSUME NEW p \in Procs, Send(p) PROVE MeterInv'
  <2>1. PICK l \in Labels, j \in Jobs : Moves(p, l, j) /\ (l = "send" => j.attempt = job[p].attempt + 1)
    BY <1>2, SendArrives DEF Arrives
  <2>2. pc[p] = "send" /\ CountRequest /\ UNCHANGED <<bucket, raced>>
    BY <1>2 DEF Send, SendRetried, SendRefused, SendAnswered
  <2>3. Cardinality(Owed') <= Cardinality(Owed) - 1 /\ Cardinality(Owed') \in Nat
    BY <2>1, <2>2, OwedShrinks
  <2>4. Owed # {}
    BY <2>3, OwedFinite, FS_EmptySet
  <2>5. bucket # NoFile
    BY <2>4 DEF MeterInv
  <2> SUFFICES ASSUME "bucket" \notin raced
               PROVE  sent' + Cardinality(Owed') + (1 + MAX_RETRIES) * bucket.tokens
                        <= (1 + MAX_RETRIES) * (Capacity + bucket.last)
    BY <2>2, <2>5 DEF MeterInv
  <2>6. sent' = sent + 1 /\ sent \in Nat
    BY <2>2 DEF CountRequest, FileTypes
  <2>7. sent + Cardinality(Owed) + (1 + MAX_RETRIES) * bucket.tokens
          <= (1 + MAX_RETRIES) * (Capacity + bucket.last)
    BY <2>5 DEF MeterInv
  <2>8. /\ (1 + MAX_RETRIES) * bucket.tokens \in Int
        /\ (1 + MAX_RETRIES) * (Capacity + bucket.last) \in Int
    BY <2>5, Consts DEF FileTypes, Buckets
  <2> QED BY <2>3, <2>6, <2>7, <2>8, OwedFinite
<1>3. ASSUME UNCHANGED <<bucket, sent>>, raced \subseteq raced', Owed' \subseteq Owed,
             Cardinality(Owed') <= Cardinality(Owed), Cardinality(Owed') \in Nat
      PROVE  MeterInv'
  <2>1. bucket = NoFile => sent' = 0 /\ Owed' = {}
    BY <1>3 DEF MeterInv
  <2>2. ASSUME bucket # NoFile, "bucket" \notin raced'
        PROVE  sent + Cardinality(Owed') + (1 + MAX_RETRIES) * bucket.tokens
                 <= (1 + MAX_RETRIES) * (Capacity + bucket.last)
    <3>1. /\ (1 + MAX_RETRIES) * bucket.tokens \in Int
          /\ (1 + MAX_RETRIES) * (Capacity + bucket.last) \in Int /\ sent \in Nat
      BY <2>2, Consts DEF FileTypes, Buckets
    <3>2. sent + Cardinality(Owed) + (1 + MAX_RETRIES) * bucket.tokens
            <= (1 + MAX_RETRIES) * (Capacity + bucket.last)
      BY <1>3, <2>2 DEF MeterInv
    <3> QED BY <1>3, <3>1, <3>2, OwedFinite
  <2> QED BY <1>3, <2>1, <2>2 DEF MeterInv
<1>4. ASSUME NEW p \in Procs, \/ ReadMeta(p) \/ ReadClock(p) \/ LoadBucket(p) \/ LoadBudget(p) \/ SaveBudget(p)
                              \/ CacheStep(p) \/ Crash(p) \/ \E k \in Keys : BeginFetch(p, k)
      PROVE  MeterInv'
  <2>1. UNCHANGED <<bucket, sent>> /\ raced \subseteq raced'
    BY <1>4 DEF ReadMeta, ReadClock, LoadBucket, LoadBudget, SaveBudget, CacheStep, OpenPayloadTmp,
              WritePayloadTmp, ReplacePayload, WriteMetaTmp, ReplaceMeta, BuildReceipt, Crash, BeginFetch, seen
  <2>2. \E l \in Labels \ {"send"}, j \in Jobs : Moves(p, l, j)
    <3>1. CASE Crash(p)
      BY <3>1, Ends, IdleTyped DEF Crash, Labels
    <3>2. CASE \E k \in Keys : BeginFetch(p, k)
      BY <3>2, Begins DEF Labels
    <3> QED BY <1>4, <3>1, <3>2, ReadMetaArrives, ClockArrives, BudgetArrives, CacheArrives DEF Arrives
  <2> QED BY <1>3, <2>1, <2>2, OwedShrinks
<1>5. CASE Tick \/ UNCHANGED vars
  <2>1. UNCHANGED <<bucket, sent, raced, pc, job>>
    BY <1>5 DEF Tick, vars, seen
  <2>2. Owed' = Owed
    BY <2>1 DEF Owed
  <2> QED BY <1>3, <2>1, <2>2, OwedFinite
<1> QED BY <1>1, <1>2, <1>4, <1>5 DEF Next, ProcStep, CacheStep
-----------------------------------------------------------------------------
\* The inductive invariant holds in every reachable state.
LEMMA RetrieverInductive == Spec => []RetrieverInv
<1>1. Init => RetrieverInv
  <2> SUFFICES ASSUME Init PROVE RetrieverInv
    OBVIOUS
  <2>1. ControlTypes
    <3>1. pc \in [Procs -> Labels]
      BY DEF Init, Labels
    <3>2. job \in [Procs -> Jobs]
      BY IdleTyped DEF Init
    <3>3. \A p \in Procs : pc[p] = "idle" /\ job[p] = Idle
      BY DEF Init
    <3> QED BY <3>1, <3>2, <3>3, IdleTyped DEF Init, ControlTypes
  <2>2. FileTypes
    <3>1. Nothing \in Budgets
      BY DEF Nothing, Budgets
    <3> QED BY <3>1 DEF Init, FileTypes, Bodies
  <2>3. AnswerInv
    BY DEF Init, AnswerInv, HasBody
  <2>4. BudgetInv
    BY DEF Init, BudgetInv
  <2>5. MeterInv
    BY DEF Init, MeterInv, Owed
  <2> QED BY <2>1, <2>2, <2>3, <2>4, <2>5 DEF RetrieverInv
<1>2. RetrieverInv /\ [Next]_vars => RetrieverInv'
  BY ControlStep, FilesStep, AnswerStep, BudgetStep, MeterStep DEF RetrieverInv
<1> QED BY <1>1, <1>2, PTL DEF Spec

\* Whatever the writers and readers of the cache do and whenever they are killed,
\* a receipt is for a body the endpoint did send for that request: the shared
\* temporary files may be torn, swapped or left behind, and the digest in the
\* metadata lets none of it through (retriever._read_payload, _write_payload).
THEOREM ReceiptsAreAnswers == Spec => []ReceiptIsAnswer
<1>1. RetrieverInv => ReceiptIsAnswer
  BY DEF RetrieverInv, AnswerInv, ReceiptIsAnswer
<1> QED BY <1>1, RetrieverInductive, PTL

\* Receipts are answers; and until two processes overlap between loading and saving
\* a file, what is left in the budget is the grant less what was spent, the grant is
\* never exceeded, and no more requests are sent than the tokens of the bucket and
\* the retries of each pay for (retriever._acquire_token, _fetch_with_retry, fetch).
THEOREM RetrievalIsSound == Spec => []RetrievalSound
<1>1. RetrieverInv => ReceiptIsAnswer
  BY DEF RetrieverInv, AnswerInv, ReceiptIsAnswer
<1>2. RetrieverInv => BudgetKept /\ BudgetAccounted
  <2> SUFFICES ASSUME RetrieverInv, "budget" \notin raced
               PROVE  /\ stored.bytes <= ByteBudget /\ stored.cost <= CostBudget
                      /\ budget # NoFile => /\ budget.bytes = ByteBudget - stored.bytes
                                            /\ budget.cost = CostBudget - stored.cost
    BY DEF BudgetKept, BudgetAccounted
  <2>1. stored.bytes \in Nat /\ stored.cost \in Nat
    BY DEF RetrieverInv, FileTypes, Budgets
  <2>2. CASE budget = NoFile
    BY <2>2, Consts DEF RetrieverInv, BudgetInv, Nothing
  <2>3. CASE budget # NoFile
    <3>1. budget.bytes \in Nat /\ budget.cost \in Nat
      BY <2>3 DEF RetrieverInv, FileTypes, Budgets
    <3>2. stored.bytes + budget.bytes = ByteBudget /\ stored.cost + budget.cost = CostBudget
      BY <2>3 DEF RetrieverInv, BudgetInv
    <3> QED BY <2>1, <3>1, <3>2
  <2> QED BY <2>2, <2>3
<1>3. RetrieverInv => RequestsMetered
  <2> SUFFICES ASSUME RetrieverInv, "bucket" \notin raced
               PROVE  sent <= (1 + MAX_RETRIES) * (Capacity + clock)
    BY DEF RequestsMetered
  <2>1. /\ sent \in Nat /\ clock \in Nat /\ Cardinality(Owed) \in Nat /\ 1 + MAX_RETRIES \in Nat
        /\ Capacity \in Nat
    BY OwedFinite, Consts DEF RetrieverInv, FileTypes
  <2>2. CASE bucket = NoFile
    <3>1. sent = 0
      BY <2>2 DEF RetrieverInv, MeterInv
    <3>2. (1 + MAX_RETRIES) * (Capacity + clock) \in Nat
      BY <2>1, SpreadLess
    <3> QED BY <3>1, <3>2
  <2>3. CASE bucket # NoFile
    <3>1. bucket.tokens \in Nat /\ bucket.last \in Nat /\ bucket.last <= clock
      BY <2>3 DEF RetrieverInv, FileTypes, Buckets
    <3>2. sent + Cardinality(Owed) + (1 + MAX_RETRIES) * bucket.tokens
            <= (1 + MAX_RETRIES) * (Capacity + bucket.last)
      BY <2>3 DEF RetrieverInv, MeterInv
    <3>3. Capacity + bucket.last \in Nat /\ Capacity + clock \in Nat
          /\ Capacity + bucket.last <= Capacity + clock
      BY <2>1, <3>1
    <3>4. /\ (1 + MAX_RETRIES) * (Capacity + bucket.last) <= (1 + MAX_RETRIES) * (Capacity + clock)
          /\ (1 + MAX_RETRIES) * (Capacity + bucket.last) \in Nat
          /\ (1 + MAX_RETRIES) * (Capacity + clock) \in Nat
      BY <2>1, <3>3, SpreadLess
    <3>5. (1 + MAX_RETRIES) * bucket.tokens \in Nat
      BY <2>1, <3>1, SpreadLess
    <3> QED BY <2>1, <3>2, <3>4, <3>5
  <2> QED BY <2>2, <2>3
<1>4. RetrieverInv => RetrievalSound
  BY <1>1, <1>2, <1>3 DEF RetrievalSound
<1> QED BY <1>4, RetrieverInductive, PTL
=============================================================================
