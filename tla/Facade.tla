------------------------------- MODULE Facade -------------------------------
(***************************************************************************)
(* The artifact store as its callers see it: the local store's put, has,   *)
(* get, sweep and descriptor reads over media that may rot, the T7 store   *)
(* that refuses every operation, the capacity bands, and the descriptors   *)
(* and ingest receipts with their ids.                                     *)
(***************************************************************************)
EXTENDS Procedures, Integers, Sequences, FiniteSets

CONSTANTS
    MaxStoreEvents, \* calls and faults on one store
    Gib             \* bytes of one GiB, scaled down

ASSUME FacadeAssumption == MaxStoreEvents \in Nat /\ Gib \in Nat \ {0}
-----------------------------------------------------------------------------
(***************************************************************************)
(* The local store.  An object is absent, good or rotten; the sweep visits *)
(* objects in the order of their names.                                    *)
(***************************************************************************)
StoreDigests == 1 .. 2

LocalInit ==
    /\ subject = "local"
    /\ st = [objects     |-> [d \in StoreDigests |-> "absent"],
             descriptors |-> [d \in StoreDigests |-> "absent"],
             acked |-> {}, rotted |-> {}, got |-> {}, told |-> {}, sweep |-> {}, reports |-> {},
             events |-> 0]

StoreEvent(new) ==
    st.events < MaxStoreEvents /\ Step("local", [new EXCEPT !.events = st.events + 1])

\* LocalArtifactStore.put and ingest_bytes: the engine publishes an object
\* that is absent and answers for one that is there by its name.
Put ==
    \E d \in StoreDigests :
        StoreEvent([st EXCEPT !.acked = @ \cup {d},
            !.objects[d]     = IF @ = "absent" THEN "good" ELSE @,
            !.descriptors[d] = IF st.objects[d] = "absent" THEN "good" ELSE @])

\* The media: an object's bytes or its descriptor go bad.
Rot ==
    \E d \in StoreDigests :
        /\ st.objects[d] = "good"
        /\ \/ StoreEvent([st EXCEPT !.objects[d] = "rotten", !.rotted = @ \cup {d}])
           \/ StoreEvent([st EXCEPT !.descriptors[d] = "broken"])

Has(d) == st.objects[d] # "absent"

\* Wrong variant: the bytes are not hashed again.
GetUnchecked(d) == IF ~Has(d) THEN "StoreError" ELSE "bytes"

\* LocalArtifactStore.get
GetAnswer(d) ==
    IF ~Has(d) THEN "StoreError"
    ELSE IF st.objects[d] = "good" THEN "bytes" ELSE "StoreIntegrityError"

Get == \E d \in StoreDigests :
           StoreEvent([st EXCEPT !.got = @ \cup {[of |-> d, is |-> GetAnswer(d),
                                                  rotted |-> d \in st.rotted]}])

\* read_descriptor: nothing is told of a descriptor that does not parse.
ReadDescriptor ==
    \E d \in StoreDigests :
        /\ st.descriptors[d] = "good"
        /\ StoreEvent([st EXCEPT !.told = @ \cup {d}])

\* LocalArtifactStore.fsck, one object at a time.
SweepStart ==
    /\ st.sweep = {}
    /\ StoreEvent([st EXCEPT !.sweep = {[next |-> 1, checked |-> 0, passed |-> 0, failed |-> {},
                                         rotten |-> st.rotted]}])

Sound(d) == st.objects[d] = "good"

SweepVisit ==
    \E s \in st.sweep :
        /\ s.next \in StoreDigests
        /\ LET seen == [s EXCEPT !.next = @ + 1, !.checked = @ + 1]
           IN  StoreEvent([st EXCEPT !.sweep =
                   {IF ~Has(s.next) THEN [s EXCEPT !.next = @ + 1]
                    ELSE IF Sound(s.next) THEN [seen EXCEPT !.passed = @ + 1]
                    ELSE [seen EXCEPT !.failed = @ \cup {s.next}]}])

SweepReport ==
    \E s \in st.sweep :
        /\ s.next \notin StoreDigests
        /\ StoreEvent([st EXCEPT !.sweep = {}, !.reports = {s}])

LocalNext ==
    /\ subject = "local"
    /\ Put \/ Rot \/ Get \/ ReadDescriptor \/ SweepStart \/ SweepVisit \/ SweepReport
-----------------------------------------------------------------------------
(***************************************************************************)
(* The T7 store: the volume is identified once, when the store is made,    *)
(* and may be swapped afterwards; every operation waits for its engine.    *)
(***************************************************************************)
Volumes  == {"expected", "foreign", "none"}
StoreOps == {"put", "has", "get", "fsck"}

T7StoreInit ==
    /\ subject = "t7store"
    /\ \E v \in Volumes : st = [volume |-> v, made |-> FALSE, answers |-> {}]

ExchangeVolume == \E v \in Volumes \ {st.volume} : Step("t7store", [st EXCEPT !.volume = v])

\* T7ArtifactStore.__init__: verify_t7_identity refuses any other volume.
MakeT7Store ==
    ~st.made /\ st.volume = "expected" /\ Step("t7store", [st EXCEPT !.made = TRUE])

\* T7ArtifactStore._refuse
T7Answer(op) == [op |-> op, is |-> "WAIT_STORAGE", volume |-> st.volume]

CallT7 ==
    st.made /\ \E op \in StoreOps : Step("t7store", [st EXCEPT !.answers = {T7Answer(op)}])

T7StoreNext == subject = "t7store" /\ (ExchangeVolume \/ MakeT7Store \/ CallT7)
-----------------------------------------------------------------------------
(***************************************************************************)
(* Capacity: DEFAULT_ALLOCATION in scaled bytes, filled object by object.  *)
(***************************************************************************)
HardCeiling == 50 * Gib
Review      == 45 * Gib
Warning     == 35 * Gib

CapacityInit ==
    subject = "capacity" /\ \E size \in 1 .. 10 * Gib : st = [used |-> 0, size |-> size,
                                                             decisions |-> <<>>]

\* check_capacity
CheckCapacity(used) ==
    IF used >= HardCeiling THEN "exceeded"
    ELSE IF used >= Review THEN "review_required"
    ELSE IF used >= Warning THEN "warning" ELSE "ok"

\* A writer that asks before it writes and stops when it is refused.
WriteIfAllowed ==
    /\ CheckCapacity(st.used) # "exceeded"
    /\ Step("capacity", [st EXCEPT !.used = @ + st.size,
                                   !.decisions = Append(@, CheckCapacity(st.used))])
-----------------------------------------------------------------------------
(***************************************************************************)
(* Descriptors and receipts.  A receipt's id is over all its other fields. *)
(***************************************************************************)
ReceiptFields == {"digest", "size_bytes", "source_hash_verified", "readback_hash_verified",
                  "fsynced", "created_utc"}

\* build_ingest_receipt and build_object_descriptor: the fields are checked
\* first, so only sound values, 1 and 2 here, are ever written.
DescriptorInit ==
    /\ subject = "descriptor"
    /\ \E seed \in [ReceiptFields -> 1 .. 2] :
           st = [receipt |-> [fields |-> seed, id |-> <<seed>>, keys |-> "exact"],
                 named |-> <<seed>>, altered |-> FALSE, verdict |-> {}]

\* Somebody edits the stored receipt: a field to another sound value, a field
\* to one of the wrong type, a key dropped or added, the id, or a field and
\* the id with it.
EditedReceipts(r) ==
    {[r EXCEPT !.fields[f] = v] : f \in ReceiptFields, v \in 0 .. 2}
        \cup {[r EXCEPT !.keys = k] : k \in {"missing", "extra"}}
        \cup {[r EXCEPT !.id = <<>>]}
        \cup {[r EXCEPT !.fields = g, !.id = <<g>>] : g \in [ReceiptFields -> 1 .. 2]}

EditReceipt ==
    /\ ~st.altered
    /\ \E new \in EditedReceipts(st.receipt) \ {st.receipt} :
           Step("descriptor", [st EXCEPT !.receipt = new, !.altered = TRUE])

\* validate_ingest_receipt: the keys and each value's type, the id's shape.
ValidateReceipt(r) == r.keys = "exact" /\ r.id # <<>> /\ \A f \in ReceiptFields : r.fields[f] # 0

\* canonical_receipt_id: recomputed from what is there.
CanonicalReceiptId(r) == <<r.fields>>

\* The sweep's two comparisons: with the receipt's own id, and of that with
\* the one the descriptor names.
Bound(r) == CanonicalReceiptId(r) = r.id /\ r.id = st.named

JudgeReceipt ==
    Step("descriptor", [st EXCEPT !.verdict =
        {[valid |-> ValidateReceipt(st.receipt), bound |-> Bound(st.receipt),
          of |-> st.receipt]}])

FacadeInit == LocalInit \/ T7StoreInit \/ CapacityInit \/ DescriptorInit
FacadeNext ==
    \/ LocalNext \/ T7StoreNext
    \/ subject = "capacity" /\ WriteIfAllowed
    \/ subject = "descriptor" /\ (EditReceipt \/ JudgeReceipt)
-----------------------------------------------------------------------------
(***************************************************************************)
(* Properties.                                                             *)
(***************************************************************************)
\* Bytes are handed out only for an object that has not rotted, and an object
\* a put answered for and the media kept is always there: refused or missing
\* bytes mean rot (LocalArtifactStore.get).
GetIsHonest ==
    subject = "local" =>
        /\ \A g \in st.got : g.is = "bytes" => ~g.rotted
        /\ \A d \in st.acked \ st.rotted : GetAnswer(d) = "bytes"

\* A finished sweep names every object that had rotted when it began and none
\* that is sound, whatever is put and whatever rots meanwhile, and its counts
\* add up (LocalArtifactStore.fsck).
SweepCatchesOldRot ==
    subject = "local" => \A r \in st.reports :
        r.rotten \subseteq r.failed /\ r.failed \subseteq st.rotted
        /\ r.checked = r.passed + Cardinality(r.failed)

\* The T7 store never answers from a volume, least of all from one swapped in
\* after its identity was checked (T7ArtifactStore).
NothingFromForeignVolume ==
    subject = "t7store" => \A a \in st.answers : a.is = "ok" => a.volume = "expected"

\* A writer that stops when told to ends at most one object above the ceiling,
\* has been warned before, and asked for a review before the last object when
\* objects are no larger than the band (check_capacity).
CeilingHolds ==
    subject = "capacity" =>
        /\ st.used < HardCeiling + st.size
        /\ st.used >= HardCeiling /\ st.size <= 5 * Gib =>
               \E i \in DOMAIN st.decisions : st.decisions[i] = "review_required"

\* A receipt that validates and whose recomputed id is the one it is known by
\* says what was written: no edit of a stored receipt goes unnoticed
\* (validate_ingest_receipt, canonical_receipt_id).
ReceiptIdBinds ==
    subject = "descriptor" => \A v \in st.verdict :
        v.valid /\ v.bound => <<v.of.fields>> = st.named

\* What the store's facade answers is true of the bytes, while they rot, the
\* volume is exchanged and other processes fill the disk.
StoreAnswersHonestly ==
    /\ GetIsHonest
    /\ SweepCatchesOldRot
    /\ NothingFromForeignVolume
    /\ CeilingHolds
    /\ ReceiptIdBinds
=============================================================================
