------------------------------- MODULE Storage -------------------------------
(***************************************************************************)
(* The storage side services: the small local fallback store with its byte *)
(* limits, the identity check and mount probe of the external T7 volume,   *)
(* the receipt that binds it, and the production key directory.  Sizes are *)
(* in units of half the fallback's single-object limit, quotas in GiB.     *)
(***************************************************************************)
EXTENDS Procedures, Integers, FiniteSets

CONSTANTS
    FallbackClients,   \* processes that put into one fallback root
    FallbackObjects,   \* objects 1..n they put; object i has FallbackSize(i)
    FallbackTotal,     \* FALLBACK_TOTAL_MAX_BYTES in the unit above
    KeyProbers,        \* processes that probe one key directory
    MaxProbes          \* probes started

ASSUME StorageAssumption ==
    /\ FallbackObjects \subseteq Nat /\ FallbackTotal \in Nat /\ MaxProbes \in Nat
    /\ IsFiniteSet(FallbackClients) /\ FallbackClients # {}
-----------------------------------------------------------------------------
(***************************************************************************)
(* The fallback store.  A put looks, counts what is there, and only then   *)
(* hands the bytes to the store: other processes act in between.           *)
(***************************************************************************)
FALLBACK_SINGLE_OBJECT_MAX == 2
FallbackSize(o) == 1 + (o % 3)
ObjectClasses == {"pack_image", "run_receipt", "dataset", "source_blob", "fixture", "pilot_run",
                  "catalog_sbom", "quarantine"}
T7Bound(class) == class # "fixture"

FallbackInit ==
    /\ subject = "fallback"
    /\ st = [held |-> {}, classes |-> {}, put |-> [c \in FallbackClients |-> {}]]

\* _current_usage_bytes: the bytes under objects/ when it is asked, one by one.
Units(held) == UNION {{<<o, u>> : u \in 1 .. FallbackSize(o)} : o \in held}
Usage(held) == Cardinality(Units(held))

\* Wrong variant: the new object's own bytes are not counted.
FallbackRefusesLate(o, class) ==
    T7Bound(class) \/ FallbackSize(o) > FALLBACK_SINGLE_OBJECT_MAX
    \/ (o \notin st.held /\ Usage(st.held) > FallbackTotal)

\* put: the refusals, in their order; an object already held costs nothing.
FallbackRefuses(o, class) ==
    T7Bound(class) \/ FallbackSize(o) > FALLBACK_SINGLE_OBJECT_MAX
    \/ (o \notin st.held /\ Usage(st.held) + FallbackSize(o) > FallbackTotal)

\* A refused put changes nothing: the caller is told to wait.
FallbackCheck(c, o, class) ==
    /\ st.put[c] = {} /\ ~FallbackRefuses(o, class)
    /\ Step("fallback", [st EXCEPT !.put[c] = {[object |-> o, class |-> class]}])

FallbackPut(c) ==
    \E p \in st.put[c] :
        Step("fallback", [st EXCEPT !.held = @ \cup {p.object}, !.classes = @ \cup {p.class},
                                    !.put[c] = {}])

FallbackKilled(c) == st.put[c] # {} /\ Step("fallback", [st EXCEPT !.put[c] = {}])

FallbackNext ==
    \E c \in FallbackClients :
        \/ \E o \in FallbackObjects, k \in ObjectClasses : FallbackCheck(c, o, k)
        \/ FallbackPut(c) \/ FallbackKilled(c)
-----------------------------------------------------------------------------
(***************************************************************************)
(* The T7 volume: configuration, what the mount provider says, and the     *)
(* state the probe projects.                                               *)
(***************************************************************************)
Uuids == {"expected", "foreign", "malformed"}

\* What diskutil answers: not there, an error, or its Volume UUID lines in order.
ProviderAnswers ==
    [kind : {"diskutil_missing", "diskutil_nonzero_exit", "provider_raised", "provider_bad_type",
             "provider_bad_keys", "provider_bad_mount_point", "provider_bad_fs_type"},
     lines : {<<>>}]
    \cup [kind : {"answer"}, lines : UNION {[1 .. n -> Uuids] : n \in 0 .. 2}]

ConfigAnswers == {"config_missing", "config_unreadable", "config_bad_json", "config_not_object",
                  "config_missing_uuid", "config_bad_uuid", "ok"}

\* _parse_diskutil_output: exactly one Volume UUID line, well formed.
ParsedUuid(lines) ==
    IF DOMAIN lines # {1} \/ lines[1] = "malformed" THEN {} ELSE {lines[1]}

\* verify_t7_identity: unavailable with a reason, the wrong volume, or a match.
VerifyIdentity(answer) ==
    IF answer.kind # "answer" THEN [kind |-> "unavailable", reason |-> answer.kind]
    ELSE IF ParsedUuid(answer.lines) = {}
         THEN [kind |-> "unavailable", reason |-> "diskutil_ambiguous_output"]
    ELSE IF ParsedUuid(answer.lines) = {"expected"} THEN [kind |-> "match", reason |-> ""]
    ELSE [kind |-> "wrong_volume", reason |-> ""]

\* probe_mount: only a missing volume or tool is ABSENT, other trouble AMBIGUOUS.
ProbeMount(answer) ==
    LET v == VerifyIdentity(answer)
    IN  CASE v.kind = "match" -> [state |-> "MOUNTED_EXPECTED", exit |-> "proceed"]
          [] v.kind = "wrong_volume" -> [state |-> "MOUNTED_FOREIGN", exit |-> "fail_closed"]
          [] v.kind = "unavailable" ->
                [state |-> IF v.reason \in {"diskutil_nonzero_exit", "diskutil_missing",
                                            "provider_raised"} THEN "ABSENT" ELSE "AMBIGUOUS",
                 exit |-> "wait_storage"]

\* The configuration is read once; the volume may be swapped before each probe.
MountInit ==
    /\ subject = "mount"
    /\ \E c \in ConfigAnswers, a \in ProviderAnswers :
          st = [config |-> c, loaded |-> FALSE, answer |-> a, swaps |-> 0, probe |-> {}]

LoadExpectedIdentity == st.config = "ok" /\ ~st.loaded
                        /\ Step("mount", [st EXCEPT !.loaded = TRUE])
SwapVolume ==
    /\ st.swaps < 1
    /\ \E a \in ProviderAnswers : Step("mount", [st EXCEPT !.answer = a, !.swaps = @ + 1])
RunProbe ==
    /\ st.loaded
    /\ Step("mount", [st EXCEPT !.probe = {[of |-> st.answer, is |-> ProbeMount(st.answer)]}])

MountNext == LoadExpectedIdentity \/ SwapVolume \/ RunProbe
-----------------------------------------------------------------------------
(***************************************************************************)
(* The binding receipt and the native activation attempt.                  *)
(***************************************************************************)
DEFAULT_SRF_ALLOCATION_GIB   == 400
DEFAULT_MIN_FREE_RESERVE_GIB == 100
PROTECTED_EVIDENCE == 1 .. 8   \* _PROTECTED_EVIDENCE_FIELDS; 1 is the authority receipt

StorageQuota(used, free) ==
    IF used < 0 \/ free < 0 THEN "StorageLayoutError"
    ELSE IF used > DEFAULT_SRF_ALLOCATION_GIB THEN "T7_QUOTA_EXCEEDED"
    ELSE IF free < DEFAULT_MIN_FREE_RESERVE_GIB THEN "WAIT_T7_BINDING"
    ELSE "OK"

Missing(evidence) == PROTECTED_EVIDENCE \ evidence

BindingStatus(b) ==
    IF StorageQuota(b.used, b.free) = "StorageLayoutError" THEN "StorageLayoutError"
    ELSE IF /\ StorageQuota(b.used, b.free) = "OK"
            /\ b.request /\ b.preflight /\ Missing(b.evidence) = {}
         THEN "ACTIVE" ELSE "WAIT_T7_BINDING"

\* The attempt receipt records the capacity and decides on the evidence alone.
AttemptStatus(b) == IF Missing(b.evidence) = {} THEN "ACTIVE" ELSE "PARTIAL_NATIVE_EVIDENCE"

BindingInit ==
    /\ subject = "binding"
    /\ \E u \in {-1, 0, 399, 400, 401}, f \in {-1, 0, 99, 100, 101}, r, p \in BOOLEAN,
          e \in {PROTECTED_EVIDENCE, {}} \cup
                {PROTECTED_EVIDENCE \ {i} : i \in PROTECTED_EVIDENCE} :
          st = [used |-> u, free |-> f, request |-> r, preflight |-> p, evidence |-> e,
                answer |-> {}]

BuildReceipts ==
    Step("binding", [st EXCEPT !.answer = {[binding |-> BindingStatus(st),
                                            attempt |-> AttemptStatus(st),
                                            waits |-> Missing(st.evidence)]}])
-----------------------------------------------------------------------------
(***************************************************************************)
(* The production key directory.  st.key is the key on disk (at most one), *)
(* st.keyring the key the receiver's file names, st.at[p] the step of a    *)
(* probe; keys are numbered as they are generated.                         *)
(***************************************************************************)
KeyInit ==
    /\ subject = "keyring"
    /\ \E damaged, private, authority \in BOOLEAN :
          st = [key |-> {}, damaged |-> damaged, private |-> private, authority |-> authority,
                keyring |-> {}, made |-> 0, raced |-> FALSE,
                at |-> [p \in KeyProbers |-> "idle"], mine |-> [p \in KeyProbers |-> 0],
                probes |-> 0, receipts |-> {}]

Ends(p, status) ==
    [st EXCEPT !.at[p] = "idle",
               !.receipts = @ \cup {[status |-> status, key |-> IF status = "ACTIVE"
                                                                THEN st.mine[p] ELSE 0]}]

\* _load_or_create_private_key: a key on disk is reused.
LoadKey(p) ==
    /\ st.at[p] = "idle" /\ st.probes < MaxProbes /\ st.key # {} /\ ~st.damaged
    /\ Step("keyring", [st EXCEPT !.at[p] = "loaded", !.mine[p] = CHOOSE k \in st.key : TRUE,
                                  !.probes = @ + 1])
\* A key file that is not 32 bytes is an error of the probe.
LoadDamagedKey(p) ==
    /\ st.at[p] = "idle" /\ st.probes < MaxProbes /\ st.key # {} /\ st.damaged
    /\ Step("keyring", [Ends(p, "PARTIAL_NATIVE_EVIDENCE") EXCEPT !.probes = @ + 1])
FindKeyAbsent(p, createMissing) ==
    /\ st.at[p] = "idle" /\ st.probes < MaxProbes /\ st.key = {}
    /\ IF createMissing
       THEN Step("keyring", [st EXCEPT !.at[p] = "absent", !.probes = @ + 1,
                 !.raced = @ \/ \E q \in KeyProbers : st.at[q] = "absent"])
       ELSE Step("keyring", [Ends(p, "BLOCKED_NATIVE_KEY_ABSENT") EXCEPT !.probes = @ + 1])

\* A fresh key in a temporary file, moved over whatever is there by now.
CreateKey(p) ==
    /\ st.at[p] = "absent"
    /\ Step("keyring", [st EXCEPT !.at[p] = "loaded", !.made = @ + 1, !.key = {st.made + 1},
                                  !.mine[p] = st.made + 1,
                                  !.raced = @ \/ st.key # {}])

\* _write_receiver_keyring: the file is written anew with this key alone.
WriteKeyring(p) ==
    /\ st.at[p] = "loaded"
    /\ Step("keyring", [st EXCEPT !.at[p] = "bound", !.keyring = {st.mine[p]}])

\* The evidence: the modes, the authority and the signed round trip through a
\* spool of its own, which exercises the transport and not the directory.
FinishProbe(p) ==
    /\ st.at[p] = "bound"
    /\ Step("keyring", Ends(p, IF st.private /\ st.authority THEN "ACTIVE"
                               ELSE "PARTIAL_NATIVE_EVIDENCE"))

ProbeKilled(p) == st.at[p] # "idle" /\ Step("keyring", [st EXCEPT !.at[p] = "idle"])

\* The operator removes a key he no longer trusts.
RemoveKey ==
    /\ st.key # {} /\ \A p \in KeyProbers : st.at[p] = "idle"
    /\ Step("keyring", [st EXCEPT !.key = {}, !.receipts = {}])

KeyNext ==
    \/ RemoveKey
    \/ \E p \in KeyProbers :
          \/ LoadKey(p) \/ LoadDamagedKey(p) \/ CreateKey(p) \/ WriteKeyring(p) \/ FinishProbe(p)
          \/ ProbeKilled(p) \/ \E b \in BOOLEAN : FindKeyAbsent(p, b)
-----------------------------------------------------------------------------
StorageInit == FallbackInit \/ MountInit \/ BindingInit \/ KeyInit
StorageNext ==
    \/ subject = "fallback" /\ FallbackNext
    \/ subject = "mount" /\ MountNext
    \/ subject = "binding" /\ BuildReceipts
    \/ subject = "keyring" /\ KeyNext
-----------------------------------------------------------------------------
\* The fallback stays small: with n processes putting at once it exceeds its
\* total limit by at most n - 1 single objects (each passed the check before
\* the others wrote), and never holds anything of a T7-bound class.
FallbackBounded ==
    subject = "fallback" =>
        /\ Usage(st.held) <= FallbackTotal
               + (Cardinality(FallbackClients) - 1) * FALLBACK_SINGLE_OBJECT_MAX
        /\ \A k \in st.classes : ~T7Bound(k)

\* A probe lets a caller proceed only on an answer that names the expected
\* volume and no other: an unreadable, empty or contradictory answer waits.
ProceedOnlyOnExpected ==
    subject = "mount" =>
        \A p \in st.probe :
            /\ (p.is.exit = "proceed" =>
                   p.of.kind = "answer" /\ p.of.lines = <<"expected">>)
            /\ (p.is.exit = "fail_closed" => p.of.kind = "answer" /\ p.of.lines = <<"foreign">>)

\* An ACTIVE binding is backed by authority on both sides, all the evidence and
\* a quota that holds at its boundaries, and an attempt made from the same
\* evidence agrees: it is ACTIVE too and names no wait.
BindingIsBacked ==
    subject = "binding" =>
        \A a \in st.answer :
            /\ (a.binding = "ACTIVE" =>
                   /\ st.used \in 0 .. 400 /\ st.free >= 100 /\ st.request /\ st.preflight
                   /\ a.attempt = "ACTIVE" /\ a.waits = {})
            /\ (a.attempt = "ACTIVE" <=> a.waits = {})

\* Once the probes are quiet, the key an ACTIVE receipt names is the key on disk
\* and the one the receiver's keyring holds, through kills between the two
\* files and keys removed by the operator, unless two probes created a key at
\* the same time.
ActiveKeyIsBound ==
    subject = "keyring" =>
        ((\A p \in KeyProbers : st.at[p] = "idle") /\ ~st.raced =>
            \A r \in st.receipts :
                r.status = "ACTIVE" => st.key = {r.key} /\ st.keyring = {r.key})

\* Bytes and keys go only where the volume or the keyring was proved.
StorageProven ==
    /\ FallbackBounded
    /\ ProceedOnlyOnExpected
    /\ BindingIsBacked
    /\ ActiveKeyIsBound
=============================================================================
