------------------------------ MODULE Catalog ------------------------------
(***************************************************************************)
(* The capability catalog: entries with an immutable identity, snapshots   *)
(* whose id is a digest of their entries, and the local cache file that    *)
(* answers when the store is away.  Digests are modelled as the very value *)
(* digested.  The cache file is replaced atomically; somebody else may     *)
(* edit it between a write and a read.                                     *)
(***************************************************************************)
EXTENDS Procedures, Integers, Sequences, FiniteSets

CONSTANTS
    CapabilityIds,    \* capability ids, numbers in their sort order
    Revisions,        \* contents an entry of one id may have
    MaxEntries,       \* bound: entries of a snapshot
    MaxCatalogSteps   \* bound: writes and edits of the cache file

ASSUME CatalogAssumption ==
    CapabilityIds \subseteq Nat /\ IsFiniteSet(CapabilityIds) /\ MaxEntries \in Nat
-----------------------------------------------------------------------------
(***************************************************************************)
(* Entries.                                                                *)
(***************************************************************************)
ADMISSION_STAGES == {"DISCOVERED", "SOURCE_VERIFIED", "LICENSE_CLEARED", "LOCKED", "BUILT",
                     "BYTE_VERIFIED", "RUNTIME_PROBED", "ACTUAL_COMPUTE_PROBED",
                     "EXPERIMENTAL_ACCEPTED", "not_admitted"}

\* build_entry: every field is checked on its own; `bad' is the set of fields
\* that are missing, of the wrong type or outside their vocabulary.
EntryVerdict(bad) == IF bad = {} THEN "ok" ELSE "CONTRACT_INVALID"

\* load_registry_seed: one bad entry fails the whole seed, and the rest is sorted.
SeedVerdict(doc) ==
    IF ~doc.readable \/ ~doc.schema THEN "CONTRACT_INVALID"
    ELSE IF \E i \in DOMAIN doc.entries : EntryVerdict(doc.entries[i]) # "ok"
         THEN "CONTRACT_INVALID" ELSE "ok"

Entries == [id : CapabilityIds, rev : Revisions]
-----------------------------------------------------------------------------
(***************************************************************************)
(* Snapshots.                                                              *)
(***************************************************************************)

\* The entries sorted before the i-th: those with a smaller id, and those with
\* the same one that were found first.
SortedBefore(s, i) == {j \in DOMAIN s : s[j].id < s[i].id \/ (s[j].id = s[i].id /\ j < i)}

\* Entries in the order of their ids.
SortedById(s) ==
    [k \in DOMAIN s |-> s[CHOOSE i \in DOMAIN s : Cardinality(SortedBefore(s, i)) = k - 1]]

HasDuplicate(s) == \E i, j \in DOMAIN s : i # j /\ s[i].id = s[j].id

\* One level of the tree: neighbours are hashed together, the last node of an
\* odd level with itself.
Paired(level) ==
    [i \in 1 .. (Len(level) + 1) \div 2 |->
        <<level[2 * i - 1], level[IF 2 * i <= Len(level) THEN 2 * i ELSE 2 * i - 1]>>]

Shorter(level) == IF Len(level) > 1 THEN Paired(level) ELSE level

\* The level that is left when the loop has no more to pair.
TopLevel(leaves) ==
    LET tree[n \in 0 .. MaxEntries] == IF n = 0 THEN leaves ELSE Shorter(tree[n - 1])
    IN  tree[MaxEntries]

\* _merkle_root over the leaves <<entry>>; no entry at all has a root of its own.
MerkleRoot(s) == IF s = <<>> THEN <<>> ELSE TopLevel([i \in DOMAIN s |-> <<s[i]>>])[1]

LocationRef(locations) == locations

\* The id covers entries and root, never creation time or locations.
SnapshotOf(s, locations) ==
    [entries |-> s, merkle_root |-> MerkleRoot(s), snapshot_id |-> <<s, MerkleRoot(s)>>,
     location_state_ref |-> LocationRef(locations)]

\* build_snapshot: sort, refuse a second entry of one id, digest.
BuildSnapshot(s, locations) ==
    IF HasDuplicate(s) THEN {} ELSE {SnapshotOf(SortedById(s), locations)}

\* verify_snapshot: order, root, id and locations recomputed and compared.
Verified(snap, locations) ==
    LET s == SortedById(snap.entries)
    IN  /\ snap.entries = s /\ snap.merkle_root = MerkleRoot(s)
        /\ snap.snapshot_id = <<s, MerkleRoot(s)>>
        /\ snap.location_state_ref = LocationRef(locations)
-----------------------------------------------------------------------------
(***************************************************************************)
(* Two builders make snapshots of the same or of different entries.        *)
(***************************************************************************)
EntryLists == UNION {[1 .. n -> Entries] : n \in 0 .. MaxEntries}

\* The entries a builder is handed, in the order it found them.
SnapshotInit ==
    /\ subject = "snapshot"
    /\ \E s, t \in EntryLists : st = [left |-> s, right |-> t, built |-> <<>>]

BuildTwo ==
    /\ subject = "snapshot" /\ st.built = <<>>
    /\ \E loc \in {"here", "away"} :
          Step("snapshot", [st EXCEPT !.built = <<BuildSnapshot(st.left, "here"),
                                                  BuildSnapshot(st.right, loc)>>])
-----------------------------------------------------------------------------
(***************************************************************************)
(* The cache file.                                                         *)
(***************************************************************************)
States == {"unknown", "local", "remote"}

\* What is written: a location for every entry and for nothing else.
StoredLocations(s, locations) ==
    [c \in {s[i].id : i \in DOMAIN s} |->
        IF c \in DOMAIN locations THEN locations[c] ELSE "unknown"]

CacheInit ==
    /\ subject = "cache"
    /\ st = [file |-> {}, written |-> {}, steps |-> 0, read |-> {}, shown |-> {}]

\* Wrong variant: the reference is taken of the locations as given, not as stored.
CacheWriteRawRef(s, locations) ==
    /\ subject = "cache" /\ st.steps < MaxCatalogSteps
    /\ \E snap \in BuildSnapshot(s, locations) :
          LET env == [snapshot |-> snap, locations |-> StoredLocations(s, locations)]
          IN  Step("cache", [st EXCEPT !.file = {env}, !.written = {env}, !.read = {},
                                       !.shown = {}, !.steps = @ + 1])

CacheWrite(s, locations) ==
    /\ subject = "cache" /\ st.steps < MaxCatalogSteps
    /\ \E snap \in BuildSnapshot(s, StoredLocations(s, locations)) :
          LET env == [snapshot |-> snap, locations |-> StoredLocations(s, locations)]
          IN  Step("cache", [st EXCEPT !.file = {env}, !.written = {env}, !.read = {},
                                       !.shown = {}, !.steps = @ + 1])

\* Somebody replaces the entries, or the recorded root and id, of the file.
EditFile(s) ==
    /\ subject = "cache" /\ st.steps < MaxCatalogSteps
    /\ \E env \in st.file : \E snap \in BuildSnapshot(s, env.locations) :
          \E edited \in {[env.snapshot EXCEPT !.entries = s],
                         [env.snapshot EXCEPT !.merkle_root = snap.merkle_root,
                                              !.snapshot_id = snap.snapshot_id]} :
              Step("cache", [st EXCEPT !.file = {[env EXCEPT !.snapshot = edited]}, !.read = {},
                                       !.written = {}, !.shown = {}, !.steps = @ + 1])

\* read: the snapshot is rebuilt from the entries of the file, and the rebuilt
\* one is verified.
CacheRead ==
    /\ subject = "cache" /\ st.read = {}
    /\ \E env \in st.file :
          LET snap == BuildSnapshot(env.snapshot.entries, env.locations)
          IN  Step("cache", [st EXCEPT !.read =
                  IF snap # {} /\ \A x \in snap : Verified(x, env.locations)
                  THEN {[ok |-> TRUE, snapshot |-> x, locations |-> env.locations] : x \in snap}
                  ELSE {[ok |-> FALSE]}])

\* A location is told only while the store is there and only if it is recorded.
Resolved(c, locations, storePresent) ==
    IF storePresent /\ c \in DOMAIN locations THEN locations[c] ELSE "unknown"

\* list_capabilities and inspect.
ListCapabilities(storePresent) ==
    /\ subject = "cache" /\ st.shown = {}
    /\ \E r \in {x \in st.read : x.ok} :
          Step("cache", [st EXCEPT !.shown = {[present |-> storePresent, rows |->
              {<<r.snapshot.entries[i].id,
                 Resolved(r.snapshot.entries[i].id, r.locations, storePresent)>> :
                  i \in DOMAIN r.snapshot.entries}]}])

CacheStep ==
    \/ \E s \in {t \in EntryLists : Len(t) <= 2} :
          \/ EditFile(s)
          \/ \E loc \in [{1} -> {"unknown", "local"}] \cup [{1, 2} -> {"local"}] :
                CacheWrite(s, loc)
    \/ CacheRead
    \/ \E present \in BOOLEAN : ListCapabilities(present)
-----------------------------------------------------------------------------
\* load_registry_seed on a document of up to two entries.
SeedInit ==
    /\ subject = "seed"
    /\ \E r, c \in BOOLEAN, a, b \in SUBSET {"profile", "platforms", "admission_stage"} :
          st = [doc |-> [readable |-> r, schema |-> c, entries |-> <<a, b>>], answer |-> "none"]

LoadSeed ==
    /\ subject = "seed" /\ st.answer = "none"
    /\ Step("seed", [st EXCEPT !.answer = SeedVerdict(st.doc)])

CatalogInit == SnapshotInit \/ CacheInit \/ SeedInit
CatalogNext == BuildTwo \/ (subject = "cache" /\ CacheStep) \/ LoadSeed
-----------------------------------------------------------------------------
(* Properties *)

\* The identity of a snapshot is a function of its set of entries alone: the
\* order in which they were found and where their bytes are do not matter, and
\* two different sets never share a Merkle root, although the tree repeats the
\* last node of an odd level.
IdentityOfEntries ==
    (subject = "snapshot" /\ st.built # <<>>) =>
        \A a \in st.built[1], b \in st.built[2] :
            LET same == {a.entries[i] : i \in DOMAIN a.entries} =
                        {b.entries[i] : i \in DOMAIN b.entries}
            IN  (a.snapshot_id = b.snapshot_id) = same /\ (a.merkle_root = b.merkle_root) = same

\* What is read back from a file nobody edited is what was written: the same
\* identity, and a location for each of its entries.
CacheRoundTrip ==
    subject = "cache" =>
        \A w \in st.written, r \in st.read :
            r.ok /\ r.snapshot = w.snapshot /\ r.locations = w.locations

\* While the store is away no capability is shown with a location.
NoStaleLocation ==
    subject = "cache" =>
        \A v \in st.shown : v.present \/ \A row \in v.rows : row[2] = "unknown"

\* The catalog never misnames, forgets or misplaces what it was given.
CatalogSpeaksTrue ==
    /\ IdentityOfEntries
    /\ CacheRoundTrip
    /\ NoStaleLocation
=============================================================================
