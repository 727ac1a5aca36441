------------------------------ MODULE Bridges ------------------------------
(***************************************************************************)
(* What leaves the lab and what comes back: the public export packet, the  *)
(* observations of the Market and Security projects, the closeouts of      *)
(* signed child missions, and heavy jobs routed to a compute node.  Hashes *)
(* and signatures are modelled as free constructors: two are equal when    *)
(* what they were made of is equal.                                        *)
(***************************************************************************)
EXTENDS Procedures, Integers, Sequences, FiniteSets

CONSTANTS
    MaxObjects,     \* objects offered to one export
    PacketMax,      \* PACKET_MAX_BYTES, in units of a short object
    MaxTraffic      \* events on a bridge to a native project

ASSUME BridgesAssumption == {MaxObjects, PacketMax, MaxTraffic} \subseteq Nat \ {0}
-----------------------------------------------------------------------------
(***************************************************************************)
(* The exporter.  A summary is known by its size after normalisation and   *)
(* by the length of its first forbidden match, 0 for none.                 *)
(***************************************************************************)
Summary == [blank |-> [size |-> 0, match |-> 0], clean |-> [size |-> 1, match |-> 0],
            other |-> [size |-> 1, match |-> 0], long  |-> [size |-> 3, match |-> 0],
            path  |-> [size |-> 1, match |-> 20], flag |-> [size |-> 1, match |-> 2]]

PrivateIds == {"p1", "p2"}
Raw(id)    == [seed |-> <<>>, of |-> id]

ExportObjects == [object : PrivateIds, text : DOMAIN Summary, refs : SUBSET PrivateIds]

Policies == [private_identities : {"digest_replaced", "omitted"}, summary_max_bytes : {1, 3}]

\* _find_first_forbidden, which check_summary and scan_payload share.
Forbidden(text) == Summary[text].match > 0

\* _mask_snippet: the characters of the match a refusal shows.
Shown(text) == IF Summary[text].match <= 4 THEN Summary[text].match ELSE 4

\* normalize_summary
NormalizeSummary(text, budget) ==
    IF Summary[text].size = 0 THEN "empty"
    ELSE IF Summary[text].size > budget THEN "too long"
    ELSE IF Forbidden(text) THEN "forbidden" ELSE "ok"

\* packet_seed: over the public content and the policy alone.  The types of
\* the objects are left out.
PacketSeed(objects, policy) == <<[i \in DOMAIN objects |-> objects[i].text], policy>>

ReplaceByRef(seed, id) == Raw(id)

\* replacement_digest, and replacement_digest_for with the seed recomputed.
ReplacementDigest(seed, id) == [seed |-> seed, of |-> id]

\* source_snapshot_digest: none, or whatever digest the caller passes; the solo
\* agent's export passes the very digest of the object it exports.
Snapshots == {{}, {Raw("p1")}}

ExportInit ==
    /\ subject = "export"
    /\ \E n \in 0 .. MaxObjects : \E objects \in [1 .. n -> ExportObjects], policy \in Policies,
                                     snapshot \in Snapshots :
           st = [objects |-> objects, policy |-> policy, snapshot |-> snapshot, wire |-> <<>>,
                 packets |-> {}, refused |-> {}]

Refuse(why, shown) ==
    Step("export", [st EXCEPT !.refused = {[why |-> why, shown |-> shown]}])

\* _seed_objects and the loop of build_packet for one object; the seed is
\* made first, so a bad summary anywhere refuses before anything is built.
WireObject ==
    /\ st.refused = {} /\ st.packets = {} /\ Len(st.wire) < Len(st.objects)
    /\ LET verdict(i) == NormalizeSummary(st.objects[i].text, st.policy.summary_max_bytes)
           bad  == {i \in DOMAIN st.objects : verdict(i) # "ok"}
           o    == st.objects[Len(st.wire) + 1]
           seed == PacketSeed(st.objects, st.policy)
       IN  IF bad # {}
           THEN LET first == CHOOSE i \in bad : \A j \in bad : i <= j
                IN  Refuse(verdict(first), IF verdict(first) = "forbidden"
                                           THEN Shown(st.objects[first].text) ELSE 0)
           ELSE Step("export", [st EXCEPT !.wire = Append(@,
                    [object_digest |-> ReplacementDigest(seed, o.object), text |-> o.text,
                     provenance_refs |->
                         IF st.policy.private_identities = "digest_replaced"
                         THEN {ReplacementDigest(seed, r) : r \in o.refs} ELSE {}])])

Encoded(wire) == LET bytes[n \in 0 .. Len(wire)] ==
                         IF n = 0 THEN 0 ELSE bytes[n - 1] + Summary[wire[n].text].size
                 IN  bytes[Len(wire)]

\* scan_payload: over every string of the packet that is not exempt.
ScanPayload(wire) == \A i \in DOMAIN wire : ~Forbidden(wire[i].text)

\* The end of build_packet: the packet takes the snapshot digest as it came, is
\* scanned whole, and is held to the cap.
FinishPacket ==
    /\ st.refused = {} /\ st.packets = {} /\ Len(st.wire) = Len(st.objects)
    /\ IF ~ScanPayload(st.wire) THEN Refuse("forbidden", 4)
       ELSE IF Encoded(st.wire) > PacketMax THEN Refuse("oversize", 0)
       ELSE Step("export", [st EXCEPT !.packets = {[objects |-> st.wire, snapshot |-> st.snapshot]}])

ExportNext == subject = "export" /\ (WireObject \/ FinishPacket)
-----------------------------------------------------------------------------
(***************************************************************************)
(* Observations of a native project.  Its head moves; packets it made may  *)
(* reach the lab late, twice or out of order, and not all are well made.   *)
(* The lab hands the bridge the head it expects and, if it keeps them, the *)
(* ids it has imported before: the bridge keeps none, and by default it is *)
(* handed none.                                                            *)
(***************************************************************************)
NativeHeads == {"n1", "n2"}
Faults == {"none", "schema", "classification", "semantic_class", "executor", "authority",
           "action", "material"}

ObserveInit ==
    /\ subject = "observe"
    /\ \E h \in NativeHeads, p \in {"market", "security"}, keeps \in BOOLEAN :
           st = [project |-> p, keeps |-> keeps, head |-> h, sent |-> <<>>, seen |-> {},
                 imported |-> <<>>, events |-> 0]

Traffic(new) ==
    st.events < MaxTraffic /\ Step("observe", [new EXCEPT !.events = st.events + 1])

\* The native project: external.
NativeMoves == \E h \in NativeHeads \ {st.head} : Traffic([st EXCEPT !.head = h])

NativeSends ==
    \E fault \in Faults : Traffic([st EXCEPT !.sent =
        Append(@, [id |-> Len(st.sent) + 1, head |-> st.head, fault |-> fault])])

\* MarketObservationPacket has no executor to get wrong.
MarketPacketOk(packet)   == packet.fault \in {"none", "executor"}
SecurityPacketOk(packet) == packet.fault = "none"

\* Wrong variant: ids that were seen before are not looked up.
ImportSeenIgnored(packet) == packet.head = st.head

\* The bridge's checks against the caller's head and seen ids.
Importable(packet) == packet.head = st.head /\ packet.id \notin st.seen

\* A packet stays deliverable; one that is refused changes nothing.  Keeping the
\* id for the next call is the caller's.
ImportPacket(packet) ==
    /\ Importable(packet)
    /\ Traffic([st EXCEPT !.seen = IF st.keeps THEN @ \cup {packet.id} ELSE @,
                          !.imported = Append(@, [packet |-> packet, expected |-> st.head])])

ImportMarketObservationPacket ==
    /\ st.project = "market"
    /\ \E i \in DOMAIN st.sent : MarketPacketOk(st.sent[i]) /\ ImportPacket(st.sent[i])

ImportSecurityObservationPacket ==
    /\ st.project = "security"
    /\ \E i \in DOMAIN st.sent : SecurityPacketOk(st.sent[i]) /\ ImportPacket(st.sent[i])

ObserveNext ==
    /\ subject = "observe"
    /\ NativeMoves \/ NativeSends
       \/ ImportMarketObservationPacket \/ ImportSecurityObservationPacket
-----------------------------------------------------------------------------
(***************************************************************************)
(* Child missions.  The lab signs a request; the native project closes out *)
(* the request it saw, and the lab imports a closeout against the request  *)
(* it now stands by.  Requests can be re-issued and documents altered on   *)
(* the way.  `unmet' holds the demands a closeout does not meet.           *)
(***************************************************************************)
Contours == {"dual", "market", "security"}

\* What a closeout is held to beyond its identity, per project: suites that
\* pass, counts that are zero, flags that are false, what must be preserved.
DualContourDemands == {"suites", "live_actions", "authority"}
MarketDemands      == {"suites", "live_actions", "authority", "canonical_writes",
                       "activation_state", "central_projector"}
SecurityDemands    == {"suites", "live_actions", "authority", "canonical_writes",
                       "activation_state", "executor_boundary", "material_crossed"}

Demands(contour) ==
    CASE contour = "dual"     -> DualContourDemands
      [] contour = "market"   -> MarketDemands
      [] contour = "security" -> SecurityDemands

\* The unsigned part of a request: which issue of the mission it is stands for
\* its heads; `content' for the adapter receipt, or the schemas and vectors.
Unsigned == [issue : 1 .. 2, content : 1 .. 2]

Sign(key, unsigned) == [key |-> key, over |-> unsigned]

Request(unsigned) ==
    [unsigned |-> unsigned, signer |-> "lab", algorithm |-> "test-hmac-sha256",
     signature |-> Sign("k", unsigned), request_id |-> <<unsigned.issue, unsigned.content>>]

\* build_native_bridge_child_request
NativeBridgeChildRequest(content) == {[issue |-> 1, content |-> content]}

\* build_shared_contract_child_mission_request: none while a conformance
\* vector is not accepted or rejected as it says.
SharedContractRequest(content, vectors) ==
    {u \in {[issue |-> 1, content |-> content]} : \A i \in DOMAIN vectors : vectors[i]}

CloseoutInit ==
    /\ subject = "closeout"
    /\ \E contour \in Contours, content \in 1 .. 2, vectors \in [1 .. 2 -> BOOLEAN] :
         LET issued == IF contour = "dual" THEN SharedContractRequest(content, vectors)
                       ELSE NativeBridgeChildRequest(content)
         IN  st = [contour |-> contour, vectors |-> vectors, issued |-> issued,
                   request |-> {Request(u) : u \in issued}, closeout |-> {},
                   altered |-> FALSE, receipts |-> {}]

Reissue ==
    \E r \in st.request, content \in 1 .. 2 :
        LET u == [issue |-> 2, content |-> content]
        IN  /\ r.unsigned.issue = 1 /\ ~st.altered
            /\ Step("closeout", [st EXCEPT !.request = {Request(u)}, !.issued = @ \cup {u}])

\* Somebody alters the request where it is kept.
AlterRequest ==
    /\ ~st.altered
    /\ \E r \in st.request : \E new \in
           {[r EXCEPT !.unsigned = u] : u \in Unsigned \ {r.unsigned}}
           \cup {[r EXCEPT !.signer = "unknown"], [r EXCEPT !.algorithm = "none"],
                 [r EXCEPT !.signature = Sign("other", r.unsigned)],
                 [r EXCEPT !.request_id = <<9, 9>>]} :
           Step("closeout", [st EXCEPT !.request = {new}, !.altered = TRUE])

\* The native project closes out a request it was sent: external.
NativeCloses ==
    /\ st.closeout = {}
    /\ \E u \in st.issued, unmet \in SUBSET Demands(st.contour), id \in {"same", "other"},
          schema \in BOOLEAN, content \in 1 .. 2 :
           /\ Cardinality(unmet) <= 1
           /\ Step("closeout", [st EXCEPT !.closeout =
                  {[issue |-> u.issue, content |-> content, schema |-> schema, unmet |-> unmet,
                    child_request_id |-> IF id = "same" THEN <<u.issue, u.content>>
                                         ELSE <<9, 9>>]}])

\* The id is not among the signed fields.
VerifySharedContractRequest(r) ==
    /\ r.signer = "lab" /\ r.algorithm = "test-hmac-sha256"
    /\ r.signature = Sign("k", r.unsigned)

VerifyNativeBridgeRequest(r) == VerifySharedContractRequest(r)

CloseoutIdOnly(r, c) == c.schema /\ c.child_request_id = r.request_id

\* _validate_native_closeout_identity
SameMission(r, c) ==
    /\ c.schema
    /\ c.issue = r.unsigned.issue /\ c.content = r.unsigned.content
    /\ c.child_request_id = r.request_id

\* _validate_native_closeout_suites, _authority, _containment
MeetsDemands(c) == c.unmet = {}

ImportReceipt(status, r, c) ==
    Step("closeout", [st EXCEPT !.receipts =
        {[status |-> status, request |-> r, closeout |-> c]}])

\* Without a closeout the mission waits; a bad one is refused.
ImportCloseout(r) ==
    /\ st.receipts = {}
    /\ IF st.closeout = {} THEN ImportReceipt("WAIT_NATIVE_CHILD_CLOSEOUT", r, {})
       ELSE \E c \in st.closeout :
                SameMission(r, c) /\ MeetsDemands(c) /\ ImportReceipt("IMPORTED", r, {c})

ImportDualContourCloseout ==
    /\ st.contour = "dual"
    /\ \E r \in st.request : VerifySharedContractRequest(r) /\ ImportCloseout(r)

ImportMarketCloseout ==
    /\ st.contour = "market"
    /\ \E r \in st.request : VerifyNativeBridgeRequest(r) /\ ImportCloseout(r)

ImportSecurityCloseout ==
    /\ st.contour = "security"
    /\ \E r \in st.request : VerifyNativeBridgeRequest(r) /\ ImportCloseout(r)

CloseoutNext ==
    /\ subject = "closeout"
    /\ Reissue \/ AlterRequest \/ NativeCloses
       \/ ImportDualContourCloseout \/ ImportMarketCloseout \/ ImportSecurityCloseout

-----------------------------------------------------------------------------
(***************************************************************************)
(* Heavy jobs.  A profile asks for capabilities of a node, an image and an *)
(* architecture; "linux" and "i1" are the profile's own.  A job's packet   *)
(* is signed, and may be altered before the node verifies it.              *)
(***************************************************************************)
NodeCapabilities == {"petsc", "accelerator"}

HeavyProfiles == [paid_oracle : BOOLEAN, capabilities : (SUBSET NodeCapabilities) \ {{}},
                  local : BOOLEAN]

ComputeNodes == [online : BOOLEAN, architecture : {"linux", "arm"}, revoked : BOOLEAN,
                 has_image : BOOLEAN, capabilities : (SUBSET NodeCapabilities) \ {{}}]

RemoteInit ==
    /\ subject = "remote"
    /\ \E p \in HeavyProfiles, n \in ComputeNodes, node \in BOOLEAN, units \in 0 .. 2,
          receipt \in {{}, {1}} : \E c \in p.capabilities :
           st = [profile |-> p, node |-> IF node THEN {n} ELSE {}, units |-> units,
                 receipt |-> receipt, capability |-> c, bundle |-> {}, decision |-> {},
                 packet |-> {}, ran |-> {}]

\* What a node, if there is one, says to an image, an architecture and a set
\* of capabilities: the common end of the two assessments.
ComputeNodeVerdict(node, capabilities) ==
    IF ~\E n \in node : n.online THEN "WAIT_COMPUTE_NODE"
    ELSE LET n == CHOOSE x \in node : TRUE
         IN  IF n.revoked THEN "REJECTED"
             ELSE IF n.architecture # "linux" \/ ~(capabilities \subseteq n.capabilities)
                     \/ ~n.has_image
                  THEN "WAIT_COMPUTE_NODE" ELSE "ROUTABLE_REMOTE"

\* _assess_profile, with an importable runtime in `local'.
AssessProfile(p, node, receipt) ==
    IF p.paid_oracle /\ receipt = {} THEN "WAIT_AUTHORITY"
    ELSE IF p.local THEN "ACTIVE_LOCAL" ELSE ComputeNodeVerdict(node, p.capabilities)

\* route_heavy_job for a known profile.
RouteHeavyJob(p, capability, units, node, receipt) ==
    IF (p.paid_oracle \/ units > 0) /\ receipt = {} THEN "WAIT_AUTHORITY"
    ELSE IF \E r \in receipt : units > r THEN "WAIT_AUTHORITY"
    ELSE ComputeNodeVerdict(node, {capability})

\* build_heavy_capability_routing_bundle
BuildBundle ==
    /\ st.bundle = {}
    /\ Step("remote", [st EXCEPT !.bundle = {AssessProfile(st.profile, st.node, st.receipt)}])

RouteJob ==
    /\ st.bundle # {} /\ st.decision = {}
    /\ Step("remote", [st EXCEPT !.decision =
           {RouteHeavyJob(st.profile, st.capability, st.units, st.node, st.receipt)}])

\* build_signed_remote_job_packet: the signature covers the job.
SignJob ==
    /\ st.decision = {"ROUTABLE_REMOTE"} /\ st.packet = {}
    /\ Step("remote", [st EXCEPT !.packet = {[job |-> st.units, signer |-> "lab",
           signature |-> Sign("k", st.units), schema |-> TRUE]}])

AlterJob ==
    /\ st.ran = {}
    /\ \E k \in st.packet : \E new \in {[k EXCEPT !.job = 3], [k EXCEPT !.signer = "unknown"],
                                        [k EXCEPT !.schema = FALSE]} :
           Step("remote", [st EXCEPT !.packet = {new}])

VerifyAnySigner(k) == k.schema /\ k.signature.key = "k"

\* verify_remote_job_packet
VerifyJob(k) == k.schema /\ k.signer = "lab" /\ k.signature = Sign("k", k.job)

RunJob ==
    \E k \in st.packet :
        /\ st.ran = {} /\ VerifyJob(k)
        /\ Step("remote", [st EXCEPT !.ran = {k.job}])

RemoteNext ==
    subject = "remote" /\ (BuildBundle \/ RouteJob \/ SignJob \/ AlterJob \/ RunJob)

BridgesInit == ExportInit \/ ObserveInit \/ CloseoutInit \/ RemoteInit
BridgesNext == ExportNext \/ ObserveNext \/ CloseoutNext \/ RemoteNext
-----------------------------------------------------------------------------
(***************************************************************************)
(* Properties.                                                             *)
(***************************************************************************)
Digests(packet) ==
    packet.snapshot \cup
        UNION {{packet.objects[i].object_digest} \cup packet.objects[i].provenance_refs :
                  i \in DOMAIN packet.objects}

\* The objects of a packet hold no raw digest of an object or a reference, no
\* forbidden text and, under the omitting policy, no reference at all; a refusal
\* shows four characters at most.  The only raw digest in a packet is the
\* snapshot its caller passed, which goes out unreplaced under either policy
\* (build_packet, normalize_summary).
PacketHidesObjects ==
    subject = "export" =>
        /\ \A p \in st.packets :
               /\ \A id \in PrivateIds : Raw(id) \in Digests(p) => Raw(id) \in st.snapshot
               /\ \A i \in DOMAIN p.objects : Summary[p.objects[i].text].match = 0
               /\ st.policy.private_identities = "omitted" =>
                      \A i \in DOMAIN p.objects : p.objects[i].provenance_refs = {}
        /\ \A r \in st.refused : r.shown <= 4

\* Inside a packet the replacements keep the references: one object refers to
\* another exactly when its private counterpart did (replacement_digest).
ReferencesSurvive ==
    subject = "export" /\ st.policy.private_identities = "digest_replaced" =>
        \A p \in st.packets : \A i, j \in DOMAIN p.objects :
            st.objects[j].object \in st.objects[i].refs
                <=> p.objects[j].object_digest \in p.objects[i].provenance_refs

\* However often packets are delivered and however the head moves, each
\* observation is imported well made and while its own head is the expected
\* one, and at most once by a caller who keeps the ids it has imported; one who
\* leaves them at their default may import it again
\* (import_market_observation_packet and its Security kin).
ObservationOnceAndCurrent ==
    subject = "observe" =>
        /\ \A i \in DOMAIN st.imported :
               /\ st.imported[i].packet.head = st.imported[i].expected
               /\ st.imported[i].packet.fault \in
                      {"none"} \cup IF st.project = "market" THEN {"executor"} ELSE {}
        /\ st.keeps => \A i, j \in DOMAIN st.imported :
               i # j => st.imported[i].packet.id # st.imported[j].packet.id

\* A closeout is imported only for a request the lab did issue, with its
\* heads and content, and only when every demand is met: neither a late
\* closeout of an earlier issue nor an altered request gets through
\* (build_market_closeout_import_receipt and its kin).
CloseoutIsForThisRequest ==
    subject = "closeout" =>
        \A receipt \in st.receipts :
            /\ receipt.request.unsigned \in st.issued
            /\ receipt.status = "IMPORTED" => \A c \in receipt.closeout :
                   /\ [issue |-> c.issue, content |-> c.content] = receipt.request.unsigned
                   /\ c.unmet = {}
            /\ st.contour = "dual" => \A i \in DOMAIN st.vectors : st.vectors[i]

\* A job goes out only to a node that has what it asks for and within a budget
\* somebody granted; where the bundle called its profile routable, the job is
\* routable too unless money stands in the way; and what runs is the job that
\* was signed (route_heavy_job, _assess_profile, verify_remote_job_packet).
RoutedJobIsCovered ==
    subject = "remote" =>
        /\ st.decision = {"ROUTABLE_REMOTE"} =>
               /\ st.profile.paid_oracle \/ st.units > 0 => \E r \in st.receipt : st.units <= r
               /\ \E n \in st.node : n.online /\ ~n.revoked /\ st.capability \in n.capabilities
        /\ st.bundle = {"ROUTABLE_REMOTE"} =>
               st.decision \subseteq {"ROUTABLE_REMOTE", "WAIT_AUTHORITY"}
        /\ \A job \in st.ran : job = st.units

\* What crosses a boundary hides its objects, keeps its references and is
\* accepted once, for the request it answers, within what the job may spend.
CrossingsSafe ==
    /\ PacketHidesObjects
    /\ ReferencesSurvive
    /\ ObservationOnceAndCurrent
    /\ CloseoutIsForThisRequest
    /\ RoutedJobIsCovered
=============================================================================
