----------------------------- MODULE Knowledge -----------------------------
(***************************************************************************)
(* The knowledge layer above the retriever: the allowlist of endpoint      *)
(* policies, the ten source adapters that turn a payload into records, the *)
(* facts cut out of extracted text, the layer manifest that binds facts    *)
(* and citations, and the discovery cards.  A layer is put together over   *)
(* several calls: searches, facts, then the manifest.                      *)
(***************************************************************************)
EXTENDS Procedures, Integers, Sequences, FiniteSets, TLC

CONSTANTS
    Endpoints,       \* endpoint ids, a subset of the adapters' names
    MaxFacts         \* bound: facts of one layer
-----------------------------------------------------------------------------
(***************************************************************************)
(* Endpoint policies and the retriever's construction.                     *)
(***************************************************************************)
PolicyVerdict(p) ==
    IF ~p.shape THEN "ValueError"
    ELSE IF p.scheme # "https" THEN "NETWORK_POLICY_VIOLATION" ELSE "ok"

\* PolicyRegistry.from_dict: every policy valid, no endpoint twice, not empty.
RegistryVerdict(ps) ==
    IF ps = <<>> THEN "ValueError"
    ELSE IF \E i \in DOMAIN ps : PolicyVerdict(ps[i]) # "ok"
         THEN LET i == CHOOSE i \in DOMAIN ps : /\ PolicyVerdict(ps[i]) # "ok"
                                                /\ \A j \in 1 .. i - 1 : PolicyVerdict(ps[j]) = "ok"
              IN  PolicyVerdict(ps[i])
    ELSE IF \E i, j \in DOMAIN ps : i # j /\ ps[i].id = ps[j].id THEN "ValueError"
    ELSE "ok"

\* construct_retriever: a keyword or header that could carry a credential is
\* refused, by its full name or by a part of it.
ConstructVerdict(kwargs, headers) ==
    IF (kwargs \cup headers) \cap {"authorization", "api_token", "cookie"} # {}
    THEN "NETWORK_POLICY_VIOLATION" ELSE "ok"
-----------------------------------------------------------------------------
(***************************************************************************)
(* Source adapters.  A payload has a shape and a sequence of items, each a *)
(* usable identifier or not; one unusable item fails the whole parse.      *)
(***************************************************************************)
SourceNames == {"openalex", "crossref", "arxiv", "oeis", "opencitations", "zbmath", "lmfdb",
                "cslib", "erdos_problems", "formal_conjectures"}
Items == {"u1", "u2", "bad"}

AllUsable(items) == \A i \in DOMAIN items : items[i] # "bad"
Uris(items)      == [i \in DOMAIN items |-> items[i]]

\* Wrong variant: unusable items are passed over.
ParseOpenalexSkipping(pl) ==
    IF pl.shape = "object" THEN {SelectSeq(pl.items, LAMBDA x : x # "bad")} ELSE {}
ParseOpenalex(pl) ==
    IF pl.shape = "object" /\ AllUsable(pl.items) THEN {Uris(pl.items)} ELSE {}
\* A message without items may itself be the one work.
ParseCrossref(pl) ==
    IF pl.shape = "object" /\ AllUsable(pl.items) THEN {Uris(pl.items)}
    ELSE IF pl.shape = "single" THEN {<<"u1">>} ELSE {}
ParseArxiv(pl) ==
    IF pl.shape = "xml" /\ pl.items # <<>> /\ AllUsable(pl.items) THEN {Uris(pl.items)} ELSE {}
ParseOeis(pl) ==
    IF pl.shape \in {"object", "list"} /\ AllUsable(pl.items) THEN {Uris(pl.items)} ELSE {}
\* The URI is that of the identifier asked for, whatever the item.
ParseOpencitations(pl) ==
    IF pl.shape = "list" /\ pl.items # <<>> /\ AllUsable(pl.items)
    THEN {[i \in DOMAIN pl.items |-> "asked"]} ELSE {}
ParseZbmath(pl) ==
    IF pl.shape = "object" /\ pl.items # <<>> /\ AllUsable(pl.items) THEN {Uris(pl.items)} ELSE {}
ParseLmfdb(pl) ==
    IF pl.shape = "object" /\ pl.items # <<>> /\ AllUsable(pl.items) THEN {Uris(pl.items)} ELSE {}
\* A raw blob is one record, provided that it is text and not blank.
ParseGithubCommit(pl) == IF pl.shape = "text" THEN {<<"u1">>} ELSE {}

Parsed(source, pl) ==
    CASE source = "openalex"      -> ParseOpenalex(pl)
      [] source = "crossref"      -> ParseCrossref(pl)
      [] source = "arxiv"         -> ParseArxiv(pl)
      [] source = "oeis"          -> ParseOeis(pl)
      [] source = "opencitations" -> ParseOpencitations(pl)
      [] source = "zbmath"        -> ParseZbmath(pl)
      [] source = "lmfdb"         -> ParseLmfdb(pl)
      [] OTHER                    -> ParseGithubCommit(pl)

Payloads == [shape : {"object", "single", "xml", "list", "text", "garbage"},
             items : UNION {[1 .. n -> Items] : n \in 0 .. 2}]

\* fetch_with_transport: an adapter uses the policy of its own endpoint only.
\* The cache directory is fresh for every call, and removed after it.
FetchWithTransport(source, policy) == IF policy = source THEN "ok" ELSE "SourceRecordError"

\* A record names source, policy and payload; its id is a digest of the fields.
Record(source, policy, pl, uri) ==
    [source |-> source, license |-> policy, payload |-> pl, uri |-> uri]

\* search: fetch, then parse, all items or nothing.
Search(source, policy, pl) ==
    /\ subject = "layer" /\ st.phase = "search"
    /\ IF FetchWithTransport(source, policy) = "ok" /\ Parsed(source, pl) # {}
       THEN \E uris \in Parsed(source, pl) :
               Step("layer", [st EXCEPT !.phase = "fact", !.records =
                   [i \in DOMAIN uris |-> Record(source, policy, pl, uris[i])]])
       ELSE Step("layer", [st EXCEPT !.phase = "failed"])
-----------------------------------------------------------------------------
(***************************************************************************)
(* Facts and the manifest.                                                 *)
(***************************************************************************)

\* Extracted texts have length 2; one kind matches an injection pattern.
Texts == {"clean", "injection"}
TextLength == 2

OffsetsBound(a, b) == 0 <= a /\ a <= b /\ b <= TextLength

BuildFactUntainted(r, text, a, b) ==
    [record |-> r, text |-> text, span |-> <<a, b>>, taint |-> {"untrusted_corpus"}]

\* build_knowledge_fact: the fact keeps where it came from and how far its text
\* can be trusted; its id is a digest of all that.
BuildFact(r, text, a, b) ==
    [record |-> r, text |-> text, span |-> <<a, b>>,
     taint |-> {"untrusted_corpus"} \cup
               IF text = "injection" THEN {"prompt_injection_suspect"} ELSE {}]

AddFact(i, text, a, b) ==
    /\ subject = "layer" /\ st.phase = "fact" /\ Len(st.facts) < MaxFacts
    /\ i \in DOMAIN st.records
    /\ IF OffsetsBound(a, b)
       THEN Step("layer", [st EXCEPT !.facts = Append(@, BuildFact(st.records[i], text, a, b)),
                                     !.phase = "search", !.records = <<>>])
       ELSE Step("layer", [st EXCEPT !.phase = "failed"])

\* build_knowledge_layer_manifest: facts have different ids and citations run
\* between facts of the layer; suspects are listed by name.
ManifestOf(facts, edges) ==
    IF \/ \E i, j \in DOMAIN facts : i # j /\ facts[i] = facts[j]
       \/ \E e \in edges : ~{e[1], e[2]} \subseteq DOMAIN facts
    THEN {}
    ELSE {[facts |-> facts, edges |-> edges,
           suspects |-> {i \in DOMAIN facts : "prompt_injection_suspect" \in facts[i].taint}]}

BuildManifest(edges) ==
    /\ subject = "layer" /\ st.phase \in {"fact", "search"} /\ st.facts # <<>>
    /\ Step("layer", [st EXCEPT !.phase = "done", !.manifest = ManifestOf(st.facts, edges)])

LayerInit ==
    /\ subject = "layer"
    /\ st = [phase |-> "search", records |-> <<>>, facts |-> <<>>, manifest |-> {}]

\* Policies an adapter is handed: its own or OpenAlex's.  A layer's later
\* searches meet payloads of one item.
LayerStep ==
    \/ \E s \in Endpoints, pl \in Payloads : \E p \in {s, "openalex"} :
          /\ st.facts # <<>> => s = "openalex" /\ pl.shape = "object" /\ Len(pl.items) = 1
          /\ Search(s, p, pl)
    \/ \E i \in 1 .. 2, text \in Texts, span \in {<<0, 2>>, <<2, 0>>, <<1, 3>>} :
          AddFact(i, text, span[1], span[2])
    \/ \E edges \in SUBSET {<<1, 2>>, <<2, 3>>} : BuildManifest(edges)
-----------------------------------------------------------------------------
(***************************************************************************)
(* Discovery cards.                                                        *)
(***************************************************************************)
Cards == [id : 1 .. 2, name : {"n1", "n2"}, status : {"catalog_only", "admitted"}, bad : BOOLEAN]

\* build_card sets the status itself; a document that names another is refused.
CardVerdict(c) == IF c.bad \/ c.status # "catalog_only" THEN "CONTRACT_INVALID" ELSE "ok"

\* load_cards_from_doc: one bad card fails the document, the cards are sorted
\* by id, and nothing asks whether ids or names repeat.
LoadCards(cards) ==
    IF \E i \in DOMAIN cards : CardVerdict(cards[i]) # "ok" THEN {}
    ELSE {SortSeq(cards, LAMBDA x, y : x.id < y.id)}

\* inspect: the first card of that name.
InspectCard(cards, name) ==
    LET first(j) == cards[j].name = name /\ \A k \in 1 .. j - 1 : cards[k].name # name
    IN  {cards[j] : j \in {k \in DOMAIN cards : first(k)}}

CardsInit ==
    /\ subject = "cards"
    /\ \E c, d \in Cards : st = [doc |-> <<c, d>>, loaded |-> {}, phase |-> "doc", found |-> {}]

LoadDoc ==
    /\ subject = "cards" /\ st.phase = "doc"
    /\ Step("cards", [st EXCEPT !.loaded = LoadCards(st.doc), !.phase = "loaded"])

Inspect(name) ==
    /\ subject = "cards" /\ st.phase = "loaded"
    /\ \E cards \in st.loaded :
          Step("cards", [st EXCEPT !.found = InspectCard(cards, name), !.phase = "done"])

\* Registries of two policies, and constructions.
PolicySpecs == [id : {"e1", "e2"}, shape : BOOLEAN, scheme : {"https", "http"}]

RegistryInit ==
    /\ subject = "registry"
    /\ \E ps \in UNION {[1 .. n -> PolicySpecs] : n \in 0 .. 2},
          kw \in SUBSET {"api_token", "timeout"}, hs \in SUBSET {"cookie"} :
          st = [policies |-> ps, kwargs |-> kw, headers |-> hs, answer |-> <<>>]

LoadRegistry ==
    /\ subject = "registry" /\ st.answer = <<>>
    /\ Step("registry", [st EXCEPT !.answer = <<RegistryVerdict(st.policies),
                                                ConstructVerdict(st.kwargs, st.headers)>>])

KnowledgeInit == LayerInit \/ CardsInit \/ RegistryInit
KnowledgeNext ==
    \/ subject = "layer" /\ LayerStep
    \/ LoadDoc \/ \E name \in {"n1", "n3"} : Inspect(name)
    \/ LoadRegistry
-----------------------------------------------------------------------------
(* Properties *)

\* Every fact of an accepted manifest names the licence of the very endpoint
\* its payload came from and stays inside its text; every suspect text in the
\* layer is listed, and citations stay inside the layer.
ManifestTraceable ==
    subject = "layer" =>
        \A m \in st.manifest :
            /\ \A i \in DOMAIN m.facts :
                  /\ m.facts[i].record.license = m.facts[i].record.source
                  /\ m.facts[i].span[2] <= TextLength
                  /\ m.facts[i].text = "injection" => i \in m.suspects
            /\ \A e \in m.edges : e[1] \in DOMAIN m.facts /\ e[2] \in DOMAIN m.facts

\* A search gives one record per item of the payload, or none at all: a payload
\* with one unusable item leaves nothing of it in a layer.
AllItemsOrNone ==
    (subject = "layer" /\ st.records # <<>>) =>
        \A i \in DOMAIN st.records :
            LET pl == st.records[i].payload
            IN  \/ pl.shape \in {"single", "text"}
                \/ /\ \A j \in DOMAIN pl.items : pl.items[j] # "bad"
                   /\ Len(st.records) = Len(pl.items)

\* Whatever the sources answer, a layer holds whole, traceable searches only.
KnowledgeTraceable ==
    /\ ManifestTraceable
    /\ AllItemsOrNone
=============================================================================
