---------------------------- MODULE BundleInspection ----------------------------
(***************************************************************************)
(* What okf-core answers about a parsed bundle: the findings of validation *)
(* (crates/okf-core/src/validation.rs, validate_bundle), the graph that is *)
(* published (crates/okf-core/src/graph.rs) and the operations inspect,    *)
(* validate and graph of one request (crates/okf-core/src/lib.rs,          *)
(* dispatch_json).                                                         *)
(*                                                                         *)
(* A document also carries raw (its frontmatter, as in Provenance), events *)
(* (the blocks of its body), headings (a reserved document's headings, as  *)
(* records of their level and whether they are an ISO date).               *)
(***************************************************************************)
EXTENDS BundleParse, Provenance

CONSTANTS
  Times,           \* reference times, as in Provenance; NoTime is one that does not parse
  NoTime,
  ReaderFailures,  \* failures that the reader of the bundle may add to a request
  FutureMinors,    \* versions 0.x beyond 0.2
  MaxNodes, MaxFindings, MaxIdentityBytes, MaxPayloadBytes,  \* limits of the graph
  Weight           \* bound: the bytes of one identity

ASSUME ReaderAssumption == \A f \in ReaderFailures : f.reason \in Reasons

VARIABLE answer    \* what the request returns

inspectionVars == <<vars, answer>>

NoAnswer == [status |-> "none", findings |-> {}, graph |-> <<>>]

(* Concepts of which a failure has the same URI and path.                  *)
Failed(all) == {c \in concepts : \E f \in all : f.uri = c.doc.uri /\ f.path = c.path}

Sound(all) == concepts \ Failed(all)

(* A concept that was not kept whole has no metadata at all.               *)
RawOf(c) == IF c.partial THEN <<>> ELSE c.doc.raw

Links(c, class) == {i \in DOMAIN c.links : c.links[i].class = class}

-----------------------------------------------------------------------------
(* Validation.                                                             *)

Finding(category, code, uri, at) == [category |-> category, code |-> code, uri |-> uri, at |-> at]

(* Places: the path of a failure, a field, a link.                         *)
At(path) == <<"path", path>>

Field(name) == <<"field", name>>

LinkAt(i) == <<"link", i>>

Curation(c, code, at) == Finding("curation", code, c.doc.uri, at)

FailureFindings(all) == {Finding("conformance", f.reason, f.uri, At(f.path)) : f \in all}

VersionFindings(r) ==
  LET declared == ObjectString(r.doc.raw, "okf_version")
      found(code) == {Finding("compatibility", code, r.doc.uri, Field("okf_version"))}
  IN IF r.path # <<<<"index", 1>>>> \/ ~Has(r.doc.raw, "okf_version") \/ declared \in {"0.1", "0.2"} THEN {}
     ELSE IF declared \in FutureMinors THEN found("future-minor-version") ELSE found("unsupported-version")

LinkFindings(c) ==
  {Curation(c, c.links[i].class, LinkAt(i)) :
     i \in {j \in DOMAIN c.links : c.links[j].class \in {"broken", "outOfBundle", "invalid"}}}

FieldFindings(c) ==
  {Curation(c, "missing", Field(key)) : key \in {k \in {"title", "description"} : ~NonBlank(ObjectString(RawOf(c), k))}}
    \cup (IF NonBlank(ObjectString(RawOf(c), "type")) THEN {}
          ELSE {Finding("conformance", "concept-type", c.doc.uri, Field("type"))})

TimestampFindings(c, now) ==
  LET value == ObjectString(RawOf(c), "timestamp")
  IN IF ~Has(RawOf(c), "timestamp") \/ Has(RawOf(c), "generated") THEN {}
     ELSE IF ~ValidMoment(value) THEN {Curation(c, "invalid-timestamp", Field("timestamp"))}
     ELSE IF InFuture(value, now) THEN {Curation(c, "future-timestamp", Field("timestamp"))} ELSE {}

ConceptFindings(c, now) ==
  UNION {LinkFindings(c), FieldFindings(c), TimestampFindings(c, now),
         {Curation(c, code, Field("metadata")) : code \in V02Findings(RawOf(c), c.doc.events, now)}}

(* Mutant of ConnectedIds: only the source of a link counts.               *)
LinkingIds(cs) == {c.id : c \in {d \in cs : Links(d, "internal") # {}}}

(* Ids that have a resolvable link, at either end.                         *)
ConnectedIds(cs) ==
  {c.id : c \in {d \in cs : Links(d, "internal") # {}}}
    \cup UNION {{c.links[i].target : i \in Links(c, "internal")} : c \in cs}

OrphanFindings(cs) == {Curation(c, "orphan", Field("type")) : c \in {d \in cs : d.id \notin ConnectedIds(cs)}}

ResourceFindings(cs) ==
  LET resource(c) == ObjectString(RawOf(c), "resource")
  IN {Curation(c, "duplicate-resource", Field("resource")) :
        c \in {d \in cs : /\ NonBlank(resource(d))
                          /\ \E e \in cs \ {d} : resource(e) = resource(d)}}

(* Only the index at the root may have frontmatter, and only okf_version.  *)
ReservedFindings(r) ==
  LET found(code, name) == Finding("conformance", code, r.doc.uri, Field(name))
      isRootIndex == r.path = <<<<"index", 1>>>>
      isIndex == Last(r.path)[1] = "index"
      dates == SelectSeq(r.doc.headings, LAMBDA h : h.level = 2)
  IN UNION {IF isRootIndex /\ r.doc.front = "closed"
            THEN {found("reserved-frontmatter", key) : key \in DOMAIN r.doc.raw \ {"okf_version"}} ELSE {},
            IF ~isRootIndex /\ r.doc.front = "closed" THEN {found("reserved-frontmatter", "frontmatter")} ELSE {},
            IF isIndex /\ r.doc.headings = <<>> THEN {found("index-structure", "body")} ELSE {},
            IF ~isIndex /\ (dates = <<>> \/ \E i \in DOMAIN dates : ~dates[i].date)
            THEN {found("log-structure", "body")} ELSE {}}

ValidateBundle(all, now) ==
  UNION {FailureFindings(all), UNION {VersionFindings(r) \cup ReservedFindings(r) : r \in reserved},
         UNION {ConceptFindings(c, now) : c \in Sound(all)},
         OrphanFindings(Sound(all)), ResourceFindings(Sound(all))}

-----------------------------------------------------------------------------
(* The graph.                                                              *)

(* Mutant of BundleFailed: any failure of a document will do.              *)
ReaderFailed(all) == \E f \in all : f.reason = "read"

BundleFailed(all) == \E f \in all : f.reason = "resourceLimit" /\ f.scope = "bundle"

(* The concept that has no identifier is passed over.                      *)
Identified == {c \in concepts : c.id # <<Blank>>}

(* Limits that are checked again on the bundle that is published: what     *)
(* identifies its failures, findings and concepts, ...                     *)
IdentityError(all, findings) ==
  \/ Cardinality(concepts) > MaxNodes
  \/ Cardinality(findings) > MaxFindings \/ Cardinality(all) > MaxFindings
  \/ BundleFailed(all)
  \/ Weight * (1 + 2 * Cardinality(all) + Cardinality(findings) + 3 * Cardinality(Identified)) > MaxIdentityBytes
  \/ \E c \in Identified : Len(c.id) > MaxSegments

(* ... and the metadata and links of the sound concepts.                   *)
ConceptError(all) ==
  LET sound == Identified \cap Sound(all)
      tagsOf(c) == NormalizedTags(RawOf(c))
  IN \/ \E c \in sound : Len(tagsOf(c)) > MaxTags
     \/ MapThenSumSet(LAMBDA c : Len(tagsOf(c)), sound) > Limit["assignments"]
     \/ Cardinality({c.doc.type : c \in sound}) > Limit["types"]
     \/ Cardinality(UNION {ToSet(tagsOf(c)) : c \in sound}) > Limit["tags"]
     \/ MapThenSumSet(LAMBDA c : Len(c.links), sound) > Limit["links"]
     \/ \E c \in sound : \E i \in DOMAIN c.links : c.links[i].target = <<Blank>>

GraphInputError(all, findings) == IdentityError(all, findings) \/ ConceptError(all)

Ids == {c.id : c \in concepts}

(* A link's place is its document and its number there.                    *)
Edges(sound) ==
  UNION {{[source |-> c.id, target |-> c.links[i].target, place |-> <<c.path, i>>]
           : i \in {j \in Links(c, "internal") : c.links[j].target \in Ids}} : c \in sound}

BrokenLinks(sound) ==
  UNION {{[source |-> c.id, place |-> <<c.path, i>>] : i \in Links(c, "broken")} : c \in sound}

(* Type, lifecycle and generation time as they are shown.  A status that   *)
(* is not written is stable; one that is no string is not shown.           *)
Node(c, failed, edges, broken) ==
  LET raw == RawOf(c)
  IN [id |-> c.id, failed |-> failed,
      type |-> IF failed THEN None ELSE ObjectString(raw, "type"),
      tags |-> IF failed THEN <<>> ELSE NormalizedTags(raw),
      timestamp |-> IF failed \/ Has(raw, "generated") THEN None ELSE ObjectString(raw, "timestamp"),
      trust |-> IF failed THEN None ELSE TrustTier(NormalizedVerifications(Get(raw, "verified"))),
      status |-> IF failed THEN None ELSE IF Has(raw, "status") THEN ObjectString(raw, "status") ELSE "stable",
      sources |-> IF failed THEN 0 ELSE Len(NormalizedSources(Get(raw, "sources"))),
      orphan |-> ~failed /\ ~\E e \in edges : c.id \in {e.source, e.target},
      broken |-> IF failed THEN 0 ELSE Cardinality({b \in broken : b.source = c.id})]

BuildGraphPayload(all) ==
  LET sound == Sound(all)
      edges == Edges(sound)
      broken == BrokenLinks(sound)
  IN [nodes |-> [c \in concepts |-> Node(c, c \notin sound, edges, broken)],
      edges |-> edges,
      backlinks |-> [id \in Ids |-> {e.source : e \in {x \in edges : x.target = id}}],
      broken |-> broken,
      typeCounts |-> [t \in {c.doc.type : c \in sound} |-> Cardinality({c \in sound : c.doc.type = t})],
      tagCounts |-> [t \in UNION {ToSet(NormalizedTags(RawOf(c))) : c \in sound} |->
                       Cardinality({c \in sound : t \in ToSet(NormalizedTags(RawOf(c)))})]]

PayloadError(graph) ==
  Weight * (Cardinality(DOMAIN graph.nodes) + 2 * Cardinality(graph.edges) + Cardinality(graph.broken))
    > MaxPayloadBytes

Published(all, findings, operation) ==
  LET graph == BuildGraphPayload(all)
  IN IF GraphInputError(all, findings) \/ PayloadError(graph)
     THEN [status |-> "graph-resource-limit", findings |-> {}, graph |-> <<>>]
     ELSE [status |-> operation, findings |-> findings, graph |-> graph]

-----------------------------------------------------------------------------
(* One request.  Its bundle is parsed first, then the failures of its      *)
(* reader are added.                                                       *)

Refusal(status) == [status |-> status, findings |-> {}, graph |-> <<>>]

Inspect(now, more) ==
  /\ phase = "parsed" /\ answer = NoAnswer
  /\ failures' = failures \cup more
  /\ answer' = IF now = NoTime THEN Refusal("invalid-request")
               ELSE IF Cardinality(concepts) > MaxNodes \/ Cardinality(failures') > MaxFindings
                 THEN Refusal("graph-resource-limit")
               ELSE Published(failures', ValidateBundle(failures', now), "inspected")
  /\ UNCHANGED <<root, input, waiting, seen, decoded, paths, used, types, tags, full, concepts,
                 reserved, phase>>

Validate(now) ==
  /\ phase = "parsed" /\ answer = NoAnswer
  /\ answer' = IF now = NoTime THEN Refusal("invalid-request")
               ELSE [status |-> "validated", findings |-> ValidateBundle(failures, now), graph |-> <<>>]
  /\ UNCHANGED vars

Graph ==
  /\ phase = "parsed" /\ answer = NoAnswer
  /\ answer' = Published(failures, {}, "graphed")
  /\ UNCHANGED vars

InspectionInit == Init /\ answer = NoAnswer

Request ==
  \/ \E now \in Times \cup {NoTime} : Validate(now) \/ \E more \in SUBSET ReaderFailures : Inspect(now, more)
  \/ Graph

InspectionNext == (Next /\ UNCHANGED answer) \/ Request

InspectionSpec == InspectionInit /\ [][InspectionNext]_inspectionVars

-----------------------------------------------------------------------------
(* Properties.                                                             *)

(* The graph and the findings of one inspection are derived separately,    *)
(* from the same bundle; they agree on what is isolated, on the broken     *)
(* links of every document and on the documents that failed, and a         *)
(* resource limit of the bundle publishes neither.                         *)
FindingsAgreeWithGraph ==
  answer.status = "inspected" =>
    \A c \in concepts :
      LET node == answer.graph.nodes[c]
          found(code) == {f \in answer.findings : f.uri = c.doc.uri /\ f.code = code}
      IN /\ node.orphan <=> found("orphan") # {}
         /\ node.broken = Cardinality(found("broken"))
         /\ node.failed <=> \E f \in answer.findings : f.uri = c.doc.uri /\ f.at = At(c.path)

(* A graph is published only of a whole bundle: every document that names  *)
(* a place in it is a node, a reserved document or a reported failure,     *)
(* everything that was not read whole is marked as failed, and no edge     *)
(* leads out of the graph.                                                 *)
PublishedGraphWhole ==
  answer.status \in {"inspected", "graphed"} =>
    LET graph == answer.graph
    IN /\ ~full
       /\ \A d \in input : EndsWithMd(d.parts) =>
            \/ \E c \in DOMAIN graph.nodes : c.doc = d
            \/ \E r \in reserved : r.doc = d
            \/ \E f \in failures : f.uri \in {d.uri, Hidden}
       /\ \A c \in DOMAIN graph.nodes : c.partial => graph.nodes[c].failed
       /\ \A e \in graph.edges : {e.source, e.target} \subseteq Ids /\ e.source \in graph.backlinks[e.target]

================================================================================
