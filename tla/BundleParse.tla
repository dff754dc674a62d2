------------------------------ MODULE BundleParse ------------------------------
(***************************************************************************)
(* How okf-core turns the enumerated documents of a bundle into concepts,  *)
(* reserved documents and failures (crates/okf-core/src/parser.rs,         *)
(* parse_bundle).  One pass settles the identity of every document, a      *)
(* second one inspects the documents that were decoded, in order, against  *)
(* work limits of the whole bundle, and a last one resolves the links.     *)
(*                                                                         *)
(* A document is a record:                                                 *)
(*   uri, rank      its URI; the place of its path and URI in the order    *)
(*   form, parts    its path: "relative", "absolute" or "control", and the *)
(*                  segments between separators, backslashes included      *)
(*   faults         of its URI and path: uriUnicode, pathLong, ...         *)
(*   hash, adapter  the content identity it was given; the reason for      *)
(*                  which the reader supplied an identity only, or "none"  *)
(*   content        "text", or why it cannot be decoded                    *)
(*   front, yaml    its frontmatter: "absent", "unterminated" or "closed", *)
(*                  and whether the YAML between the delimiters is "ok",   *)
(*                  "invalid" or "complex" (over a limit of one document)  *)
(*   cost           what inspecting and retaining it takes                 *)
(*   type, tags     the metadata that the bundle counts                    *)
(*   scalars        <<field, fault>> for its other metadata                *)
(*   links          its Markdown links, in order                           *)
(*   markdown       "ok", or "complex" (over a limit of one document)      *)
(* A segment is <<stem, k>>: the stem followed by k times the suffix .md.  *)
(***************************************************************************)
EXTENDS Integers, FiniteSets, SequencesExt

CONSTANTS
  Documents,   \* the documents a provider may enumerate
  MaxInput,    \* bound: how many it enumerates
  MaxDocuments, MaxSegments, MaxTags,  \* the limits of these names
  Limit,       \* the bundle limit of each resource
  Overlong, Controlled  \* types and tags over their limit, or with a control character

VARIABLES
  root,      \* "good", or what is wrong with the root URI
  input,     \* the documents enumerated
  waiting,   \* those the first pass has not seen
  seen,      \* canonical paths it has seen
  decoded,   \* documents for the second pass
  paths,     \* their paths (all_paths)
  failures,  \* what the bundle reports
  used,      \* work charged and metadata retained so far
  types, tags,  \* the types and tags retained
  full,      \* bundle_limit_reached
  concepts,  \* the concepts, their links unresolved before the last step
  reserved,  \* the reserved documents
  phase      \* "start", "identify", "inspect" or "parsed"

vars == <<root, input, waiting, seen, decoded, paths, failures, used, types, tags, full,
          concepts, reserved, phase>>

FrontWork == {"source", "tokens"}
BodyWork == {"units", "lines", "attention", "containers", "labelEnds", "syntax", "candidates"}
Retained == {"output", "links", "linkText", "assignments"}
Resources == FrontWork \cup BodyWork \cup Retained

Cost(d, r) == CASE r = "links" -> Len(d.links)
                [] r = "assignments" -> Len(d.tags)
                [] OTHER -> d.cost[r]

(* Why a document or the bundle can fail.                                  *)
Reasons == {"decode", "frontmatter", "markdown", "read", "resourceLimit"}

ASSUME LimitAssumption == Limit \in [Resources \cup {"types", "tags"} -> Nat] /\ Limit["types"] > 0
\* The limits of one document, over which it is "complex" or its metadata unsafe,
\* are below those of the bundle.
ASSUME DocumentAssumption ==
  \A d \in Documents : /\ d.rank \in Nat
                       /\ d.front \in {"absent", "unterminated", "closed"}
                       /\ d.content \in {"text", "missing", "invalidUtf8", "invalidUtf16", "twoMarks",
                                         "tooLong", "tooManyLines"}
                       /\ d.adapter \in {"none"} \cup Reasons
                       /\ IsFiniteSet(DOMAIN d.links)
                       /\ \A r \in Resources : Cost(d, r) \in Nat
                       /\ \A r \in Retained : Cost(d, r) <= Limit[r]
                       /\ IsFiniteSet(ToSet(d.tags))
                       /\ Cardinality(ToSet(d.tags)) <= Limit["tags"]

Init ==
  /\ root \in {"good", "unicode", "long"}
  /\ input \in {ToSet(s) : s \in [1..MaxInput -> Documents]}
  /\ \A d, e \in input : d # e => d.uri # e.uri /\ d.rank # e.rank
  /\ waiting = input /\ seen = {} /\ decoded = <<>> /\ paths = {} /\ failures = {}
  /\ used = [r \in Resources |-> 0] /\ types = {} /\ tags = {} /\ full = FALSE
  /\ concepts = {} /\ reserved = {} /\ phase = "start"

-----------------------------------------------------------------------------
(* Paths.                                                                  *)

Dot == <<".", 0>>

DotDot == <<"..", 0>>

Blank == <<"", 0>>

(* Follow segments from a directory: where they lead, and whether they     *)
(* leave the bundle or descend below the allowed depth.                    *)
Walk(base, parts, depth) ==
  FoldLeft(LAMBDA at, part :
      IF at.fate # "inside" \/ part \in {Blank, Dot} THEN at
      ELSE IF part = DotDot
        THEN IF at.path = <<>> THEN [at EXCEPT !.fate = "outside"] ELSE [at EXCEPT !.path = Front(@)]
        ELSE IF Len(at.path) >= depth THEN [at EXCEPT !.fate = "deep"]
             ELSE [at EXCEPT !.path = Append(@, part)],
    [path |-> base, fate |-> "inside"], parts)

(* The bundle path of a document, or why it has none.                      *)
CanonicalPath(d) ==
  IF d.form # "relative" THEN [path |-> <<>>, fate |-> d.form] ELSE Walk(<<>>, d.parts, MaxSegments)

EndsWithMd(path) == path # <<>> /\ Last(path)[2] > 0

(* trim_end_matches removes every trailing .md, not one.                   *)
WithoutMd(path) == Append(Front(path), <<Last(path)[1], 0>>)

IsReserved(path) == Last(path) \in {<<"index", 1>>, <<"log", 1>>}

(* The root, and every proper prefix of a path.                            *)
DirectorySet(all) == {<<>>} \cup UNION {{SubSeq(p, 1, n) : n \in 0..(Len(p) - 1)} : p \in all}

-----------------------------------------------------------------------------
(* The first pass: identity and decoding.                                  *)

Hidden == "<provider>"

\* It stands for a URI that is not shown, and is none.
ASSUME UriAssumption == \A d \in Documents : d.uri # Hidden

Failure(uri, path, reason, scope) == [uri |-> uri, path |-> path, reason |-> reason, scope |-> scope]

(* A root URI or a number of documents over its limit ends the parse.      *)
RefuseBundle ==
  /\ phase = "start"
  /\ root # "good" \/ Cardinality(input) > MaxDocuments
  /\ failures' = {Failure(Hidden, <<>>, "resourceLimit", "bundle")}
  /\ phase' = "parsed"
  /\ UNCHANGED <<root, input, waiting, seen, decoded, paths, used, types, tags, full, concepts, reserved>>

AcceptBundle ==
  /\ phase = "start" /\ root = "good" /\ Cardinality(input) <= MaxDocuments
  /\ phase' = "identify"
  /\ UNCHANGED <<root, input, waiting, seen, decoded, paths, failures, used, types, tags, full,
                 concepts, reserved>>

(* The next document in the order of paths and URIs.                       *)
Turn(d) == phase = "identify" /\ d \in waiting /\ \A e \in waiting : d.rank <= e.rank

Unchanged1 == UNCHANGED <<root, input, used, types, tags, full, concepts, reserved, phase>>

(* The document is reported with the identity that can be shown.           *)
Reject(d, uri, path, reason, scope) ==
  /\ waiting' = waiting \ {d}
  /\ failures' = failures \cup {Failure(uri, path, reason, scope)}
  /\ UNCHANGED <<seen, decoded, paths>> /\ Unchanged1

(* Unicode faults are found before lengths are measured, so they alone are *)
(* hidden when a URI has one and the path the other.                       *)
RejectIdentity(d) ==
  LET bad == IF d.faults \cap {"uriUnicode", "pathUnicode"} # {}
             THEN d.faults \cap {"uriUnicode", "pathUnicode"} ELSE d.faults
  IN /\ Turn(d) /\ d.faults # {}
     /\ Reject(d, IF bad \cap {"uriUnicode", "uriLong"} = {} THEN d.uri ELSE Hidden,
                  IF bad \cap {"pathUnicode", "pathLong"} = {} THEN d.parts ELSE <<>>,
                  "resourceLimit", "document")

(* Files without the suffix are not documents of a bundle.                 *)
IgnoreOther(d) ==
  /\ Turn(d) /\ d.faults = {} /\ ~EndsWithMd(d.parts)
  /\ waiting' = waiting \ {d}
  /\ UNCHANGED <<seen, decoded, paths, failures>> /\ Unchanged1

Named(d) == Turn(d) /\ d.faults = {} /\ EndsWithMd(d.parts)

RejectPath(d) ==
  /\ Named(d)
  /\ \/ /\ CanonicalPath(d).fate \in {"absolute", "control", "outside"} \/ CanonicalPath(d).path = <<>>
        /\ CanonicalPath(d).fate # "deep"
        /\ Reject(d, d.uri, d.parts, "read", "none")
     \/ /\ CanonicalPath(d).fate = "deep"
        /\ Reject(d, d.uri, <<>>, "resourceLimit", "document")

PathOf(d) == CanonicalPath(d).path

Located(d) == Named(d) /\ CanonicalPath(d).fate = "inside" /\ PathOf(d) # <<>>

RejectDuplicate(d) ==
  /\ Located(d) /\ PathOf(d) \in seen
  /\ Reject(d, d.uri, PathOf(d), "read", "none")

(* What a document with undecodable content reports, and whether it keeps  *)
(* the hash of that content (failed_document).                             *)
DecodeFault(content) ==
  CASE content = "missing"      -> [reason |-> "read", scope |-> "none", hashed |-> FALSE]
    [] content = "invalidUtf8"  -> [reason |-> "decode", scope |-> "none", hashed |-> TRUE]
    [] content = "invalidUtf16" -> [reason |-> "decode", scope |-> "none", hashed |-> FALSE]
    [] content = "twoMarks"     -> [reason |-> "decode", scope |-> "none", hashed |-> TRUE]
    [] content = "tooLong"      -> [reason |-> "resourceLimit", scope |-> "document", hashed |-> FALSE]
    [] content = "tooManyLines" -> [reason |-> "resourceLimit", scope |-> "document", hashed |-> TRUE]

HashOf(d, hashed) ==
  IF d.hash = "given" /\ (hashed \/ d.content = "invalidUtf16") THEN "given"
  ELSE IF hashed THEN "fallback" ELSE "unparsed"

(* Mutant of Register: a document that cannot be read is no link target.   *)
RegisterReadable(d, hash, known, failed) ==
  /\ waiting' = waiting \ {d}
  /\ seen' = seen \cup {PathOf(d)}
  /\ failures' = failures \cup failed
  /\ IF known /\ IsReserved(PathOf(d)) THEN UNCHANGED decoded
     ELSE decoded' = Append(decoded, [doc |-> d, path |-> PathOf(d), hash |-> hash, known |-> known])
  /\ paths' = IF known THEN paths ELSE paths \cup {PathOf(d)}
  /\ Unchanged1

(* Documents that only their identity is known of stay in the bundle: links *)
(* resolve to them.  Reserved ones are dropped.                            *)
Register(d, hash, known, failed) ==
  /\ waiting' = waiting \ {d}
  /\ seen' = seen \cup {PathOf(d)}
  /\ failures' = failures \cup failed
  /\ IF known /\ IsReserved(PathOf(d)) THEN UNCHANGED <<decoded, paths>>
     ELSE /\ decoded' = Append(decoded, [doc |-> d, path |-> PathOf(d), hash |-> hash, known |-> known])
          /\ paths' = paths \cup {PathOf(d)}
  /\ Unchanged1

(* A reader's own failure comes first, then the content hash, then the     *)
(* content.                                                                *)
Decode(d) ==
  /\ Located(d) /\ PathOf(d) \notin seen
  /\ \/ /\ d.adapter # "none"
        /\ Register(d, "unparsed", TRUE, {Failure(d.uri, PathOf(d), d.adapter, "document")})
     \/ /\ d.adapter = "none" /\ d.hash \in {"long", "unicode"}
        /\ Register(d, "unparsed", TRUE, {Failure(d.uri, PathOf(d), "resourceLimit", "document")})
     \/ /\ d.adapter = "none" /\ d.hash \in {"none", "given"} /\ d.content # "text"
        /\ LET fault == DecodeFault(d.content)
           IN Register(d, HashOf(d, fault.hashed), TRUE,
                       {Failure(d.uri, PathOf(d), fault.reason, fault.scope)})
     \/ /\ d.adapter = "none" /\ d.hash \in {"none", "given"} /\ d.content = "text"
        /\ Register(d, HashOf(d, TRUE), FALSE, {})

BeginInspection ==
  /\ phase = "identify" /\ waiting = {}
  /\ phase' = "inspect"
  /\ UNCHANGED <<root, input, waiting, seen, decoded, paths, failures, used, types, tags, full,
                 concepts, reserved>>

-----------------------------------------------------------------------------
(* The second pass: work limits, frontmatter, metadata, links.             *)

(* Mutant of Overdrawn: the limit is looked at before the cost is added.   *)
OverdrawnBefore(amount, cost, limit) == amount > limit

(* saturating_sub: a document that costs more than the whole limit is let  *)
(* through while nothing is used.                                          *)
Overdrawn(amount, cost, limit) == amount > (IF cost > limit THEN 0 ELSE limit - cost)

Exceeds(d, kinds) == \E r \in kinds : Overdrawn(used[r], Cost(d, r), Limit[r])

Charge(amounts, d, kinds) ==
  [r \in Resources |-> IF r \in kinds THEN amounts[r] + Cost(d, r) ELSE amounts[r]]

FrontOf(d) == IF d.front = "closed" THEN FrontWork ELSE {}

BodyOf(d) == IF d.front = "unterminated" THEN {} ELSE BodyWork

NewTags(d) == ToSet(d.tags) \ tags

UnsafeMetadata(d) ==
  \/ d.type \in Overlong \cup Controlled
  \/ Len(d.tags) > MaxTags
  \/ \E tag \in ToSet(d.tags) : tag \in Overlong \cup Controlled
  \/ \E s \in d.scalars : s[2] = "long" \/ (s[2] = "control" /\ s[1] \notin {"title", "description"})

(* A check: whether the document fails it, what is reported, what stays    *)
(* charged then.                                                           *)
Check(fails, reason, scope, charged) ==
  [fails |-> fails, reason |-> reason, scope |-> scope, charged |-> charged]

BundleCheck(fails, charged) == Check(fails, "resourceLimit", "bundle", charged)

FrontCharged(d) == Charge(used, d, FrontOf(d))

BodyCharged(d) == Charge(FrontCharged(d), d, BodyOf(d))

(* The work of reading the document is charged before it is read.          *)
WorkChecks(d) ==
  <<BundleCheck(Exceeds(d, FrontOf(d)), used),
    BundleCheck(Exceeds(d, BodyOf(d)), FrontCharged(d))>>

(* Its frontmatter; only a concept must have one.                          *)
FrontmatterChecks(d, concept) ==
  <<Check(d.front = "unterminated" \/ (d.front = "closed" /\ d.yaml = "invalid"),
          "frontmatter", "none", BodyCharged(d)),
    Check(d.front = "closed" /\ d.yaml = "complex", "resourceLimit", "document", BodyCharged(d)),
    Check(concept /\ d.front = "absent", "frontmatter", "none", BodyCharged(d)),
    BundleCheck(d.front = "closed" /\ Exceeds(d, {"output"}), BodyCharged(d))>>

(* What a concept would retain.  The output units of its frontmatter stay  *)
(* charged when its links exceed a limit.                                  *)
ConceptChecks(d, concept) ==
  LET output == Charge(BodyCharged(d), d, {"output"})
  IN <<Check(concept /\ UnsafeMetadata(d), "resourceLimit", "document", BodyCharged(d)),
       Check(concept /\ d.markdown = "complex", "resourceLimit", "document", BodyCharged(d)),
       BundleCheck(concept /\ Exceeds(d, {"links"}), output),
       BundleCheck(concept /\ Exceeds(d, {"linkText"}), output),
       BundleCheck(/\ concept
                   /\ \/ Exceeds(d, {"assignments"})
                      \/ Overdrawn(Cardinality(types), Cardinality({d.type} \ types), Limit["types"])
                      \/ Overdrawn(Cardinality(tags), Cardinality(NewTags(d)), Limit["tags"]), BodyCharged(d))>>

(* All of them, in the order of the code.                                  *)
Checks(x) ==
  LET concept == ~IsReserved(x.path)
  IN WorkChecks(x.doc) \o FrontmatterChecks(x.doc, concept) \o ConceptChecks(x.doc, concept)

Passes(x, n) == \A i \in 1..n : ~Checks(x)[i].fails

Whole(x) == Passes(x, Len(Checks(x)))

Concept(x, partial) ==
  [id |-> WithoutMd(x.path), path |-> x.path, hash |-> x.hash, partial |-> partial, doc |-> x.doc,
   links |-> <<>>]

(* What a document leaves behind when it is not kept whole.                *)
Partial(x) == IF IsReserved(x.path) THEN {} ELSE {Concept(x, TRUE)}

Turn2(x) == phase = "inspect" /\ decoded # <<>> /\ x = Head(decoded) /\ decoded' = Tail(decoded)

Unchanged2 == UNCHANGED <<root, input, waiting, seen, paths, phase>>

KeepIdentity(x) ==
  /\ Turn2(x) /\ x.known
  /\ concepts' = concepts \cup Partial(x)
  /\ UNCHANGED <<failures, used, types, tags, full, reserved>> /\ Unchanged2

(* Mutant of SkipRest: the documents that follow are passed over silently. *)
SkipQuietly(x) ==
  /\ Turn2(x) /\ ~x.known /\ full
  /\ concepts' = concepts \cup Partial([x EXCEPT !.hash = "unparsed"])
  /\ UNCHANGED <<failures, used, types, tags, full, reserved>> /\ Unchanged2

(* After an aggregate limit the remaining documents are not inspected.     *)
SkipRest(x) ==
  /\ Turn2(x) /\ ~x.known /\ full
  /\ failures' = failures \cup {Failure(x.doc.uri, x.path, "resourceLimit", "document")}
  /\ concepts' = concepts \cup Partial([x EXCEPT !.hash = "unparsed"])
  /\ UNCHANGED <<used, types, tags, full, reserved>> /\ Unchanged2

(* Mutant of Inspected: the aggregate limit does not end the pass.         *)
InspectedAnyway(x) == Turn2(x) /\ ~x.known

Inspected(x) == Turn2(x) /\ ~x.known /\ ~full

(* The first check that fails decides.                                     *)
DropDocument(x) ==
  /\ Inspected(x)
  /\ \E i \in DOMAIN Checks(x) :
       LET check == Checks(x)[i]
       IN /\ check.fails /\ Passes(x, i - 1)
          /\ failures' = failures \cup {Failure(x.doc.uri, x.path, check.reason, check.scope)}
          /\ used' = check.charged
          /\ full' = (check.scope = "bundle")
  /\ concepts' = concepts \cup Partial(x)
  /\ UNCHANGED <<types, tags, reserved>> /\ Unchanged2

KeepReserved(x) ==
  /\ Inspected(x) /\ Whole(x) /\ IsReserved(x.path)
  /\ used' = Charge(used, x.doc, FrontOf(x.doc) \cup BodyOf(x.doc)
                                  \cup (IF x.doc.front = "closed" THEN {"output"} ELSE {}))
  /\ reserved' = reserved \cup {[path |-> x.path, doc |-> x.doc]}
  /\ UNCHANGED <<failures, types, tags, full, concepts>> /\ Unchanged2

KeepConcept(x) ==
  /\ Inspected(x) /\ Whole(x) /\ ~IsReserved(x.path)
  /\ used' = Charge(used, x.doc, Resources)
  /\ types' = types \cup {x.doc.type}
  /\ tags' = tags \cup ToSet(x.doc.tags)
  /\ concepts' = concepts \cup {Concept(x, FALSE)}
  /\ UNCHANGED <<failures, full, reserved>> /\ Unchanged2

-----------------------------------------------------------------------------
(* Links.  A target is a record: its form ("path", or "empty", "control",  *)
(* "external", "fragment", "query", "backslash", "undecodable",            *)
(* "decodedControl"), and for a path whether it starts at the root and its *)
(* decoded segments.                                                       *)

NoTarget == <<>>

(* Where the path of a link leads from the document that holds it.         *)
NormalizeLinkPath(path, target) ==
  Walk(IF target.absolute THEN <<>> ELSE Front(path), target.parts, Len(path) + Len(target.parts))

ResolveLink(path, target) ==
  LET link(class, id) == [class |-> class, target |-> id]
      at == NormalizeLinkPath(path, target)
  IN CASE target.form \in {"external", "fragment"} -> link(target.form, NoTarget)
       [] target.form \notin {"external", "fragment", "path"} -> link("invalid", NoTarget)
       [] target.form = "path" ->
          IF at.fate = "outside" THEN link("outOfBundle", NoTarget)
          ELSE IF at.path \in DirectorySet(paths) THEN link("directory", NoTarget)
          ELSE IF at.path \in paths /\ ~IsReserved(at.path) THEN link("internal", WithoutMd(at.path))
          ELSE IF at.path \in paths THEN link(IF Last(at.path)[1] = "index" THEN "directory" ELSE "invalid", NoTarget)
          ELSE IF EndsWithMd(at.path) \/ Last(target.parts) = Blank THEN link("broken", NoTarget)
          ELSE link("invalid", NoTarget)

Finish ==
  /\ phase = "inspect" /\ decoded = <<>>
  /\ concepts' = {[c EXCEPT !.links = IF c.partial THEN <<>>
                                      ELSE [i \in DOMAIN c.doc.links |-> ResolveLink(c.path, c.doc.links[i])]]
                    : c \in concepts}
  /\ phase' = "parsed"
  /\ UNCHANGED <<root, input, waiting, seen, decoded, paths, failures, used, types, tags, full, reserved>>

FirstPass == \E d \in waiting : \/ RejectIdentity(d) \/ IgnoreOther(d) \/ RejectPath(d)
                                \/ RejectDuplicate(d) \/ Decode(d)

SecondPass == \E x \in ToSet(decoded) : \/ KeepIdentity(x) \/ SkipRest(x) \/ DropDocument(x)
                                         \/ KeepReserved(x) \/ KeepConcept(x)

Next == RefuseBundle \/ AcceptBundle \/ FirstPass \/ BeginInspection \/ SecondPass \/ Finish

Spec == Init /\ [][Next]_vars

-----------------------------------------------------------------------------
(* Properties.                                                             *)

(* What a bundle retains stays within its aggregate limits, whatever it    *)
(* cost to inspect and wherever the inspection of a document stopped.      *)
RetainedWithinLimits ==
  /\ \A r \in Retained : used[r] <= Limit[r]
  /\ Cardinality(types) <= Limit["types"]
  /\ Cardinality(tags) <= Limit["tags"]

(* A concept is empty exactly when a failure is reported for its URI and   *)
(* path, so whoever shows concepts can tell which were read; a reserved    *)
(* document never has one.                                                 *)
PartialExplained ==
  phase = "parsed" =>
    /\ \A c \in concepts : c.partial <=> \E f \in failures : f.uri = c.doc.uri /\ f.path = c.path
    /\ \A c \in concepts : c.hash = "unparsed" => c.partial
    /\ \A r \in reserved : ~\E f \in failures : f.uri = r.doc.uri

(* An aggregate limit is reported once, and from the document that met it  *)
(* on nothing more is kept.                                                *)
LimitStops ==
  \A f \in failures : f.scope = "bundle" /\ f.uri # Hidden =>
    /\ full /\ \A g \in failures : g.scope = "bundle" => g = f
    /\ \A d \in input : d.uri = f.uri =>
         /\ \A c \in concepts : c.doc.rank >= d.rank => c.partial
         /\ \A r \in reserved : r.doc.rank < d.rank

(* A link that leads to a document of the bundle is never called broken,   *)
(* and an internal link leads to a concept of the bundle, also when that   *)
(* document could not be read.                                             *)
LinksTruthful ==
  phase = "parsed" =>
    \A c \in concepts : \A i \in DOMAIN c.links :
      LET at == NormalizeLinkPath(c.path, c.doc.links[i])
          class == c.links[i].class
      IN /\ class = "broken" => ~\E e \in concepts : e.path = at.path
         /\ class = "internal" => \E e \in concepts : e.path = at.path /\ e.id = c.links[i].target
         /\ c.doc.links[i].form = "path" /\ at.fate = "inside" =>
              \A e \in concepts : e.path = at.path => class = "internal"

(* docs/functional-requirements.md, FR-021: the identifier of a concept is *)
(* its path without the suffix, and it is not empty.                       *)
ConceptIdIsPath ==
  \A c \in concepts : /\ c.id # <<Blank>>
                      /\ c.path = [c.id EXCEPT ![Len(c.id)] = <<@[1], @[2] + 1>>]

(* docs/functional-requirements.md, FR-029: the inspection of every        *)
(* document is charged against the limits of the bundle, and exceeding one *)
(* prevents publication.                                                   *)
ExcessPreventsPublication ==
  phase = "parsed" /\ (\E r \in FrontWork \cup BodyWork : used[r] > Limit[r]) =>
    \E f \in failures : f.scope = "bundle"

(* Failures explain what is missing: which concepts are empty, and where a *)
(* limit stopped the bundle.                                               *)
FailuresExplain == PartialExplained /\ LimitStops
=============================================================================
