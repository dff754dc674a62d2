-------------------------------- MODULE Migration --------------------------------
(***************************************************************************)
(* The explicit migration of a bundle to OKF 0.2                           *)
(* (crates/okf-core/src/migration.rs): one pass over the documents that    *)
(* collects source edits, a check that what they render still parses, a    *)
(* second pass without citations when it does not, and the pass over the   *)
(* result that must find nothing left to do.                               *)
(*                                                                         *)
(* A text is a sequence of lines, with <<"bom">> for a byte order mark.    *)
(* Lines of the frontmatter are <<"fence">>, its delimiter, <<"field", k,  *)
(* s, v>>, the first line of the field k, written in style s with value v, *)
(* <<"flow", m>>, a flow mapping m, <<"deeper">>, an indented line, and    *)
(* <<"gap">>, a blank line or a comment.  Lines of the                     *)
(* body are <<"body", r>>, with what the scan for citations tells apart in *)
(* the record r.  Offsets count lines, where the code counts UTF-16 units, *)
(* and those of the parser are of the text without its byte order mark.    *)
(***************************************************************************)
EXTENDS Integers, FiniteSets, SequencesExt

CONSTANTS
  Bundles,     \* inputs: sequences of [path, text]
  Actors, ValidActors,
  RootIndex,   \* index.md
  ReservedPaths,  \* the paths that end in index.md or log.md
  Dates,       \* the RFC 3339 timestamps
  Unreadable,  \* content that is no text
  MaxCost, MaxBundleCost  \* what a document, and a bundle, may cost to parse

(* A document is a text, as described above, or it cannot be read.         *)
ASSUME BundlesAssumption ==
  \A docs \in Bundles :
    /\ docs \in Seq(ToSet(docs))
    /\ \A d \in ToSet(docs) :
         /\ d = [path |-> d.path, text |-> d.text]
         /\ d.text = Unreadable \/ d.text \in Seq(ToSet(d.text))

ASSUME ReservedAssumption == RootIndex \in ReservedPaths

VARIABLES at, actor, documents, allow, todo, files, results, round

migrationVars == <<at, actor, documents, allow, todo, files, results, round>>

-----------------------------------------------------------------------------
(* What the parser makes of a text.                                        *)

Bom == <<"bom">>

Fence == <<"fence">>

CanonicalText(text) == IF text # <<>> /\ Head(text) = Bom THEN Tail(text) ELSE text

Closing(lines) == CHOOSE i \in 2..Len(lines) : lines[i] = Fence /\ \A j \in 2..(i - 1) : lines[j] # Fence

Opens(text) == LET lines == CanonicalText(text) IN lines # <<>> /\ Head(lines) = Fence

HasFrontmatter(text) ==
  LET lines == CanonicalText(text) IN Opens(text) /\ \E i \in 2..Len(lines) : lines[i] = Fence

FrontLines(text) == LET lines == CanonicalText(text) IN SubSeq(lines, 2, Closing(lines) - 1)

Body(text) == LET lines == CanonicalText(text) IN SubSeq(lines, Closing(lines) + 1, Len(lines))

Keys(text) ==
  UNION {CASE l[1] = "field" -> {l[2]} [] l[1] = "flow" -> DOMAIN l[2] [] OTHER -> {} : l \in ToSet(FrontLines(text))}

FieldLines(text, key) == {l \in ToSet(FrontLines(text)) : l[1] = "field" /\ l[2] = key}

FlowLines(text, key) == {l \in ToSet(FrontLines(text)) : l[1] = "flow" /\ key \in DOMAIN l[2]}

Value(text, key) ==
  IF FieldLines(text, key) # {} THEN (CHOOSE l \in FieldLines(text, key) : TRUE)[4]
  ELSE IF FlowLines(text, key) # {} THEN (CHOOSE l \in FlowLines(text, key) : TRUE)[2][key]
  ELSE ""

StructuralCost(text) ==
  IF HasFrontmatter(text) THEN Cardinality({i \in DOMAIN FrontLines(text) : FrontLines(text)[i][1] # "gap"}) ELSE 0

(* A block field cannot follow a flow mapping, and a field is given once.  *)
Parses(text) ==
  /\ text # Unreadable /\ HasFrontmatter(text)
  /\ StructuralCost(text) <= MaxCost
  /\ LET front == FrontLines(text)
     IN /\ \A l \in ToSet(front) : l[1] = "flow" => \A m \in ToSet(front) : m[1] \in {"flow", "gap"}
        /\ \A i, j \in DOMAIN front : i # j /\ front[i][1] = "field" /\ front[j][1] = "field" => front[i][2] # front[j][2]

IsConcept(document) == document.path \notin ReservedPaths

(* Only a concept needs a frontmatter; one that is opened must be right.   *)
BundleParses(docs) ==
  /\ \A d \in ToSet(docs) : Parses(d.text) \/ (~IsConcept(d) /\ d.text # Unreadable /\ ~Opens(d.text))
  /\ FoldLeft(LAMBDA sum, d : sum + StructuralCost(d.text), 0, docs) <= MaxBundleCost

-----------------------------------------------------------------------------
(* Citations.                                                              *)

PlainLine == [deep |-> FALSE, fence |-> <<"", 0>>, bare |-> TRUE, html |-> "", ends |-> {}, mentions |-> FALSE,
              title |-> "", url |-> "", blank |-> FALSE]

NoFence == <<"", 0>>

ScanStart == [in |-> FALSE, found |-> FALSE, ambiguous |-> FALSE, resources |-> <<>>, fence |-> NoFence, html |-> ""]

(* A fence ends with a run of its marker that is as long and stands alone. *)
InFence(scan, line) ==
  IF ~line.deep /\ line.fence[1] = scan.fence[1] /\ line.fence[2] >= scan.fence[2] /\ line.bare
  THEN [scan EXCEPT !.fence = NoFence] ELSE scan

InHtml(scan, line) ==
  [scan EXCEPT !.found = @ \/ line.mentions, !.ambiguous = @ \/ line.mentions,
               !.html = IF @ \in line.ends THEN "" ELSE @]

OpensFence(line) == ~line.deep /\ line.fence[2] >= 3

OpensHtml(line) == ~line.deep /\ line.html # ""

(* Mutant of Citation: an indented line is a bullet as well.               *)
IndentedCitation(scan, line) ==
  IF ~scan.in \/ line.blank THEN scan
  ELSE IF line.url = "" THEN [scan EXCEPT !.ambiguous = TRUE]
  ELSE [scan EXCEPT !.resources = IF line.url \in ToSet(@) THEN @ ELSE Append(@, line.url)]

(* A bullet that is a simple URL; anything else is for a person to judge.  *)
Citation(scan, line) ==
  IF ~scan.in \/ line.blank \/ line.deep THEN scan
  ELSE IF line.url = "" THEN [scan EXCEPT !.ambiguous = TRUE]
  ELSE [scan EXCEPT !.resources = IF line.url \in ToSet(@) THEN @ ELSE Append(@, line.url)]

ScanLine(scan, line) ==
  IF scan.fence # NoFence THEN InFence(scan, line)
  ELSE IF scan.html # "" THEN InHtml(scan, line)
  ELSE IF OpensFence(line) THEN [scan EXCEPT !.fence = line.fence, !.ambiguous = @ \/ scan.in]
  ELSE IF OpensHtml(line)
    THEN [scan EXCEPT !.found = @ \/ scan.in \/ line.mentions,
                      !.ambiguous = @ \/ scan.in \/ line.mentions,
                      !.html = IF line.html \in line.ends THEN "" ELSE line.html]
  ELSE IF ~line.deep /\ line.title # ""
    THEN [scan EXCEPT !.in = line.title = "Citations", !.found = @ \/ line.title = "Citations"]
  ELSE Citation(scan, line)

AnalyzeCitations(body) == FoldLeft(LAMBDA scan, l : ScanLine(scan, IF l = Fence THEN PlainLine ELSE l[2]), ScanStart, body)

-----------------------------------------------------------------------------
(* Source edits: from, the lines before it; upto, the last line replaced.  *)

NoRange == [is |-> "none"]

Edit(from, upto, lines) == [is |-> "edit", from |-> from, upto |-> upto, lines |-> lines]

(* The line is unanchored and complete on its own; positions come from the *)
(* canonical text and are moved by a byte order mark.  A field that no     *)
(* line begins with is an error, not a case for a person.                  *)
ValueContinues(front, i) ==
  \E j \in (i + 1)..Len(front) : front[j] = <<"deeper">> /\ \A k \in (i + 1)..(j - 1) : front[k] = <<"gap">>

SimpleFieldRange(text, key) ==
  LET front == FrontLines(text)
      starts == {i \in DOMAIN front : front[i][1] = "field" /\ front[i][2] = key}
      i == CHOOSE n \in starts : \A m \in starts : n <= m
      line == i + 1 + (IF Head(text) = Bom THEN 1 ELSE 0)
  IN IF starts = {} THEN [is |-> "unavailable"]
     ELSE IF front[i][3] # "plain" \/ ValueContinues(front, i) THEN NoRange
     ELSE IF text[line] # front[i] THEN [is |-> "unavailable"]
     ELSE [is |-> "range", line |-> line]

(* From the last to the first, so that positions stay what they were.      *)
ApplyEdits(text, edits) ==
  MapThenFoldSet(LAMBDA e, t : SubSeq(t, 1, e.from) \o e.lines \o SubSeq(t, e.upto + 1, Len(t)), text,
                 LAMBDA e : e, LAMBDA rest : CHOOSE e \in rest : \A d \in rest : e.from <= d.from, edits)

(* Mutant of ClosingStart: a rule in the body looks the same.              *)
LastFence(text) ==
  LET fences == {i \in DOMAIN text : text[i] = Fence}
  IN CHOOSE i \in fences : \A j \in fences : i >= j

(* The position of the delimiter, found again in the text itself.          *)
ClosingStart(text) ==
  LET fences == {i \in DOMAIN text : text[i] = Fence}
      opening == CHOOSE i \in fences : \A j \in fences : i <= j
  IN CHOOSE i \in fences \ {opening} : \A j \in fences \ {opening} : i <= j

(* Mutant of VersionEdit: without its quotes the version is a number.      *)
NumberEdit(line) == Edit(line - 1, line, <<<<"field", "okf_version", "plain", "number">>>>)

VersionEdit(line) == Edit(line - 1, line, <<<<"field", "okf_version", "plain", "0.2">>>>)

GeneratedEdit(line, timestamp) ==
  Edit(line - 1, line, <<<<"field", "generated", "block", timestamp>>, <<"deeper">>, <<"deeper">>>>)

SourcesEdit(text, resources) ==
  Edit(ClosingStart(text) - 1, ClosingStart(text) - 1,
       <<<<"field", "sources", "block", resources>>>> \o [i \in DOMAIN resources |-> <<"deeper">>])

-----------------------------------------------------------------------------
(* One document.                                                           *)

LegacyTimestamp(text) == "timestamp" \in Keys(text) /\ "generated" \notin Keys(text)

TimestampRange(text) ==
  IF LegacyTimestamp(text) /\ Value(text, "timestamp") \in Dates THEN SimpleFieldRange(text, "timestamp") ELSE NoRange

TimestampEdits(text) ==
  LET range == TimestampRange(text)
  IN IF range.is = "range" THEN {GeneratedEdit(range.line, Value(text, "timestamp"))} ELSE {}

CitationEdits(text, insert) ==
  LET scan == AnalyzeCitations(Body(text))
      edit == SourcesEdit(text, scan.resources)
  IN IF scan.found /\ ~scan.ambiguous /\ scan.resources # <<>> /\ "sources" \notin Keys(text) /\ insert
        /\ Parses(ApplyEdits(text, TimestampEdits(text) \cup {edit}))
     THEN {edit} ELSE {}

ConceptEdits(text, insert) == TimestampEdits(text) \cup CitationEdits(text, insert)

(* Mutant of ManualFollowUp: what the second pass left out is not told.    *)
UnreportedFallback(text, insert) ==
  LegacyTimestamp(text) /\ TimestampEdits(text) = {}

ManualFollowUp(text, insert) ==
  \/ LegacyTimestamp(text) /\ TimestampEdits(text) = {}
  \/ LET scan == AnalyzeCitations(Body(text))
     IN /\ scan.found
        /\ \/ scan.ambiguous \/ scan.resources = <<>>
           \/ "sources" \notin Keys(text) /\ CitationEdits(text, insert) = {}

-----------------------------------------------------------------------------
(* The pass.                                                               *)

MigrationInit ==
  /\ at = "start" /\ round = 1
  /\ actor \in Actors
  /\ documents \in Bundles
  /\ allow = TRUE
  /\ todo = <<>> /\ files = <<>> /\ results = {}

Fail == at' = "error" /\ UNCHANGED <<actor, documents, allow, todo, files, results, round>>

(* What of a sequence is in S, in its order.                               *)
Only(s, S) == FoldLeft(LAMBDA out, x : IF x \in S THEN Append(out, x) ELSE out, <<>>, s)

TextAt(path) == (CHOOSE d \in ToSet(documents) : d.path = path).text

(* decoded_documents, and what a migration requires of the parsed bundle.  *)
Migratable ==
  /\ actor \in ValidActors
  /\ \A d \in ToSet(documents) : d.text # Unreadable
  /\ \A i, j \in DOMAIN documents : i # j => documents[i].path # documents[j].path
  /\ BundleParses(documents)
  /\ \E d \in ToSet(documents) : d.path = RootIndex /\ HasFrontmatter(d.text) /\ Value(d.text, "okf_version") \in {"0.1", "0.2"}

(* The root index is the first document and must be editable.              *)
StartPass ==
  /\ at = "start"
  /\ IF ~Migratable THEN Fail
     ELSE LET text == TextAt(RootIndex)
              range == SimpleFieldRange(text, "okf_version")
              current == Value(text, "okf_version") = "0.2"
          IN IF ~current /\ range.is # "range" THEN Fail
             ELSE /\ at' = "concepts"
                  /\ files' = IF current THEN <<>>
                              ELSE <<[path |-> RootIndex, text |-> ApplyEdits(text, {VersionEdit(range.line)})]>>
                  /\ results' = {[path |-> RootIndex, changed |-> ~current, manual |-> FALSE]}
                  /\ todo' = Only(documents, {d \in ToSet(documents) : IsConcept(d)})
                  /\ UNCHANGED <<actor, documents, allow, round>>

MigrateConcept ==
  /\ at = "concepts" /\ todo # <<>>
  /\ LET document == Head(todo)
         edits == ConceptEdits(document.text, allow)
     IN IF TimestampRange(document.text).is = "unavailable" THEN Fail
        ELSE /\ files' = IF edits = {} THEN files
                         ELSE Append(files, [path |-> document.path, text |-> ApplyEdits(document.text, edits)])
             /\ results' = results \cup {[path |-> document.path, changed |-> edits # {},
                                          manual |-> ManualFollowUp(document.text, allow)]}
             /\ todo' = Tail(todo)
             /\ UNCHANGED <<at, actor, documents, allow, round>>

Rendered(path) == {f \in ToSet(files) : f.path = path}

Applied ==
  [i \in DOMAIN documents |->
     IF Rendered(documents[i].path) = {} THEN documents[i] ELSE CHOOSE f \in Rendered(documents[i].path) : TRUE]

(* Mutant of RootLast: the order of discovery.                             *)
RootFirst(rendered) == rendered

(* The declaration of the version is written last.                         *)
RootLast(rendered) ==
  LET root == {f \in ToSet(rendered) : f.path = RootIndex}
  IN Only(rendered, ToSet(rendered) \ root) \o Only(rendered, root)

(* rendered_plan_is_parseable; a plan with citations has a second chance.  *)
CheckPlan ==
  /\ at = "concepts" /\ todo = <<>>
  /\ IF BundleParses(Applied)
       THEN at' = "planned" /\ files' = RootLast(files) /\ UNCHANGED <<actor, documents, allow, todo, results, round>>
     ELSE IF allow /\ \E d \in ToSet(documents) : IsConcept(d) /\ CitationEdits(d.text, allow) # {}
       THEN /\ at' = "start" /\ allow' = FALSE /\ files' = <<>> /\ results' = {}
            /\ UNCHANGED <<actor, documents, todo, round>>
     ELSE Fail

(* The plan has been applied, and the user migrates once more.             *)
MigrateAgain ==
  /\ at = "planned" /\ round = 1
  /\ at' = "start" /\ round' = 2 /\ allow' = TRUE
  /\ documents' = Applied
  /\ files' = <<>> /\ results' = {} /\ todo' = <<>>
  /\ UNCHANGED actor

MigrationNext == StartPass \/ MigrateConcept \/ CheckPlan \/ MigrateAgain

MigrationSpec == MigrationInit /\ [][MigrationNext]_migrationVars

-----------------------------------------------------------------------------
(* Properties.                                                             *)

(* FR-079: a second planning run over the applied plan is empty, and it    *)
(* does not fail either: what was planned can be migrated.                 *)
SecondRunEmpty == round = 2 => at # "error" /\ (at = "planned" => files = <<>>)

(* Unknown fields and the body survive: a planned text is the old one with *)
(* at most its version or timestamp line replaced and sources put at the   *)
(* end of the frontmatter.                                                 *)
KeptFields(front) ==
  Only(front, {l \in ToSet(front) \ {<<"deeper">>} :
                 l[1] = "field" => l[2] \notin {"okf_version", "timestamp", "generated", "sources"}})

SourceSurvives ==
  \A f \in ToSet(files) :
    LET text == TextAt(f.path)
    IN /\ HasFrontmatter(f.text)
       /\ Body(f.text) = Body(text)
       /\ KeptFields(FrontLines(f.text)) = KeptFields(FrontLines(text))
       /\ (Head(f.text) = Bom) = (Head(text) = Bom)

(* No legacy timestamp and no citation disappears from sight: a planned    *)
(* concept has none left to migrate unless the result says so, and the     *)
(* sources it gained are URLs of bullets under its Citations.              *)
FollowUpTruthful ==
  at = "planned" =>
    \A d \in {e \in ToSet(Applied) : IsConcept(e)} :
      LET result == CHOOSE r \in results : r.path = d.path
          gained == "sources" \in Keys(d.text) \ Keys(TextAt(d.path))
          unmigrated == AnalyzeCitations(Body(d.text)).found /\ "sources" \notin Keys(d.text)
      IN /\ LegacyTimestamp(d.text) \/ unmigrated => result.manual
         /\ gained => \A r \in ToSet(Value(d.text, "sources")) :
              \E line \in ToSet(Body(d.text)) \ {Fence} : line[2].url = r /\ ~line[2].deep

(* A bundle that shows the new version is complete: whatever prefix of the *)
(* plan is written, the version is the last thing to change, and the whole *)
(* result parses.                                                          *)
VersionLast ==
  at = "planned" =>
    /\ \A i \in DOMAIN files : files[i].path = RootIndex => i = Len(files)
    /\ BundleParses(Applied)

(* A plan can be applied without loss: the sources survive, what remains   *)
(* to be done by hand is told, and the version is written last.            *)
PlanSafe == SourceSurvives /\ FollowUpTruthful /\ VersionLast
=============================================================================
