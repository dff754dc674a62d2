------------------------------- MODULE Templates -------------------------------
(***************************************************************************)
(* What okf-core renders for a new concept, for agents and for indexes     *)
(* (crates/okf-core/src/templates.rs), the checks of the paths it is asked *)
(* for, and how the okf command checks the paths that are rendered         *)
(* (crates/okf-cli/src/workspace.rs).                                      *)
(*                                                                         *)
(* A path is a sequence of <<c, n>>, the character c percent-encoded n     *)
(* times: <<".", 1>> is %2E and <<".", 2>> is %252E.  Some words stand for *)
(* one character: "index", "INDEX", "log", "md", and "con", the name of a  *)
(* Windows device.  A value of metadata is a sequence of characters.       *)
(***************************************************************************)
EXTENDS Integers, FiniteSets, SequencesExt

CONSTANTS
  GivenPaths, Metadata, Contents,  \* inputs: paths, metadata of concepts, concepts of a bundle
  MaxDecodings,  \* how often a path is decoded in search of its spelling
  MaxPathUnits, MaxParts, MaxPart,  \* limits of a path: its length, its segments, the length of one
  MaxValue,      \* the limit of each metadata field, and of the number of tags
  MaxFront       \* the limit of a frontmatter

(* Paths are sequences as described above, and the limits allow a path of  *)
(* one mark.                                                               *)
ASSUME GivenPathsAssumption == GivenPaths \subseteq Seq(STRING \X Nat)

ASSUME PathLimitsAssumption ==
  MaxDecodings \in Nat /\ MaxPathUnits \in Nat \ {0} /\ MaxParts \in Nat \ {0}

VARIABLES request, rendered

templatesVars == <<request, rendered>>

Idle == [is |-> "nothing"]

Rejected == [is |-> "refused"]

-----------------------------------------------------------------------------
(* Paths.                                                                  *)

Slash == <<"/", 0>>

Backslash == <<"backslash", 0>>

Period == <<".", 0>>

Controls == {"c0", "del"}

Slashes(path) == [i \in DOMAIN path |-> IF path[i] = Backslash THEN Slash ELSE path[i]]

PlainMarks(path) == {t[1] : t \in {u \in ToSet(path) : u[2] = 0}}

Units(path) == FoldLeft(LAMBDA sum, t : sum + 1 + 2 * t[2], 0, path)

BoundedPath(path, separators) ==
  Units(path) <= MaxPathUnits /\ Cardinality({i \in DOMAIN path : path[i] \in separators}) < MaxParts

Segments(path) ==
  FoldLeft(LAMBDA parts, t : IF t = Slash THEN Append(parts, <<>>)
                             ELSE Append(Front(parts), Append(Last(parts), t)), <<<<>>>>, path)

ProperSegments(path) ==
  \A s \in ToSet(Segments(path)) : s \notin {<<>>, <<Period>>, <<Period, Period>>}

(* percent_decode: every escape once; a lone % is no path at all.          *)
PercentDecode(path) == [i \in DOMAIN path |-> <<path[i][1], IF path[i][2] > 0 THEN path[i][2] - 1 ELSE 0>>]

(* Decoded until nothing changes.                                          *)
Unescape(path) ==
  FoldLeft(LAMBDA s, round :
      IF s.fate # "open" THEN s
      ELSE IF PlainMarks(s.path) \cap (Controls \cup {"%"}) # {} THEN [s EXCEPT !.fate = "refused"]
      ELSE IF PercentDecode(s.path) = s.path THEN [s EXCEPT !.fate = "stable"]
      ELSE [s EXCEPT !.path = Slashes(PercentDecode(@))],
    [path |-> Slashes(path), fate |-> "open"], [round \in 1..MaxDecodings |-> round])

(* The name before the first period, without the blanks at its end.        *)
DeviceName(segment) ==
  LET periods == {i \in DOMAIN segment : segment[i] = Period}
      name == IF periods = {} THEN segment
              ELSE SubSeq(segment, 1, (CHOOSE i \in periods : \A j \in periods : i <= j) - 1)
      solid == {i \in DOMAIN name : name[i] # <<" ", 0>>}
  IN solid = {1} /\ name[1] = <<"con", 0>>

PortableSegment(segment) ==
  /\ Units(segment) <= MaxPart
  /\ PlainMarks(segment) \cap {":", "*"} = {}
  /\ segment # <<>> => Last(segment) \notin {Period, <<" ", 0>>}
  /\ ~DeviceName(segment)

PortablePath(path) == \A s \in ToSet(Segments(path)) : PortableSegment(s)

(* Relative, below the root, and a name on every supported file system.    *)
ConfinedPath(path) == path # <<>> /\ Head(path) # Slash /\ ":" \notin PlainMarks(path) /\ ProperSegments(path) /\ PortablePath(path)

LowerCase(t) == <<IF t[1] = "INDEX" THEN "index" ELSE IF t[1] = "MD" THEN "md" ELSE t[1], t[2]>>

Name(word) == <<<<word, 0>>, Period, <<"md", 0>>>>

Extension == <<Period, <<"md", 0>>>>

IsReservedName(segment) == [i \in DOMAIN segment |-> LowerCase(segment[i])] \in {Name("index"), Name("log")}

EndsWithExtension(path) == Len(path) >= 2 /\ SubSeq(path, Len(path) - 1, Len(path)) = Extension

BlankPath(path) == \A t \in ToSet(path) : t = <<" ", 0>>

(* validate_concept_path                                                   *)
AcceptsConceptPath(path) ==
  LET spelled == Unescape(path)
  IN /\ BoundedPath(path, {Slash, Backslash}) /\ ~BlankPath(path)
     /\ spelled.fate = "stable"
     /\ BoundedPath(spelled.path, {Slash})
     /\ ConfinedPath(spelled.path)
     /\ ~IsReservedName(Last(Segments(spelled.path)))
     /\ EndsWithExtension(spelled.path)
     /\ Last(Segments(spelled.path)) # Extension

(* Mutant of ConceptPath: decoded once, as links are.                      *)
DecodedOnce(path) == IF AcceptsConceptPath(path) THEN Slashes(PercentDecode(path)) ELSE <<>>

(* The path that is rendered.                                              *)
ConceptPath(path) == IF AcceptsConceptPath(path) THEN Unescape(path).path ELSE <<>>

(* Leading ./ and trailing separators of a bundle directory.               *)
TrimmedPath(path) ==
  LET tail == FoldLeft(LAMBDA p, round : IF Len(p) >= 2 /\ SubSeq(p, 1, 2) = <<Period, Slash>>
                                         THEN SubSeq(p, 3, Len(p)) ELSE p, Slashes(path), path)
      bare == FoldLeft(LAMBDA p, round : IF Len(p) > 1 /\ Last(p) = Slash THEN Front(p) ELSE p, tail, path)
  IN IF bare = <<>> /\ ~BlankPath(path) THEN <<Period>> ELSE bare

(* validate_bundle_directory                                               *)
AcceptsBundleDirectory(path) ==
  /\ BoundedPath(path, {Slash, Backslash})
  /\ \/ TrimmedPath(path) = <<Period>>
     \/ LET spelled == Unescape(TrimmedPath(path))
        IN /\ ~BlankPath(TrimmedPath(path)) /\ spelled.fate = "stable"
           /\ BoundedPath(spelled.path, {Slash})
           /\ \/ spelled.path = <<Period>> \/ ConfinedPath(spelled.path)

BundleDirectory(path) == IF TrimmedPath(path) = <<Period>> THEN <<Period>> ELSE Unescape(TrimmedPath(path)).path

(* A drive letter and its colon, alone or before a separator.              *)
WindowsAbsolute(path) ==
  Len(path) >= 2 /\ Head(path) = <<"a", 0>> /\ path[2] = <<":", 0>> /\ (Len(path) = 2 \/ path[3] = Slash)

(* validate_provider_bundle_directory: the spelling of a provider is kept. *)
AcceptsProviderDirectory(path) ==
  /\ path # <<>> /\ BoundedPath(path, {Slash})
  /\ PlainMarks(path) \cap (Controls \cup {"backslash"}) = {}
  /\ Head(path) # Slash /\ ~WindowsAbsolute(path)
  /\ \/ path = <<Period>> \/ ProperSegments(path)

(* validate_relative_path of the okf command: no escape is decoded.        *)
WritablePath(path) ==
  LET plain == Slashes(path)
  IN /\ plain # <<>> /\ BoundedPath(plain, {Slash})
     /\ ConfinedPath(plain)
     /\ PlainMarks(plain) \cap Controls = {}

(* okf new: the path is checked as it was given, then completed.           *)
NewPath(path) == IF EndsWithExtension(path) THEN path ELSE path \o Extension

-----------------------------------------------------------------------------
(* Metadata.                                                               *)

White == {" ", "nl", "cr"}

Absent == <<"(none)">>

AnyMetadata ==
  [type |-> <<"a">>, title |-> <<"a">>, description |-> Absent, tags |-> <<>>, timestamp |-> Absent]

BlankValue(value) == ToSet(value) \subseteq White

OneLine(value) ==
  FoldLeft(LAMBDA s, c : IF c \in White THEN [s EXCEPT !.pending = s.out # <<>>]
                         ELSE [out |-> s.out \o (IF s.pending THEN <<" ">> ELSE <<>>) \o <<c>>, pending |-> FALSE],
    [out |-> <<>>, pending |-> FALSE], value).out

NewLines(value) ==
  FoldLeft(LAMBDA out, i : IF value[i] = "nl" /\ i > 1 /\ value[i - 1] = "cr" THEN out
                           ELSE Append(out, IF value[i] = "cr" THEN "nl" ELSE value[i]),
    <<>>, [i \in DOMAIN value |-> i])

HasControls(value) == ToSet(value) \cap {"nl", "cr", "c0", "del"} # {}

(* Mutant of AcceptsTag: any text that is short enough.                    *)
AcceptsAnyTag(tag) == ~BlankValue(tag) /\ Len(tag) <= MaxValue["tag"]

AcceptsTag(tag) == ~BlankValue(tag) /\ Len(tag) <= MaxValue["tag"] /\ ~HasControls(tag)

(* validate_concept_metadata                                               *)
AcceptsMetadata(meta) ==
  /\ ~BlankValue(meta.type) /\ Len(meta.type) <= MaxValue["type"] /\ ~HasControls(meta.type)
  /\ OneLine(meta.title) # <<>> /\ Len(OneLine(meta.title)) <= MaxValue["title"]
  /\ meta.description # Absent => Len(NewLines(meta.description)) <= MaxValue["description"]
  /\ Len(meta.tags) <= MaxValue["tags"]
  /\ \A tag \in ToSet(meta.tags) : AcceptsTag(tag)
  /\ meta.timestamp # Absent =>
       ~BlankValue(meta.timestamp) /\ Len(meta.timestamp) <= MaxValue["timestamp"] /\ ~HasControls(meta.timestamp)

(* yaml_string: a JSON string, where DEL and what follows it stay as is.   *)
Quoted(value) == [i \in DOMAIN value |-> <<value[i], value[i] \in {"quote", "backslash", "nl", "cr", "c0"}>>]

(* The lines of the frontmatter: <<key, text>>.                            *)
ConceptLines(meta) ==
  LET description == NewLines(meta.description)
  IN <<<<"type", Quoted(meta.type)>>, <<"title", Quoted(OneLine(meta.title))>>>>
       \o (IF meta.description = Absent \/ BlankValue(description) THEN <<>>
           ELSE <<<<"description", Quoted(description)>>>>)
       \o (IF meta.tags = <<>> THEN <<>>
           ELSE <<<<"tags", <<>>>>>> \o [i \in DOMAIN meta.tags |-> <<"-", Quoted(meta.tags[i])>>])
       \o (IF meta.timestamp = Absent THEN <<>>
           ELSE <<<<"generated", <<>>>>, <<"by", Quoted(<<"process">>)>>, <<"at", Quoted(meta.timestamp)>>>>)

LineUnits(line) == 1 + FoldLeft(LAMBDA sum, c : sum + (IF c[2] THEN 2 ELSE 1), 0, line[2])

FrontUnits(lines) == FoldLeft(LAMBDA sum, line : sum + LineUnits(line), 0, lines)

(* What the parser makes of a double-quoted scalar.                        *)
Printable(text) ==
  \A c \in ToSet(text) : c[2] \/ c[1] \notin {"quote", "backslash", "nl", "cr", "c0", "del"}

Unquoted(text) == [i \in DOMAIN text |-> text[i][1]]

ReadField(lines, key) ==
  LET found == SelectSeq(lines, LAMBDA line : line[1] = key)
  IN IF found = <<>> THEN Absent ELSE Unquoted(found[1][2])

ReadTags(lines) ==
  LET items == SelectSeq(lines, LAMBDA line : line[1] = "-") IN [i \in DOMAIN items |-> Unquoted(items[i][2])]

(* concept_metadata_failure, for what templates render.                    *)
ReadsMetadata(lines) ==
  LET short(key) == ReadField(lines, key) = Absent \/ Len(ReadField(lines, key)) <= MaxValue[key]
  IN /\ ~HasControls(ReadField(lines, "type")) /\ short("type") /\ short("title") /\ short("description")
     /\ Len(ReadTags(lines)) <= MaxValue["tags"]
     /\ \A tag \in ToSet(ReadTags(lines)) : ~HasControls(tag) /\ Len(tag) <= MaxValue["tag"]
     /\ LET at == ReadField(lines, "at") IN at = Absent \/ (~HasControls(at) /\ Len(at) <= MaxValue["timestamp"])

-----------------------------------------------------------------------------
(* Index entries.                                                          *)

Unreserved(t) == t[2] = 0 /\ t[1] \notin {" ", ":", "*", "%", "#", "backslash"}

(* Mutant of EncodeMarkdownPath: what looks encoded is not encoded again.  *)
EncodeUnlessEncoded(path) ==
  [i \in DOMAIN path |-> IF Unreserved(path[i]) \/ path[i][2] > 0 THEN path[i] ELSE <<path[i][1], 1>>]

EncodeMarkdownPath(path) ==
  [i \in DOMAIN path |-> IF Unreserved(path[i]) THEN path[i] ELSE <<path[i][1], path[i][2] + 1>>]

EscapeLabel(label) ==
  FlattenSeq([i \in DOMAIN label |-> IF label[i] \in {"backslash", "[", "]"} THEN <<"backslash", label[i]>> ELSE <<label[i]>>])

DirectoryOf(path) ==
  LET slashes == {i \in DOMAIN path : path[i] = Slash}
  IN IF slashes = {} THEN <<>> ELSE SubSeq(path, 1, (CHOOSE i \in slashes : \A j \in slashes : i >= j) - 1)

JoinedPath(directory, name) == IF directory = <<>> THEN name ELSE directory \o <<Slash>> \o name

(* The files of a directory under their titles, and its directories.       *)
IndexLinks(directory, content) ==
  LET prefix == JoinedPath(directory, <<>>)
      below == {c \in content : Len(c.path) > Len(prefix) /\ SubSeq(c.path, 1, Len(prefix)) = prefix}
      rest(c) == SubSeq(c.path, Len(prefix) + 1, Len(c.path))
      label(c) == IF OneLine(c.title) = <<>> THEN <<"name">> ELSE OneLine(c.title)
  IN {[label |-> EscapeLabel(label(c)), target |-> <<Period, Slash>> \o EncodeMarkdownPath(rest(c)), concept |-> c.path] :
        c \in {d \in below : Len(Segments(rest(d))) = 1}}
      \cup {[label |-> <<"name">>, target |-> <<Period, Slash>> \o EncodeMarkdownPath(Segments(rest(c))[1] \o <<Slash>>),
             concept |-> <<>>] : c \in {d \in below : Len(Segments(rest(d))) > 1}}

IndexLinksOf(content) ==
  [directory \in {<<>>} \cup {DirectoryOf(c.path) : c \in content} |-> IndexLinks(directory, content)]

(* What a Markdown reader takes for the text of the link: a backslash      *)
(* escapes the next character, and a bracket that is not escaped ends it.  *)
LabelSurvives(label) ==
  LET scan == FoldLeft(LAMBDA s, c : IF s = "escape" THEN "text"
                                     ELSE IF s # "text" THEN s
                                     ELSE IF c = "backslash" THEN "escape"
                                     ELSE IF c \in {"[", "]"} THEN "broken" ELSE "text", "text", label)
  IN scan = "text"

(* resolve_link and normalize_link_path, for a link of a directory's       *)
(* index: cut at # first, decoded once, and followed segment by segment.   *)
LinkPath(target) ==
  LET marks == {i \in DOMAIN target : target[i] = <<"#", 0>>}
  IN IF marks = {} THEN target ELSE SubSeq(target, 1, (CHOOSE i \in marks : \A j \in marks : i <= j) - 1)

FollowedFrom(directory, target) ==
  LET decoded == Slashes(PercentDecode(LinkPath(target)))
      base == IF directory = <<>> THEN <<>> ELSE Segments(directory)
  IN FoldLeft(LAMBDA parts, s : IF s \in {<<>>, <<Period>>} THEN parts
                                ELSE IF s = <<Period, Period>> THEN (IF parts = <<>> THEN parts ELSE Front(parts))
                                ELSE Append(parts, s), base, Segments(decoded))

-----------------------------------------------------------------------------
(* Rendering.                                                              *)

(* The metadata varies under one path, the path under one metadata.        *)
TemplatesInit ==
  /\ rendered = Idle
  /\ \/ \E path \in GivenPaths, op \in {"concept", "new", "agent", "provider"} :
          request = [op |-> op, path |-> path, meta |-> AnyMetadata]
     \/ \E meta \in Metadata : request = [op |-> "concept", path |-> Name("a"), meta |-> meta]
     \/ \E content \in Contents : request = [op |-> "index", concepts |-> content]

Rendering(op) == rendered = Idle /\ request.op = op /\ UNCHANGED request

ConceptFile(path, meta) ==
  IF ConceptPath(path) = <<>> \/ ~AcceptsMetadata(meta) THEN Rejected
  ELSE [is |-> "concept", path |-> ConceptPath(path), lines |-> ConceptLines(meta)]

(* concept_template_file_checked, over the ABI.                            *)
RenderConcept == Rendering("concept") /\ rendered' = ConceptFile(request.path, request.meta)

(* okf new.                                                                *)
RenderNew ==
  /\ Rendering("new")
  /\ rendered' = IF ~WritablePath(request.path) THEN Rejected ELSE ConceptFile(NewPath(request.path), request.meta)

(* agent_files_checked and agent_files_provider_checked.                   *)
RenderAgent ==
  /\ Rendering("agent")
  /\ rendered' = IF ~AcceptsBundleDirectory(request.path) THEN Rejected
                 ELSE [is |-> "agent", path |-> BundleDirectory(request.path)]

RenderProviderAgent ==
  /\ Rendering("provider")
  /\ rendered' = IF ~AcceptsProviderDirectory(request.path) THEN Rejected
                 ELSE [is |-> "provider", path |-> request.path]

(* index_files with mode all.                                              *)
RenderIndexFiles ==
  Rendering("index") /\ rendered' = [is |-> "index", links |-> IndexLinksOf(request.concepts)]

TemplatesNext == RenderConcept \/ RenderNew \/ RenderAgent \/ RenderProviderAgent \/ RenderIndexFiles

TemplatesSpec == TemplatesInit /\ [][TemplatesNext]_templatesVars

-----------------------------------------------------------------------------
(* Properties.                                                             *)

(* Whatever spelling was asked for, what is rendered is the last one: no   *)
(* reader that decodes once more finds another file, the okf command will  *)
(* write it, and no file system takes a concept for an index or a log.     *)
PathsSettled ==
  rendered.is \in {"concept", "agent"} =>
    LET path == rendered.path
    IN /\ Slashes(PercentDecode(path)) = path
       /\ path # <<Period>> => WritablePath(path)
       /\ rendered.is = "concept" => ~IsReservedName(Last(Segments(path))) /\ ConceptPath(path) = path
       /\ rendered.is = "agent" => AcceptsBundleDirectory(path) /\ BundleDirectory(path) = path

(* A rendered concept is one that the parser keeps, with the metadata that *)
(* was given.  Two known exceptions: DEL and the controls after it are not *)
(* refused in a title or a description, where YAML forbids them, and what  *)
(* is rendered may be longer than a frontmatter may be.                    *)
ConceptReadsBack ==
  rendered.is = "concept" /\ FrontUnits(rendered.lines) <= MaxFront =>
    LET meta == request.meta
        lines == rendered.lines
    IN /\ (\A line \in ToSet(lines) : Printable(line[2]))
            <=> ToSet(meta.title) \cap {"del"} = {} /\ ToSet(meta.description) \cap {"del"} = {}
       /\ ReadsMetadata(lines)
       /\ ReadField(lines, "type") = meta.type
       /\ ReadField(lines, "title") = OneLine(meta.title)
       /\ ReadField(lines, "description") =
            (IF BlankValue(meta.description) THEN Absent ELSE NewLines(meta.description))
       /\ ReadTags(lines) = meta.tags
       /\ ReadField(lines, "at") = meta.timestamp

(* Every concept is listed in the index of its directory, by a link that   *)
(* leads back to it, and every other link leads to a directory.            *)
IndexReaches ==
  rendered.is = "index" =>
    /\ \A c \in request.concepts :
         \E link \in rendered.links[DirectoryOf(c.path)] : link.concept = c.path
    /\ \A directory \in DOMAIN rendered.links : \A link \in rendered.links[directory] :
         LET reached == FollowedFrom(directory, link.target)
         IN /\ LabelSurvives(link.label)
            /\ IF link.concept # <<>> THEN reached = Segments(link.concept)
               ELSE \E c \in request.concepts : IsStrictPrefix(reached, Segments(c.path))

(* What is rendered can be read back: the fields of a concept, and the     *)
(* concepts and directories an index links to.                             *)
RenderedReadsBack == ConceptReadsBack /\ IndexReaches
=============================================================================
