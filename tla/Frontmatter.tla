----------------------------- MODULE Frontmatter -----------------------------
(***************************************************************************)
(* parse_frontmatter (src/crates/okf-core/src/parser.rs): a document is    *)
(* split at its two delimiters, the YAML between them goes through the     *)
(* checks of FrontmatterText in the order of the code, then through the    *)
(* YAML library and the conversion of FrontmatterValue, and every failure  *)
(* is an error of its own, some of them resource limits.                   *)
(***************************************************************************)
EXTENDS FrontmatterValue

CONSTANTS
    MaxUnits,     \* MAX_FRONTMATTER_SOURCE_CODE_UNITS
    MaxBytes,     \* MAX_FRONTMATTER_SOURCE_BYTES
    MaxOutput,    \* MAX_FRONTMATTER_OUTPUT_UNITS
    Sources       \* the documents that may be parsed

VARIABLES
    source,       \* the document given to parse_frontmatter
    outcome       \* what it returned, or Unparsed

frontmatterVars == <<source, outcome>>

(* A document: whether its first line is a delimiter and whether a second  *)
(* one follows, the size of the text between them, its lines, whether a    *)
(* second YAML document is in it, and the first lexical rule its text      *)
(* breaks, the text itself not being modelled.                             *)
PlainDocument(lines) == [opened |-> TRUE, closed |-> TRUE, units |-> 1, bytes |-> 1,
                 lines |-> lines, second |-> FALSE, fault |-> "none"]

Unparsed == [result |-> "unparsed", resource |-> FALSE, raw |-> Refused]

Failed(result, resource) == [result |-> result, resource |-> resource, raw |-> Refused]
Parsed(raw) == [result |-> "frontmatter", resource |-> FALSE, raw |-> raw]

(* The lexical rules, in the order they are tried. *)
LexicalRules ==
    <<"reserved tag", "comment separator", "2002 tag", "indentation tab",
      "tight alias", "multiline implicit key", "closed flow sequence",
      "compact nested mapping", "tagged flow property", "flow block value",
      "explicit timestamp", "flow block scalar", "reserved indicator">>

PropertyRules ==
    <<"missing comma", "deferred flow property", "under-indented flow",
      "several properties", "set value", "empty key">>

(* The lexical rules tried after the keys. *)
LateRules == {"non-finite number", "line separator"}

-----------------------------------------------------------------------------
(* The checks of the code, in its order, as pairs of a name and whether    *)
(* the failure is a resource limit.                                        *)

TextChecks ==
    <<<<"unclosed", FALSE>>, <<"units", TRUE>>, <<"bytes", TRUE>>,
      <<"complexity", TRUE>>, <<"nested aliases", FALSE>>,
      <<"second document", FALSE>>, <<"lexical", FALSE>>>>

KeyChecks ==
    <<<<"duplicate key", FALSE>>, <<"key is no string", FALSE>>,
      <<"duplicate member", FALSE>>, <<"late lexical", FALSE>>>>

FailsText(check, document) ==
    CASE check = "unclosed" -> ~document.closed
      [] check = "units" -> document.units > MaxUnits
      [] check = "bytes" -> document.bytes > MaxBytes
      [] check = "complexity" -> TooComplex(document.lines)
      [] check = "nested aliases" -> NestedExcess(document.lines)
      [] check = "second document" -> document.second
      [] check = "lexical" -> document.fault \in Range(LexicalRules \o PropertyRules)
      [] OTHER -> FALSE

FailsKeys(check, document) ==
    CASE check = "duplicate key" -> DuplicateKey(document.lines)
      [] check = "key is no string" -> NonStringKey(document.lines)
      [] check = "duplicate member" -> DuplicateMember(document.lines)
      [] check = "late lexical" -> document.fault \in LateRules
      [] OTHER -> FALSE

FirstFailure(checks, document) ==
    LET fails(check) == FailsText(check[1], document) \/ FailsKeys(check[1], document)
        k == SelectInSeq(checks, fails)
    IN  IF k = 0 THEN Unparsed ELSE Failed(checks[k][1], checks[k][2])

(* The library reads the text: the lines have a structure, a set holds     *)
(* members and nothing else does, and every alias is resolved.             *)
Readable(lines) ==
    LET reading == Structure(lines)
        holder(e) == CHOOSE f \in Range(reading.entries) : f.path = Front(e.path)
        inSet(e) == Front(e.path) # <<>> /\ OpensSet(lines[holder(e).line])
    IN  /\ reading.ok
        /\ \A e \in Range(reading.entries) : inSet(e) <=> Last(e.path)[1] = "member"
        /\ Resolved(lines, reading.entries)

NodeOf(lines) == YamlNode(lines, Structure(lines).entries, <<>>)

(* The library's value as JSON, with the limits on its size and the check  *)
(* of the number of aliases that was put off.                              *)
JsonOf(lines) ==
    LET raw == YamlToJson(NodeOf(lines))
    IN  IF raw = Refused THEN Failed("yaml key", FALSE)
        ELSE IF raw[1] # "object" THEN Failed("not a mapping", FALSE)
        ELSE IF Max({OutputUnits(raw), AliasUnits(lines)}) > MaxOutput
        THEN Failed("output", TRUE)
        ELSE IF FlatExcess(lines) THEN Failed("flat aliases", FALSE)
        ELSE Parsed(raw)

FromYaml(lines) ==
    IF lines = <<>> THEN Failed("not a mapping", FALSE)
    ELSE IF ~Readable(lines) \/ RepeatsKey(NodeOf(lines)) THEN Failed("yaml", FALSE)
    ELSE JsonOf(lines)

FrontmatterOf(document) ==
    LET text == FirstFailure(TextChecks, document)
        keys == FirstFailure(KeyChecks, document)
    IN  IF ~document.opened THEN [Unparsed EXCEPT !.result = "no frontmatter"]
        ELSE IF text # Unparsed THEN text
        ELSE IF keys # Unparsed THEN keys
        ELSE FromYaml(document.lines)

FrontmatterInit == source \in Sources /\ outcome = Unparsed

ParseFrontmatter ==
    /\ outcome = Unparsed
    /\ outcome' = FrontmatterOf(source)
    /\ UNCHANGED source

FrontmatterNext == ParseFrontmatter

-----------------------------------------------------------------------------
(* Properties *)

Accepted == outcome.result = "frontmatter"

RECURSIVE RealCost(_, _, _)
RealCost(lines, entries, alias) ==
    LET path(line) == entries[PathOfLine(entries, line)].path
        anchor == path(AnchorBefore(lines, alias))
    IN  1 + MapThenSumSet(LAMBDA a : RealCost(lines, entries, a),
                          {a \in Aliases(lines) : IsPrefix(anchor, path(a[1]))})

(* A header that is accepted has no more than MaxAliases alias expansions  *)
(* when every alias is replaced by the node YAML gives its anchor, however *)
(* the nodes nest: the count made on indentation never falls short of it.  *)
AliasesBounded ==
    Accepted =>
        MapThenSumSet(LAMBDA a : RealCost(source.lines, Structure(source.lines).entries, a),
                      Aliases(source.lines)) <= MaxAliases

(* Items written at the column of the key that holds them. *)
FlushSteps(lines, entries, path) ==
    Cardinality({n \in 2..Len(path) :
        /\ path[n][1] = "item" /\ path[n - 1][1] = "key"
        /\ \E e, h \in Range(entries) :
              /\ e.path = SubSeq(path, 1, n) /\ h.path = SubSeq(path, 1, n - 1)
              /\ lines[e.line].indent = lines[h.line].indent})

(* No collection of an accepted header is deeper than MaxNesting, counting *)
(* neither the sequences written at the column of their key nor a set:     *)
(* the scan by indentation sees every other collection that YAML sees.     *)
NestingBounded ==
    Accepted =>
        LET entries == Structure(source.lines).entries
        IN  \A e \in Range(entries) :
                Len(e.path) - 1 + FlowDepth(source.lines[e.line].value)
                    - Bit(Last(e.path)[1] = "member")
                    - FlushSteps(source.lines, entries, e.path) <= MaxNesting

(* The value that a JSON value stands for, without the wrapper of its tag. *)
Bare(json) == IF json[1] = "tag" THEN json[3] ELSE json

RECURSIVE Kept(_, _)
Kept(node, json) ==
    CASE node[1] = "mapping" ->
            LET keys == [i \in DOMAIN node[2] |-> YamlStringMappingKey(node[2][i][1])[2]]
            IN  /\ Cardinality(DOMAIN json[2]) = Len(node[2])
                /\ \A i \in DOMAIN keys : Kept(node[2][i][2], json[2][keys[i]])
      [] node[1] = "sequence" -> \A i \in DOMAIN node[2] : Kept(node[2][i], json[2][i])
      [] node[1] = "tagged" /\ node[2] = "!oset" ->
            Cardinality({Bare(m) : m \in Range(Bare(json)[2])}) = Len(node[3][2])
      [] OTHER -> TRUE

(* Every entry of every mapping of the YAML text is an entry of the JSON   *)
(* value, and the members of a set are distinct there: no two keys that    *)
(* mean the same text slip through and overwrite one another.              *)
EntriesRetained == Accepted => Kept(NodeOf(source.lines), outcome.raw)

(* An item whose first key has its value on the lines below. *)
ItemOpens(lines) ==
    \E i \in DOMAIN lines : IsItem(lines[i]) /\ HasKey(lines[i]) /\ OpensContainer(lines[i])

(* The same, leaving aside the headers with an item whose first key has    *)
(* its value on the lines below, in which the scan loses its place.        *)
EntriesRetainedElsewhere == ItemOpens(source.lines) \/ EntriesRetained

SameKeys(lines, entries) ==
    \E e, f \in Range(entries) :
        /\ e # f /\ Front(e.path) = Front(f.path)
        /\ Last(e.path)[1] = "key" /\ Last(f.path)[1] = "key"
        /\ KeyValue(lines[e.line].key) = KeyValue(lines[f.line].key)

(* A key whose container the scan does not see, for a comment follows it.  *)
CommentHides(lines) ==
    \E i \in DOMAIN lines :
        /\ HasKey(lines[i]) /\ lines[i].value.kind = "none" /\ ~OpensContainer(lines[i])

(* A header that YAML can read is refused for a repeated key only if two   *)
(* keys of one mapping mean the same, the two layouts in which the scan    *)
(* loses its place being left aside.                                       *)
DuplicateReal ==
    \/ outcome.result # "duplicate key"
    \/ ~Readable(source.lines)
    \/ ItemOpens(source.lines) \/ CommentHides(source.lines)
    \/ SameKeys(source.lines, Structure(source.lines).entries)
    \/ DuplicateFlowKey(source.lines)

(* The limits hold of every accepted header as YAML reads it, though they  *)
(* are checked on its indentation and punctuation.                         *)
HeaderBounded == AliasesBounded /\ NestingBounded

(* Keys are told apart as YAML tells them apart: no entry is lost, and no  *)
(* header is refused for a repetition that is none, the two layouts in     *)
(* which the scan loses its place being left aside.                        *)
KeysToldApart == EntriesRetainedElsewhere /\ DuplicateReal
=============================================================================
