-------------------------- MODULE FrontmatterValue --------------------------
(***************************************************************************)
(* The value of a YAML header: what the YAML library (external) reads from *)
(* the lines of FrontmatterText, with the tags masked as the reader masks  *)
(* them, and the JSON value the reader (src/crates/okf-core/src/parser.rs) *)
(* makes of it.                                                            *)
(*                                                                         *)
(* YAML values: <<"null">>, <<"number", text>>, <<"string", text>>,        *)
(* <<"sequence", values>>, <<"mapping", entries>> with entries <<key,      *)
(* value>>, <<"tagged", tag, value>>.  JSON values: <<"null">>,            *)
(* <<"number", text>>, <<"string", text>>, <<"array", values>>,            *)
(* <<"object", function from keys>>, <<"tag", name, value>> for the        *)
(* wrapper that keeps a tag, and Refused for the conversions that fail.    *)
(***************************************************************************)
EXTENDS FrontmatterText

Refused == <<"refused">>

-----------------------------------------------------------------------------
(* External: the structure YAML gives the lines.                           *)
(* Every dash, key and member is an entry of a collection; its path is the *)
(* path of the entry the collection belongs to, and its own kind and       *)
(* place.  A frame is the last entry of a collection that is still open:   *)
(* its column, its path and whether it may still hold a collection.        *)

TokensOf(line) ==
    [k \in 1..line.dashes |-> [column |-> line.indent + 2 * (k - 1), kind |-> "item"]]
    \o (IF HasKey(line) THEN <<[column |-> line.indent + 2 * line.dashes, kind |-> "key"]>>
        ELSE IF line.mark
        THEN <<[column |-> line.indent + 2 * line.dashes, kind |-> "member"]>>
        ELSE <<>>)

(* The entry that follows the frame's, and the first one below it. *)
NextPath(frame, kind) == Append(Front(frame.path), <<kind, Last(frame.path)[2] + 1>>)
FirstPath(frames, kind) ==
    Append(IF frames = <<>> THEN <<>> ELSE Last(frames).path, <<kind, 1>>)

(* Whether the last frame may hold a collection that starts here. *)
MayHold(frames) == IF frames = <<>> THEN TRUE ELSE Last(frames).holds

(* One token: it continues the collection at its column, or ends a         *)
(* sequence written at the column of the key that holds it, or starts a    *)
(* collection in the entry before it.  holds says whether its own value    *)
(* is still to come.                                                       *)
PlaceToken(reading, token, line, holds) ==
    LET frames == SelectSeq(reading.frames, LAMBDA f : f.column <= token.column)
        top == Last(frames)
        same == frames # <<>> /\ top.column = token.column
        flush == same /\ Last(top.path)[1] = "item" /\ token.kind # "item"
        rest == IF flush THEN Front(frames) ELSE frames
        base == Last(rest)
        nextOne == /\ rest # <<>> /\ base.column = token.column
                   /\ Last(base.path)[1] = token.kind
        startOk == \/ rest = <<>>
                   \/ base.column < token.column
                   \/ Last(base.path)[1] = "key" /\ token.kind = "item"
        path == IF nextOne THEN NextPath(base, token.kind)
                ELSE FirstPath(rest, token.kind)
        frame == [column |-> token.column, path |-> path, holds |-> holds]
        held == IF rest = <<>> THEN rest
                ELSE [rest EXCEPT ![Len(rest)].holds = FALSE]
    IN  [ok |-> reading.ok /\ (nextOne \/ (startOk /\ MayHold(rest))),
         frames |-> IF nextOne THEN Append(Front(rest), frame) ELSE Append(held, frame),
         entries |-> Append(reading.entries, [path |-> path, line |-> line])]

PlaceLine(reading, lines, i) ==
    LET tokens == TokensOf(lines[i])
        holds(k) == k < Len(tokens) \/ (~lines[i].mark /\ lines[i].value.kind = "none")
    IN  FoldLeft(LAMBDA r, k : PlaceToken(r, tokens[k], i, holds(k)),
                 [reading EXCEPT !.ok = @ /\ tokens # <<>>], [k \in DOMAIN tokens |-> k])

(* The content of a literal: what is deeper than its key. *)
LiteralContent(lines) ==
    UNION {{j \in (i + 1)..Len(lines) :
               \A k \in (i + 1)..j :
                   lines[k].indent > lines[i].indent + 2 * lines[i].dashes} :
           i \in {n \in DOMAIN lines : lines[n].value.kind = "literal"}}

Structure(lines) ==
    FoldLeft(LAMBDA reading, i : PlaceLine(reading, lines, i),
             [ok |-> TRUE, frames |-> <<>>, entries |-> <<>>],
             SetToSortSeq(DOMAIN lines \ LiteralContent(lines), LAMBDA i, j : i < j))

EntriesBelow(entries, path) == SelectSeq(entries, LAMBDA e : Front(e.path) = path)

(* The node of a line is the node of its last entry. *)
PathOfLine(entries, line) ==
    SelectLastInSeq(entries, LAMBDA e : e.line = line)

(* Every alias has its anchor, and none stands inside its own. *)
Resolved(lines, entries) ==
    \A a \in Aliases(lines) :
        LET anchor == AnchorBefore(lines, a)
        IN  /\ anchor # 0
            /\ ~IsPrefix(entries[PathOfLine(entries, anchor)].path,
                         entries[PathOfLine(entries, a[1])].path)

-----------------------------------------------------------------------------
(* YAML values *)

(* A tag on a scalar is masked by a private one, so that the library does  *)
(* not resolve it: the text is then kept as it would be without the tag.   *)
MaskedTag(tag) == [str |-> "!ostr", int |-> "!oint"][tag]

SerdeScalar(scalar) ==
    IF scalar.tag = "" THEN Plainly(scalar)
    ELSE <<"tagged", MaskedTag(scalar.tag), Plainly([scalar EXCEPT !.tag = ""])>>

(* A masked key whose tag makes it a string is quoted as well. *)
SerdeKey(scalar) ==
    IF scalar.tag # "" /\ IsStringKey(scalar)
    THEN <<"tagged", MaskedTag(scalar.tag), <<"string", scalar.text>>>>
    ELSE SerdeScalar(scalar)

RECURSIVE Bracketed(_, _)
Bracketed(values, depth) ==
    IF depth <= 1 THEN <<"sequence", values>>
    ELSE <<"sequence", <<Bracketed(values, depth - 1)>>>>

(* A set is handed over as a tagged sequence of mappings of one key and no *)
(* value, so that the library does not compare its members.                *)
SerdeSet(members) ==
    <<"tagged", "!oset",
      <<"sequence", [i \in DOMAIN members |->
                        <<"mapping", <<<<members[i], <<"null">>>>>>>>]>>>>

RECURSIVE YamlNode(_, _, _)
YamlNode(lines, entries, path) ==
    LET below == EntriesBelow(entries, path)
        node(i) == YamlNode(lines, entries, below[i].path)
        line(e) == lines[e.line]
        self == CHOOSE e \in Range(entries) : e.path = path
        value == line(self).value
        anchored(k) ==
            LET anchor == AnchorBefore(lines, <<self.line, k>>)
            IN  YamlNode(lines, entries, entries[PathOfLine(entries, anchor)].path)
    IN  IF below # <<>> THEN
            CASE Last(below[1].path)[1] = "key" ->
                    <<"mapping", [i \in DOMAIN below |->
                        <<SerdeKey(line(below[i]).key), node(i)>>]>>
              [] Last(below[1].path)[1] = "item" ->
                    <<"sequence", [i \in DOMAIN below |-> node(i)]>>
              [] Last(below[1].path)[1] = "member" ->
                    SerdeSet([i \in DOMAIN below |->
                        SerdeScalar(line(below[i]).value.scalar)])
        ELSE CASE value.kind = "none" -> <<"null">>
               [] value.kind = "literal" -> <<"string", "literal">>
               [] value.kind = "scalar" -> SerdeScalar(value.scalar)
               [] value.kind = "alias" -> anchored(1)
               [] value.kind = "flow" ->
                    Bracketed([k \in DOMAIN value.names |-> anchored(k)], value.depth)
               [] value.kind = "braces" ->
                    <<"mapping", [k \in DOMAIN value.keys |->
                        <<SerdeKey(value.keys[k]), <<"string", "value">>>>]>>

(* The library refuses a mapping that repeats a key, masked tags and all.  *)
RECURSIVE RepeatsKey(_)
RepeatsKey(node) ==
    CASE node[1] = "mapping" ->
            \/ \E i, j \in DOMAIN node[2] : i < j /\ node[2][i][1] = node[2][j][1]
            \/ \E i \in DOMAIN node[2] : RepeatsKey(node[2][i][2])
      [] node[1] = "sequence" -> \E i \in DOMAIN node[2] : RepeatsKey(node[2][i])
      [] node[1] = "tagged" -> RepeatsKey(node[3])
      [] OTHER -> FALSE

-----------------------------------------------------------------------------
(* JSON values *)

SourceText(scalar) == IF scalar[1] = "null" THEN "null" ELSE scalar[2]

IsScalar(node) == node[1] \in {"null", "number", "string"}

(* A key under a masked tag: its text under the string tag, and under the  *)
(* integer tag unless it is an integer.                                    *)
InternalScalarTaggedStringKey(tag, value) ==
    IF ~IsScalar(value) \/ (tag = "!oint" /\ PlainType[SourceText(value)] = "integer")
    THEN Refused ELSE <<"string", SourceText(value)>>

(* The string a YAML key becomes, or Refused. *)
YamlStringMappingKey(key) ==
    IF key[1] = "string" THEN key
    ELSE IF key[1] = "tagged" THEN InternalScalarTaggedStringKey(key[2], key[3])
    ELSE Refused

(* All converted, or refused as soon as one is. *)
AllOf(values) ==
    IF Refused \in Range(values) THEN Refused ELSE <<"array", values>>

(* A later entry of the same key takes the place of the earlier one. *)
Inserted(object, key, value) ==
    [k \in DOMAIN object \cup {key} |-> IF k = key THEN value ELSE object[k]]

NoKeys == [k \in {} |-> Refused]

(* What the masked tag makes of the text it was on. *)
MaskedSemantic(tag, value, converted) ==
    IF tag = "!ostr" /\ IsScalar(value) THEN <<"string", SourceText(value)>>
    ELSE IF /\ tag = "!oint" /\ IsScalar(value)
            /\ PlainType[SourceText(value)] = "integer"
    THEN <<"number", SourceText(value)>>
    ELSE converted

Wrapped(tag, value) == IF value = Refused THEN Refused ELSE <<"tag", tag, value>>

(* yaml_to_json: a mapping with a key that is no string is refused, unless *)
(* none of its values is anything, and then it is the list of its keys; a  *)
(* set is the list of the keys of its one-entry mappings.                  *)
RECURSIVE YamlToJson(_)
YamlToJson(node) ==
    LET entries == node[2]
        keys == [i \in DOMAIN entries |-> YamlStringMappingKey(entries[i][1])]
        values == [i \in DOMAIN entries |-> YamlToJson(entries[i][2])]
        entry(i) == node[3][2][i][2]
    IN  CASE IsScalar(node) -> node
          [] node[1] = "sequence" -> AllOf([i \in DOMAIN node[2] |-> YamlToJson(node[2][i])])
          [] node[1] = "mapping" ->
                IF Refused \in Range(keys) THEN
                    IF \A i \in DOMAIN entries : entries[i][2] = <<"null">>
                    THEN AllOf([i \in DOMAIN entries |-> YamlToJson(entries[i][1])])
                    ELSE Refused
                ELSE IF Refused \in Range(values) THEN Refused
                ELSE <<"object",
                       FoldLeft(LAMBDA object, i : Inserted(object, keys[i][2], values[i]),
                                NoKeys, [i \in DOMAIN entries |-> i])>>
          [] node[1] = "tagged" /\ node[2] = "!oset" ->
                IF \E i \in DOMAIN node[3][2] :
                       Len(entry(i)) # 1 \/ entry(i)[1][2] # <<"null">>
                THEN Refused
                ELSE Wrapped("set", AllOf([i \in DOMAIN node[3][2] |->
                                              YamlToJson(entry(i)[1][1])]))
          [] node[1] = "tagged" /\ node[2] # "!oset" ->
                Wrapped(node[2], MaskedSemantic(node[2], node[3], YamlToJson(node[3])))

(* The size of a JSON value, every text being one unit long: a wrapper     *)
(* counts its tag and the text it keeps besides its value.                 *)
RECURSIVE OutputUnits(_)
ContentUnits(json) ==
    CASE json[1] = "null" -> 1
      [] json[1] = "number" -> 8
      [] json[1] = "string" -> 1
      [] json[1] = "array" ->
            MapThenSumSet(LAMBDA i : 1 + OutputUnits(json[2][i]), DOMAIN json[2])
      [] json[1] = "object" ->
            MapThenSumSet(LAMBDA k : 2 + OutputUnits(json[2][k]), DOMAIN json[2])
OutputUnits(json) ==
    IF json[1] = "tag" THEN 4 + 1 + Bit(IsScalar(json[3])) + ContentUnits(json[3])
    ELSE 1 + ContentUnits(json)
=============================================================================
