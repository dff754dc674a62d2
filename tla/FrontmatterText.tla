--------------------------- MODULE FrontmatterText ---------------------------
(***************************************************************************)
(* What the frontmatter reader (src/crates/okf-core/src/parser.rs) finds   *)
(* out about the text of a YAML header before the YAML library sees it:    *)
(* its size and nesting, what its aliases expand to, the keys it repeats   *)
(* and the keys that are no strings.  All of it is worked out line by      *)
(* line, from indentation and punctuation, without parsing YAML.           *)
(*                                                                         *)
(* A line is a record: its indentation, the number of dashes it starts     *)
(* with, whether a question mark follows (a member of a set), its key, the *)
(* value after it, and whether a comment ends it.  Blank lines and lines   *)
(* of comment only are skipped by every scanner and are not represented;   *)
(* nor are scalars and flow collections of several lines, keys with        *)
(* anchors, and explicit keys outside a set.                               *)
(***************************************************************************)
EXTENDS Integers, Sequences, FiniteSets, FiniteSetsExt, SequencesExt

CONSTANTS
    PlainType,    \* what an unquoted text is: "string", "integer" or "null"
    MaxNesting,   \* MAX_FRONTMATTER_NESTING_DEPTH
    MaxAliases,   \* MAX_ALIAS_EXPANSIONS
    MaxLines,     \* MAX_FRONTMATTER_LINES
    MaxIndent,    \* MAX_FRONTMATTER_INDENT_COLUMNS
    MaxTokens     \* MAX_FRONTMATTER_STRUCTURAL_TOKENS

(* A scalar, as a key, a member or a value: its tag ("", "str" or "int"),  *)
(* its style ("plain" or "quoted") and its text.                           *)
NoScalar == [tag |-> "", style |-> "none", text |-> ""]

(* A value: "none", "scalar", "alias" (names has one), "flow" (nested      *)
(* sequences around the aliases in names), "braces" (a flow mapping with   *)
(* these keys) or "literal".                                               *)
NoValue == [kind |-> "none", anchor |-> "", tag |-> "", scalar |-> NoScalar,
            names |-> <<>>, depth |-> 0, keys |-> <<>>]

IsItem(line) == line.dashes > 0
HasKey(line) == line.key # NoScalar
Bit(condition) == IF condition THEN 1 ELSE 0

-----------------------------------------------------------------------------
(* Size and nesting *)

(* The content of a literal starts at the indentation of the first deeper  *)
(* line, wherever that is, and ends before the first line that has less.   *)
ContentIndent(lines, i) ==
    LET deeper == {j \in (i + 1)..Len(lines) : lines[j].indent > lines[i].indent}
    IN  IF deeper = {} THEN lines[i].indent + 1 ELSE lines[Min(deeper)].indent

LiteralLines(lines) ==
    LET content(i) == {j \in (i + 1)..Len(lines) :
                          \A k \in (i + 1)..j :
                              lines[k].indent >= ContentIndent(lines, i)}
    IN  UNION {content(i) : i \in {j \in DOMAIN lines : lines[j].value.kind = "literal"}}

(* The lines a scanner looks at, in order. *)
Scanned(lines) ==
    SetToSortSeq(DOMAIN lines \ LiteralLines(lines), LAMBDA i, j : i < j)

ScalarTokens(scalar) ==
    (IF scalar.tag = "" THEN 0 ELSE 2) + (IF scalar.style = "quoted" THEN 2 ELSE 0)

(* Punctuation counted by yaml_structural_token_count. *)
LineTokens(line) ==
    LET value == line.value
    IN  line.dashes + Bit(line.mark) + Bit(line.comment)
        + ScalarTokens(line.key) + Bit(HasKey(line)) + ScalarTokens(value.scalar)
        + Bit(value.anchor # "") + 2 * Bit(value.tag # "")
        + Bit(value.kind = "literal") + Len(value.names)
        + 2 * value.depth + 2 * Bit(value.kind = "braces")
        + MapThenSumSet(LAMBDA k : 1 + ScalarTokens(value.keys[k]), DOMAIN value.keys)

Tokens(lines) == MapThenSumSet(LAMBDA i : LineTokens(lines[i]), DOMAIN lines)

(* Mutant of BlocksOf: only the first dash is counted. *)
FirstDashOnly(line) == Bit(IsItem(line)) + Bit(HasKey(line))

(* Collections a line opens: one for each dash, one for a key. *)
BlocksOf(line) == line.dashes + Bit(HasKey(line))

FlowDepth(value) ==
    IF value.kind = "braces" THEN 1 ELSE value.depth

(* One line of the nesting scan: the stack keeps, for every line that      *)
(* opened a collection and is less indented than this one, its indentation *)
(* and depth; a line as indented as another closes it.                     *)
NestingStep(scan, line) ==
    LET kept == SelectSeq(scan.stack, LAMBDA e : e.indent < line.indent)
        parent == IF kept = <<>> THEN -1 ELSE Last(kept).depth
        depth == parent + BlocksOf(line)
    IN  [stack |-> IF BlocksOf(line) = 0 THEN kept
                   ELSE Append(kept, [indent |-> line.indent, depth |-> depth]),
         deepest |-> Max({scan.deepest, depth + FlowDepth(line.value)})]

NestingFound(lines) ==
    FoldLeft(LAMBDA scan, i : NestingStep(scan, lines[i]),
             [stack |-> <<>>, deepest |-> -1], Scanned(lines)).deepest

TooComplex(lines) ==
    \/ Len(lines) > MaxLines
    \/ \E i \in DOMAIN lines : lines[i].indent > MaxIndent
    \/ Tokens(lines) > MaxTokens
    \/ NestingFound(lines) > MaxNesting

-----------------------------------------------------------------------------
(* Aliases *)

AliasesOf(value) == IF value.kind \in {"alias", "flow"} THEN value.names ELSE <<>>

(* Every alias of the text, as its line and its place on the line. *)
Aliases(lines) ==
    {<<i, k>> \in (DOMAIN lines \ LiteralLines(lines)) \X (1..MaxTokens) :
        k \in DOMAIN AliasesOf(lines[i].value)}

(* The line of the latest anchor of that name before the alias, or 0. *)
AnchorBefore(lines, alias) ==
    LET name == AliasesOf(lines[alias[1]].value)[alias[2]]
        bound == {i \in 1..alias[1] : /\ i \notin LiteralLines(lines)
                                      /\ lines[i].value.anchor = name}
    IN  IF bound = {} THEN 0 ELSE Max(bound)

(* Mutant of AnchoredLines: every node ends with the first line it is on.  *)
FirstAnchoredLine(lines, i) ==
    IF lines[i].value.kind # "none" THEN {i} ELSE {i + 1} \cap DOMAIN lines

(* The lines of an anchored node.  A node on the line of its anchor ends   *)
(* with it.  One that starts on a later line ends before the first line    *)
(* that is less indented than its own first line.                          *)
AnchoredLines(lines, i) ==
    LET next == i + 1
        ends == {j \in (next + 1)..Len(lines) : lines[j].indent < lines[next].indent}
    IN  IF lines[i].value.kind # "none" THEN {i}
        ELSE IF next > Len(lines) THEN {}
        ELSE next..((IF ends = {} THEN Len(lines) + 1 ELSE Min(ends)) - 1)

(* What one alias expands to: itself and the aliases of the node it stands *)
(* for; an alias of a node inside itself counts once.                      *)
RECURSIVE AliasCost(_, _, _)
AliasCost(lines, alias, visiting) ==
    LET anchor == AnchorBefore(lines, alias)
        nested == {a \in Aliases(lines) : a[1] \in AnchoredLines(lines, anchor)}
        cost == MapThenSumSet(
                    LAMBDA a : AliasCost(lines, a, visiting \cup {anchor}), nested)
    IN  IF anchor = 0 \/ anchor \in visiting THEN 1
        ELSE Min({1 + cost, MaxAliases + 1})

ExpandedAliases(lines) ==
    MapThenSumSet(LAMBDA a : AliasCost(lines, a, {}), Aliases(lines))

(* Too many aliases none of which expands to another are refused only      *)
(* after the header has been read.                                         *)
FlatExcess(lines) ==
    /\ ExpandedAliases(lines) > MaxAliases
    /\ ExpandedAliases(lines) = Cardinality(Aliases(lines))

NestedExcess(lines) ==
    ExpandedAliases(lines) > MaxAliases /\ ~FlatExcess(lines)

(* Units of the scalars the aliases stand for; every text is one unit.     *)
AliasUnits(lines) ==
    Cardinality({a \in Aliases(lines) :
        LET anchor == AnchorBefore(lines, a)
        IN  /\ anchor # 0
            /\ AnchoredLines(lines, anchor) # {}
            /\ lines[anchor].value.kind \notin {"flow", "braces", "literal"}})

-----------------------------------------------------------------------------
(* Keys *)

(* What a tagged scalar means.  A text that is no integer stays a string   *)
(* under the integer tag, and quoting does not matter under a tag.         *)
TagSemantic(scalar) ==
    IF scalar.tag = "int" /\ PlainType[scalar.text] = "integer"
    THEN <<"number", scalar.text>> ELSE <<"string", scalar.text>>

Plainly(scalar) ==
    IF scalar.style = "quoted" THEN <<"string", scalar.text>>
    ELSE IF PlainType[scalar.text] = "integer" THEN <<"number", scalar.text>>
    ELSE IF PlainType[scalar.text] = "null" THEN <<"null">>
    ELSE <<"string", scalar.text>>

KeyValue(scalar) ==
    IF scalar.tag # "" THEN TagSemantic(scalar) ELSE Plainly(scalar)

IsStringKey(scalar) == KeyValue(scalar)[1] = "string"

(* Mutant of KeyIdentity: by the way they are written. *)
KeySpelling(scalar) == <<scalar.tag, scalar.style, scalar.text>>

(* How the duplicate scan tells two keys apart: by what they mean. *)
KeyIdentity(scalar) == KeyValue(scalar)

(* Containers that end before a line of this indentation: deeper ones, and *)
(* of those at the same column an item always, a mapping unless the line   *)
(* is an item of the sequence it holds.                                    *)
RECURSIVE StillOpen(_, _)
StillOpen(open, line) ==
    IF open = <<>> THEN open
    ELSE LET top == Last(open)
         IN  IF \/ top.indent > line.indent
                \/ top.indent = line.indent /\ (top.item \/ ~IsItem(line))
             THEN StillOpen(Front(open), line)
             ELSE open

ScopeOf(open) == [i \in DOMAIN open |-> open[i].name]

(* Mutant of WithItem: the items of a sequence are not told apart.         *)
SameItem(scan, line) ==
    LET open == StillOpen(scan.open, line)
        item == [indent |-> line.indent, item |-> TRUE, name |-> <<"item", 0>>]
    IN  IF IsItem(line) THEN [scan EXCEPT !.open = Append(open, item)]
        ELSE [scan EXCEPT !.open = open]

(* Items are numbered per sequence, a sequence being where it is written.  *)
WithItem(scan, line) ==
    LET open == StillOpen(scan.open, line)
        sequence == <<line.indent, ScopeOf(open)>>
        index == Cardinality({n \in scan.items : n[1] = sequence})
    IN  IF ~IsItem(line) THEN [scan EXCEPT !.open = open]
        ELSE [scan EXCEPT
                 !.open = Append(open, [indent |-> line.indent, item |-> TRUE,
                                        name |-> <<"item", index>>]),
                 !.items = @ \cup {<<sequence, index>>}]

(* A key whose value is on later lines opens a container; with a comment   *)
(* after it, only if it carries an anchor or a tag.                        *)
OpensContainer(line) ==
    /\ line.value.kind = "none"
    /\ ~line.comment \/ line.value.anchor # "" \/ line.value.tag # ""

(* One line of the duplicate scan.  Members of sets are left out, and so   *)
(* are keys behind two dashes and tagged keys that are no strings.         *)
DuplicateStep(scan, line) ==
    LET below == WithItem(scan, line)
        key == <<ScopeOf(below.open), KeyIdentity(line.key)>>
        tracked == /\ HasKey(line) /\ line.dashes < 2 /\ ~line.mark
                   /\ line.key.tag = "" \/ IsStringKey(line.key)
    IN  IF ~tracked THEN below
        ELSE [below EXCEPT
                 !.found = @ \/ key \in below.keys,
                 !.keys = @ \cup {key},
                 !.open = IF OpensContainer(line)
                          THEN Append(@, [indent |-> line.indent + Bit(IsItem(line)),
                                          item |-> FALSE,
                                          name |-> <<"key", line.key.text>>])
                          ELSE @]

DuplicateBlockKey(lines) ==
    FoldLeft(LAMBDA scan, i : DuplicateStep(scan, lines[i]),
             [open |-> <<>>, items |-> {}, keys |-> {}, found |-> FALSE],
             Scanned(lines)).found

DuplicateFlowKey(lines) ==
    \E i \in DOMAIN lines \ LiteralLines(lines) :
        LET keys == lines[i].value.keys
        IN  \E j, k \in DOMAIN keys :
                j < k /\ KeyValue(keys[j]) = KeyValue(keys[k])

DuplicateKey(lines) == DuplicateFlowKey(lines) \/ DuplicateBlockKey(lines)

NonStringFlowKey(lines) ==
    \E i \in DOMAIN lines \ LiteralLines(lines) :
        \E k \in DOMAIN lines[i].value.keys : ~IsStringKey(lines[i].value.keys[k])

(* A key behind two dashes is taken for a sequence. *)
NonStringKey(lines) ==
    \/ NonStringFlowKey(lines)
    \/ \E i \in DOMAIN lines \ LiteralLines(lines) :
           HasKey(lines[i]) /\ (lines[i].dashes > 1 \/ ~IsStringKey(lines[i].key))

-----------------------------------------------------------------------------
(* Members of sets *)

OpensSet(line) ==
    /\ line.value.tag = "set" /\ line.value.kind = "none"
    /\ IsItem(line) \/ HasKey(line)

(* The lines of the block below line i. *)
BlockBelow(lines, i) ==
    {j \in (i + 1)..Len(lines) : \A k \in (i + 1)..j : lines[k].indent > lines[i].indent}

(* Members are the marked lines as indented as the first line below.       *)
Members(lines, i) ==
    {j \in BlockBelow(lines, i) : /\ lines[j].mark /\ lines[j].value.kind = "scalar"
                                   /\ lines[j].indent = lines[i + 1].indent}

(* Two members of a set are the same if they mean the same. *)
SameMember(one, other) == KeyValue(one.value.scalar) = KeyValue(other.value.scalar)

DuplicateMember(lines) ==
    \E i \in {n \in DOMAIN lines : OpensSet(lines[n])} :
        \E j, k \in Members(lines, i) : j < k /\ SameMember(lines[j], lines[k])
=============================================================================
