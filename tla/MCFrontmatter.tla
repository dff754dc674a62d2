---------------------------- MODULE MCFrontmatter ----------------------------
(* A small instance of Frontmatter: headers of a few lines from small      *)
(* alphabets, one for each group of checks.                                *)
EXTENDS Frontmatter

MCPlainType == [t \in {"a", "b", "1", "literal", "value"} |->
                   IF t = "1" THEN "integer" ELSE "string"]

Key(tag, style, text) == [tag |-> tag, style |-> style, text |-> text]
A == Key("", "plain", "a")
B == Key("", "plain", "b")

OfKind(kind) == [NoValue EXCEPT !.kind = kind]
Scalar(scalar) == [NoValue EXCEPT !.kind = "scalar", !.scalar = scalar]
Anchor(value, name) == [value EXCEPT !.anchor = name]
Alias(name) == [NoValue EXCEPT !.kind = "alias", !.names = <<name>>]
Flow(depth, names) == [NoValue EXCEPT !.kind = "flow", !.depth = depth, !.names = names]
Braces(keys) == [NoValue EXCEPT !.kind = "braces", !.depth = 0, !.keys = keys]
SetTag == [NoValue EXCEPT !.tag = "set"]

Line(indent, dashes, key, value) ==
    [indent |-> indent, dashes |-> dashes, mark |-> FALSE, key |-> key,
     value |-> value, comment |-> FALSE]
Member(indent, scalar) ==
    [Line(indent, 0, NoScalar, Scalar(scalar)) EXCEPT !.mark = TRUE]

Headers(first, n, alphabet) ==
    {PlainDocument(<<Line(0, 0, A, first)>> \o rest) : rest \in [1..n -> alphabet]}

MCNesting ==
    Headers(NoValue, 4,
        {Line(0, 0, B, NoValue), Line(2, 0, B, NoValue), Line(0, 1, NoScalar, NoValue),
         Line(0, 1, A, NoValue), Line(2, 2, NoScalar, Scalar(A)),
         Line(4, 0, B, Flow(1, <<>>)), Line(2, 1, B, OfKind("literal"))})

MCAliases ==
    UNION {Headers(Anchor(NoValue, "x"), n,
               {Line(2, 0, A, Anchor(Flow(1, <<>>), "y")), Line(2, 0, B, Alias("y")),
                Line(4, 0, A, Alias("y")), Line(0, 0, B, Alias("x")),
                Line(0, 1, NoScalar, Alias("y")),
                Line(0, 0, Key("", "quoted", "1"), Flow(1, <<"x", "x">>)),
                Line(0, 0, B, Flow(2, <<"x", "x", "x", "x">>))}) : n \in 2..4}

MCKeys ==
    LET keys == {A, Key("", "quoted", "1"), Key("str", "plain", "1"), Key("", "plain", "1")}
    IN  Headers(NoValue, 3,
            {Line(indent, 0, key, Scalar(A)) : indent \in {0, 2, 4}, key \in keys}
            \cup {Line(indent, 1, key, NoValue) : indent \in {0, 2}, key \in keys}
            \cup {Line(2, 0, key, NoValue) : key \in keys}
            \cup {[Line(2, 0, B, NoValue) EXCEPT !.comment = TRUE],
                  Line(2, 1, A, Scalar(A)), Line(2, 1, Key("str", "plain", "1"), Scalar(A))})

MCSets ==
    Headers(SetTag, 2,
        {Member(2, Key(tag, style, text)) : tag \in {"", "str", "int"},
            style \in {"plain", "quoted"}, text \in {"a", "1"}})

MCOther ==
    {[PlainDocument(<<Line(0, 0, A, Braces(<<j, k>>))>>) EXCEPT !.opened = o] :
        j, k \in {A, Key("", "quoted", "1"), Key("str", "plain", "1")}, o \in BOOLEAN}
    \cup {PlainDocument(<<Line(0, 0, A, Anchor(Braces(<<A, B>>), "x")),
                          Line(0, 0, B, Flow(2, <<"x", "x", "x">>))>>)}
    \cup {[PlainDocument(<<>>) EXCEPT !.closed = c, !.second = s, !.fault = f, !.units = u, !.bytes = b] :
            c, s \in BOOLEAN, f \in {"none", "comment separator", "non-finite number"},
            u, b \in {1, 9}}

MCSources == MCNesting \cup MCAliases \cup MCKeys \cup MCSets \cup MCOther
=============================================================================
