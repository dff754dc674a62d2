--------------------------- MODULE MCBundleInspection ---------------------------
(* Documents of every outcome, with limits that two or three of them meet. *)
EXTENDS BundleInspection

String(s) == [is |-> "string", value |-> s]
Mapping(f) == [is |-> "mapping", fields |-> f]
Items(s) == [is |-> "list", items |-> s]

MCHumans == {"human:ann"}
MCMachines == {"process:ci"}
MCTeams == {"team:docs"}
MCBlanks == {"  "}
MCMoment == [s \in {"09:00", "09:20"} |-> IF s = "09:00" THEN 0 ELSE 20]
MCDay == [s \in {"day1", "day3"} |-> IF s = "day1" THEN 1 ELSE 3]
MCTimes == {[minute |-> 10, day |-> 2]}
MCFutureMinors == {"0.3"}
MCLimit == [r \in Resources \cup {"types", "tags"} |->
              CASE r \in {"tokens", "syntax"} -> 2 [] r = "output" -> 3 [] r = "links" -> 6 [] r \in {"types", "assignments"} -> 2
                [] r = "tags" -> 1 [] OTHER -> 1]
MCReaderFailures == {Failure("dead", <<<<"dead", 1>>>>, "read", "none")}

Md(stem) == <<stem, 1>>
Dir(name) == <<name, 0>>
Link(parts) == [form |-> "path", absolute |-> FALSE, parts |-> parts]
FromRoot(parts) == [form |-> "path", absolute |-> TRUE, parts |-> parts]
Form(form) == [form |-> form, absolute |-> FALSE, parts |-> <<>>]

Costs(c) == [r \in (FrontWork \cup BodyWork \cup Retained) \ {"links", "assignments"} |->
               IF r \in DOMAIN c THEN c[r] ELSE 0]

Doc(rank, uri, parts, more) ==
  LET raw == IF "raw" \in DOMAIN more THEN more.raw ELSE [type |-> String("Guide"), title |-> String("t"), description |-> String("d")]
  IN more @@ [uri |-> uri, rank |-> rank, form |-> "relative", parts |-> parts, faults |-> {}, hash |-> "none",
      adapter |-> "none", content |-> "text", front |-> "closed", yaml |-> "ok", cost |-> Costs(<<>>),
      type |-> ObjectString(raw, "type"), tags |-> NormalizedTags(raw), scalars |-> {}, links |-> <<>>,
      markdown |-> "ok", raw |-> raw, events |-> <<>>, headings |-> <<>>]

TaggedWith(ts) == [type |-> String("Guide"), title |-> String("t"), description |-> String("d"), tags |-> Items(ts)]
Typed(type) == [type |-> String(type), title |-> String("t"), description |-> String("d"), resource |-> String("r")]

Kept ==
  {Doc(10, "a", <<Md("a")>>, [links |-> <<Link(<<Md("b")>>), Link(<<Dir("dir"), Md("c")>>), Link(<<Dir("dir"), Md("d")>>)>>,
                                raw |-> TaggedWith(<<String("x")>>), cost |-> Costs([output |-> 1])]),
   Doc(20, "b", <<Md("b")>>, [links |-> <<FromRoot(<<Md("a")>>), Link(<<DotDot, Md("x")>>), Form("external")>>, raw |-> Typed("Guide")]),
   Doc(30, "c", <<Dir("dir"), Md("c")>>,
     [links |-> <<Link(<<DotDot, Md("b")>>), Link(<<Md("gone")>>), Link(<<Dir("none"), Blank>>)>>,
      raw |-> Typed("Table") @@ [timestamp |-> String("09:20"), verified |-> Items(<<Mapping([by |-> String("human:ann"), at |-> String("09:00")])>>)],
      hash |-> "given"]),
   Doc(31, "d", <<Dir("dir"), Md("d")>>, [content |-> "invalidUtf8"]),
   Doc(40, "e", <<Md("e")>>, [front |-> "absent", links |-> <<Link(<<Md("a")>>)>>]),
   Doc(41, "f", <<Md("f")>>, [raw |-> TaggedWith(<<String("y")>>) @@ [generated |-> String("now")],
                                links |-> <<Link(<<Dir("dir"), Md("index")>>), Link(<<Dir("dir")>>), Link(<<Md("log")>>)>>]),
   Doc(42, "g", <<Md("g")>>, [raw |-> Typed("Event"), cost |-> Costs([linkText |-> 1])]),
   Doc(43, "g2", <<Md("g2")>>, [raw |-> TaggedWith(<<String("x"), String("x")>>), cost |-> Costs([linkText |-> 1])]),
   Doc(50, "index", <<Md("index")>>, [raw |-> [okf_version |-> String("0.3"), title |-> String("t")]]),
   Doc(51, "dindex", <<Dir("dir"), Md("index")>>, [cost |-> Costs([output |-> 3]), headings |-> <<[level |-> 1, date |-> FALSE]>>]),
   Doc(52, "log", <<Md("log")>>, [front |-> "absent", headings |-> <<[level |-> 2, date |-> FALSE]>>])}

Dropped ==
  {Doc(5, "out", <<DotDot, Md("out")>>, <<>>),
   Doc(6, "abs", <<Md("abs")>>, [form |-> "absolute"]),
   Doc(7, "long", <<Md("long")>>, [faults |-> {"pathLong"}]),
   Doc(8, "bad", <<Md("bad")>>, [faults |-> {"uriUnicode", "pathLong"}]),
   Doc(21, "b2", <<Dir("x"), DotDot, Md("b")>>, <<>>),
   Doc(32, "deep", <<Dir("p"), Dir("q"), Dir("r"), Md("s")>>, <<>>),
   Doc(33, "lost", <<Dir("dir"), Md("lost")>>, [content |-> "missing", hash |-> "given"]),
   Doc(34, "marks", <<Dir("dir"), Md("marks")>>, [content |-> "twoMarks", hash |-> "given"]),
   Doc(35, "units", <<Dir("dir"), Md("units")>>, [content |-> "invalidUtf16"]),
   Doc(36, "size", <<Dir("dir"), Md("size")>>, [content |-> "tooLong"]),
   Doc(44, "text", <<Dir("notes")>>, <<>>),
   Doc(45, "hash", <<Md("hash")>>, [hash |-> "long"]),
   Doc(46, "dead", <<Md("dead")>>, [adapter |-> "read"]),
   Doc(47, "lines", <<Dir("dir"), Md("log")>>, [content |-> "tooManyLines"])}

Heavy ==
  {Doc(48, "syntax", <<Md("h")>>, [cost |-> Costs([syntax |-> 2, source |-> 1])]),
   Doc(49, "syntax2", <<Md("i")>>, [cost |-> Costs([syntax |-> 1, tokens |-> 1]), links |-> <<Link(<<Md("a")>>)>>]),
   Doc(53, "yaml", <<Md("y")>>, [yaml |-> "complex", cost |-> Costs([source |-> 1])]),
   Doc(54, "meta", <<Md("m")>>, [type |-> "Control", cost |-> Costs([tokens |-> 2])]),
   Doc(55, "open", <<Md("o")>>, [front |-> "unterminated"]),
   Doc(56, "nested", <<Md("z")>>, [markdown |-> "complex", cost |-> Costs([output |-> 2])])}

AllDocuments == Kept \cup Dropped \cup Heavy

(* Names that end in .md twice, and one that is nothing else.              *)
OddlyNamed ==
  {Doc(1, "none", <<Md("")>>, <<>>), Doc(2, "twice", <<<<"a", 2>>>>, <<>>), Doc(3, "a", <<Md("a")>>, <<>>)}

(* One document of its own exceeds the limit of the bundle.                *)
Oversized ==
  {Doc(1, "huge", <<Md("h")>>, [cost |-> Costs([syntax |-> 3]), markdown |-> "complex"]),
   Doc(2, "a", <<Md("a")>>, [cost |-> Costs([syntax |-> 1])])}
================================================================================
