------------------------------ MODULE MCTemplates ------------------------------
(* Paths, metadata and index contents that show each rule of Templates.    *)
EXTENDS Templates

Given == {".", "/", "backslash", ":", " ", "a", "con", "index", "INDEX", "%", "del"}
Marks == {<<c, n>> : c \in Given, n \in 0..1} \cup {<<".", 2>>, <<"/", 2>>, <<"a", 2>>, <<"a", 3>>}
Starts == {<<>>} \cup {<<t>> : t \in Marks} \cup {<<t, u>> : t, u \in Marks}
Ends == {<<>>, Extension, <<<<".", 1>>, <<"md", 0>>>>, <<<<"a", 0>>>> \o Extension, <<Slash, <<"index", 0>>, Period, <<"MD", 0>>>>}
MCGivenPaths == {s \o e : s \in Starts, e \in Ends}

Chars == {"a", " ", "nl", "cr", "quote", "backslash", "del", "c0"}
Texts == {<<>>} \cup {<<c>> : c \in Chars} \cup {<<"a", c, "a">> : c \in Chars} \cup {<<"cr", "nl">>, <<" ", "a">>, <<"a", "a", "nl", "del">>}
MCMetadata ==
  {[AnyMetadata EXCEPT !.title = t, !.description = d] : t, d \in Texts}
    \cup {[AnyMetadata EXCEPT !.type = t, !.timestamp = d] : t, d \in Texts}
    \cup {[AnyMetadata EXCEPT !.tags = <<t, d>>] : t, d \in Texts}
    \cup {[AnyMetadata EXCEPT !.tags = <<t, t, t>>, !.description = d] : t, d \in Texts}

Letters == {<<<<"a", 0>>>>, <<<<"a", 1>>>>, <<<<" ", 0>>>>, <<<<"%", 1>>>>, <<<<"#", 0>>>>, <<<<":", 0>>>>}
ConceptFiles == {f \o Extension : f \in Letters} \cup {d \o <<Slash>> \o f \o Extension : d, f \in Letters}
                  \cup {<<<<"a", 0>>, Slash>> \o d \o <<Slash>> \o f \o Extension : d, f \in Letters}
LinkTitles == {<<>>, <<"[">>, <<"a", "backslash">>, <<"]", "nl">>}
Others == {<<<<"a", 0>>>> \o Extension, <<<<"a", 0>>, Slash, <<"a", 0>>>> \o Extension}
MCContents == {{[path |-> p, title |-> t], [path |-> q, title |-> <<"a">>]} : p \in ConceptFiles, q \in Others, t \in LinkTitles}

MCMaxValue == [type |-> 2, title |-> 2, description |-> 3, tag |-> 1, tags |-> 2, timestamp |-> 2]
=============================================================================
