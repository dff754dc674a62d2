------------------------------ MODULE MCMigration ------------------------------
(* A root index and a concept or two, whose frontmatter and body show each *)
(* case of the migration.                                                  *)
EXTENDS Migration

Field(key, style, value) == <<"field", key, style, value>>
Type == Field("type", "plain", "concept")
Stamp(style) == Field("timestamp", style, "date")
OldSources == Field("sources", "block", <<"old">>)
Deeper == <<"deeper">>
Gap == <<"gap">>

L(record) == <<"body", record>>
Heading(title) == L([PlainLine EXCEPT !.title = title, !.mentions = title = "Citations"])
Url(u) == L([PlainLine EXCEPT !.url = u])
Code == L([PlainLine EXCEPT !.url = "code", !.deep = TRUE])
Prose == L(PlainLine)
Blank == L([PlainLine EXCEPT !.blank = TRUE, !.ends = {"blank"}])
Ticks(n, bare) == L([PlainLine EXCEPT !.fence = <<"tick", n>>, !.bare = bare])
Comment(ends) == L([PlainLine EXCEPT !.html = "comment", !.ends = ends])
Division == L([PlainLine EXCEPT !.html = "blank", !.mentions = TRUE])

Text(bom, front, body) == (IF bom THEN <<Bom>> ELSE <<>>) \o <<Fence>> \o front \o <<Fence>> \o body

Fronts ==
  {<<Type>>, <<Type, Stamp("plain")>>, <<Stamp("plain"), Gap, Type>>, <<Stamp("plain"), Gap, Deeper, Type>>,
   <<Stamp("anchored"), Deeper, Type>>, <<Type, Stamp("plain"), Field("generated", "plain", "date")>>,
   <<Type, Field("timestamp", "plain", "yesterday")>>, <<Type, Stamp("plain"), OldSources>>,
   <<<<"flow", [type |-> "concept", timestamp |-> "date"]>>>>, <<<<"flow", [type |-> "concept"]>>>>,
   <<Type, Stamp("plain"), Field("x", "plain", "x"), Field("y", "plain", "y"), Field("z", "plain", "z")>>}

Bodies ==
  {<<>>, <<Heading("Citations"), Url("a"), Url("b"), Url("a")>>, <<Prose, Heading("Citations"), Code, Url("a"), Heading("Other"), Url("b")>>,
   <<Heading("Citations"), Url("a"), Prose>>, <<Heading("Citations"), Blank>>,
   <<Ticks(4, TRUE), Heading("Citations"), Url("a"), Ticks(3, TRUE), Ticks(4, FALSE), Ticks(5, TRUE), Prose>>,
   <<Heading("Citations"), Ticks(3, FALSE), Url("a"), Ticks(3, TRUE)>>,
   <<Comment({}), Heading("Citations"), Url("a"), Comment({"comment"}), Prose>>,
   <<Division, Url("a"), Blank, Prose>>, <<Heading("Citations"), Url("a"), Heading("Other"), Fence>>}

Concepts == {Text(b, f, t) : b \in BOOLEAN, f \in Fronts, t \in Bodies}

Version(style, value) == Text(FALSE, <<Field("okf_version", style, value)>>, <<Prose>>)

Indexes ==
  {Version("plain", "0.1"), Version("plain", "0.2"), Version("anchored", "0.1"), Version("plain", "0.9"),
   Text(TRUE, <<Gap, Field("okf_version", "plain", "0.1"), Field("title", "plain", "mine")>>, <<>>)}

Document(path, text) == [path |-> path, text |-> text]

Second == Text(FALSE, <<Type, Stamp("plain")>>, <<Heading("Citations"), Url("c")>>)

MCBundles ==
  {<<Document("index.md", i), Document("a.md", a)>> : i \in Indexes, a \in Concepts}
    \cup {<<Document("a.md", a), Document("index.md", Version("plain", "0.1")), Document("b.md", Second)>> :
            a \in {Text(FALSE, f, t) : f \in Fronts, t \in Bodies}}
    \cup {<<Document("index.md", Version("plain", "0.1")), Document("a.md", Second), Document("log.md", log)>> :
            log \in {<<Prose>>, <<>>, <<Fence, Gap, Fence, Prose>>, <<Bom, Fence, Prose>>}}
    \cup {<<Document("index.md", <<Prose>>), Document("a.md", Second)>>,
          <<Document("index.md", Version("plain", "0.1")), Document("a.md", Unreadable)>>,
          <<Document("a.md", Second), Document("a.md", Second)>>, <<Document("a.md", Second)>>}
=============================================================================
