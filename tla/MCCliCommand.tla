------------------------------ MODULE MCCliCommand ------------------------------
(* A bundle of an index, a concept and a directory, and each command once. *)
EXTENDS CliCommand

MCOrder == <<".agents", "AGENTS.md", "a.md", "index.md", "n.md", "reserved", "sub">>
MCDirs == {1, 2, 3, 4}
MCFiles == 1..6

Text(front, body) == [front |-> front, body |-> body]
Concept == Text("0.1", <<<<"text", "old">>>>)
Plain == Text("unversioned", <<<<"text", "kept">>>>)
Managed == Text("unversioned", <<<<"text", "kept">>, <<"start">>, <<"entries", {}>>, <<"end">>, <<"text", "tail">>>>)
Torn == Text("0.2", <<<<"end">>, <<"start">>>>)
Foreign == Text("9.9", <<>>)
Agents == Text("unversioned", <<<<"start">>, <<"text", "rules">>, <<"end">>>>)
New == Text("0.2", <<<<"text", "new">>>>)

NoEntries == [n \in ToSet(MCOrder) |-> Absent]
Free == [n \in ToSet(MCOrder) |-> <<"free">>]

Bundle(index, concept, agents) ==
  [tree |-> 1 :> ("sub" :> DirNode(2) @@ "a.md" :> FileNode(1)
                   @@ (IF index = None THEN <<>> ELSE "index.md" :> FileNode(2))
                   @@ (IF agents = None THEN <<>> ELSE "AGENTS.md" :> FileNode(3)) @@ NoEntries)
             @@ 2 :> NoEntries @@ 3 :> Free @@ 4 :> Free,
   bytes |-> [f \in MCFiles |-> CASE f = 1 -> concept [] f = 2 -> index [] f = 3 -> agents [] OTHER -> None]]

(* The skill of the agents exists as well.                                 *)
WithSkill(bundle) ==
  [bundle EXCEPT !.tree[1][".agents"] = DirNode(3), !.tree[3] = "n.md" :> FileNode(4) @@ NoEntries,
                 !.bytes[4] = Plain]

(* A concept in the directory, without a type.  An index that another      *)
(* program adds is one document too many.                                  *)
WithNested(bundle) ==
  [bundle EXCEPT !.tree[2] = "n.md" :> FileNode(5) @@ NoEntries, !.bytes[5] = Plain]

MCRoots ==
  {Bundle(None, Concept, None), WithNested(Bundle(None, Concept, None)), Bundle(Plain, Concept, Plain),
   Bundle(Managed, Concept, Managed), WithSkill(Bundle(Managed, Concept, Managed)), Bundle(Text("0.1", <<>>), Concept, None), Bundle(Torn, New, None)}

Line(name, flag, mode, paths, contested) ==
  [name |-> name, flag |-> flag, mode |-> mode, paths |-> paths, contested |-> contested]

MCCommands ==
  {Line("init", "apply", "create", {<<"index.md">>, <<"n.md">>}, {"index.md"}),
   Line("new", "apply", "create", {<<"sub", "n.md">>}, {"n.md", "index.md"}),
   Line("new", "terminal", "create", {<<".agents", "n.md">>}, {".agents", "index.md"}),
   Line("new", "none", "create", {<<"n.md">>}, {}),
   Line("new", "apply", "create", {<<"sub", "sub", "n.md">>}, {"reserved"}),
   Line("new", "apply", "create", {<<"a.md">>}, {"a.md"}),
   Line("new", "apply", "create", {<<"sub", "sub", "sub", "n.md">>}, {}),
   Line("validate", "none", "read", {}, {"a.md", "sub"}),
   Line("graph", "none", "read", {}, {}),
   Line("index", "check", "missing", {}, {"index.md"}),
   Line("index", "apply", "missing", {}, {"index.md", "a.md"}),
   Line("index", "apply", "all", {}, {"index.md"}),
   Line("agent", "apply", "both", {<<"AGENTS.md">>}, {"AGENTS.md", "index.md"}),
   Line("agent", "check", "both", {<<"AGENTS.md">>, <<".agents", "n.md">>}, {}),
   Line("migrate", "check", "none", {}, {"a.md"})}

MCGenerated ==
  [p \in UNION {c.paths : c \in MCCommands} |-> IF Last(p) = "AGENTS.md" THEN Agents ELSE New]
MCMigrated == Concept :> New
MCAttention == {New}
MCIrregular == ({"root"} \X {Plain, Managed, Torn, Foreign, Text("0.1", <<>>)}) \cup {<<"concept", Plain>>}
MCWritten == {Plain, Foreign, New}
MCTitles == <<"a.md">> :> <<>>
=============================================================================
