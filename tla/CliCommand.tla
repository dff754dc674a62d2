------------------------------ MODULE CliCommand ------------------------------
(***************************************************************************)
(* One run of the okf command on a bundle that exists, while other         *)
(* programs change the bundle (crates/okf-cli/src/main.rs; load_bundle,    *)
(* load_root_index, plan_files and apply_plan in                           *)
(* crates/okf-cli/src/workspace.rs).  Roots that do not exist yet are      *)
(* published as a whole: RootPublication and WindowsPublication.           *)
(*                                                                         *)
(* A directory maps names to nodes: <<"absent">>, <<"link">>, <<"file", f>> *)
(* and <<"dir", d>>, where f and d stand for the identity (device and      *)
(* inode, or volume and file index).  A handle is such an identity; what   *)
(* it leads to stays readable after its name is gone.  On Windows handles  *)
(* also deny others to write or to remove what they hold.                  *)
(***************************************************************************)
EXTENDS ManagedText

CONSTANTS
  Order,        \* all names, in the order directories are read
  Markdown,     \* those with the extension md
  Portable,     \* those that every file system can hold
  AgentsDir, AgentsName,  \* .agents and AGENTS.md
  Reservation,  \* .okf-workbench-staging.tmp
  MaxSegments, MaxDocuments,  \* the limits of these names
  Platforms,    \* "unix" and "windows", or one of them
  Roots,        \* bundles: records of tree and bytes
  Commands,     \* command lines: records of name, of flags and of what it needs
  Generated,    \* what templates render: a concept, the agent files
  Migrated,     \* what migration makes of a document
  Attention,    \* documents whose migration a person must complete
  Irregular,    \* pairs of a kind of document and a text that validation objects to
  Written,      \* what other programs write
  Dirs, Files,  \* identities
  MaxMeddling   \* bound: what other programs do

VARIABLES
  platform,
  root,       \* what the requested path leads to: a directory, or 0 for a link
  tree,       \* the entries of each directory
  bytes,      \* the content of each file
  command,    \* the command line
  run,        \* the state of the command
  published,  \* ghost: the entries the command created
  gated,      \* ghost: the root index in place when the version gate read it
  seen,       \* ghost: the directories that names led to while the plan was applied
  meddling    \* counts what MaxMeddling bounds

vars == <<platform, root, tree, bytes, command, run, published, gated, seen, meddling>>

Absent == <<"absent">>

LinkNode == <<"link">>

FileNode(f) == <<"file", f>>

DirNode(d) == <<"dir", d>>

None == [front |-> "none", body |-> <<>>]

Empty == [front |-> "absent", body |-> <<>>]

Names == ToSet(Order)

(* What a name can stand for; <<"free">> in a directory yet to be created.  *)
Nodes ==
  {Absent, LinkNode, <<"free">>} \cup {FileNode(f) : f \in Files} \cup {DirNode(d) : d \in Dirs}

ASSUME PlatformsAssumption == Platforms \subseteq {"unix", "windows"}

(* The names are in one order, each of them once.                          *)
ASSUME OrderAssumption == Order \in Seq(ToSet(Order)) /\ \A i, j \in DOMAIN Order : Order[i] = Order[j] => i = j

(* The parser of the command line refuses a migration without --check, and *)
(* only knows these flags of commands that plan.                           *)
(* What a template renders is few files; the one for agents has one region. *)
ASSUME CommandsAssumption ==
  \A c \in Commands :
    /\ c.name = "migrate" => c.flag = "check"
    /\ c.name \in {"validate", "graph"} => c.flag = "none"
    /\ IsFiniteSet(c.paths) /\ c.paths \subseteq Seq(Names) \ {<<>>}
    /\ c.name = "agent" /\ <<AgentsName>> \in c.paths => MarkedOnce(Generated[<<AgentsName>>])

(* A bundle to begin with: files that have a name have a content.          *)
ASSUME RootsAssumption ==
  /\ 1 \in Dirs /\ 0 \notin Dirs /\ {IndexName, Reservation} \subseteq ToSet(Order)
  /\ \A r \in Roots :
       /\ r.tree \in [Dirs -> [ToSet(Order) -> Nodes]]
       /\ r.bytes = [f \in Files |-> r.bytes[f]]
       /\ \A d \in Dirs, n \in ToSet(Order) :
            r.tree[d][n][1] = "file" => r.bytes[r.tree[d][n][2]] # None
       /\ \A f \in Files : IsText(r.bytes[f])

ASSUME WrittenAssumption == None \notin Written /\ \A text \in Written : IsText(text)

(* One name further; "unsafe" beyond a link or a file.                     *)
Enter(node, name) ==
  IF node[1] = "dir" THEN tree[node[2]][name] ELSE IF node = Absent THEN Absent ELSE <<"unsafe">>

(* What each beginning of a path leads to below a directory.               *)
Walk(from, path) ==
  LET at[k \in 0..Len(path)] ==
        IF k > 0 THEN Enter(at[k - 1], path[k]) ELSE IF from = 0 THEN <<"unsafe">> ELSE DirNode(from)
  IN at

Lookup(from, path) == Walk(from, path)[Len(path)]

(* The directories that have a name now.                                   *)
Entries ==
  {<<e[1], e[2], tree[e[1]][e[2]][2]>> : e \in {p \in Dirs \X Names : tree[p[1]][p[2]][1] = "dir"}}

(* Names that lead from one directory to another.                          *)
Leads(from, names, to, entries) ==
  \E way \in [1..(Len(names) + 1) -> Dirs] :
    /\ way[1] = from /\ way[Len(names) + 1] = to
    /\ \A i \in DOMAIN names : <<way[i], names[i], way[i + 1]>> \in entries

Init ==
  /\ platform \in Platforms
  /\ root = 1
  /\ \E r \in Roots : tree = r.tree /\ bytes = r.bytes
  /\ command \in Commands
  /\ run = [at |-> "start", todo |-> <<>>, documents |-> <<>>, anchor |-> 0, index |-> Absent,
            indexBytes |-> None, plan |-> <<>>, looked |-> Absent, text |-> None, parent |-> 0,
            staged |-> 0, applied |-> FALSE, output |-> "none", exit |-> -1]
  /\ published = {} /\ gated = None /\ seen = [roots |-> {}, entries |-> {}] /\ meddling = 0

At(step) == run.at = step

(* The steps of a command that applies its plan.                           *)
Gating == {"gateLook", "gateRead", "gateAgain"}

Staging == {"write", "publish", "discard"}

Writing == {"anchor", "preflight", "parents", "stage"} \cup Staging

Applying == {"apply"} \cup Gating \cup Writing

(* What the requested path and the names of directories lead to before     *)
(* each step, of the command or of another program, that follows the       *)
(* decision to apply the plan.                                             *)
Watch ==
  seen' = IF run.at \in Applying
          THEN [roots |-> seen.roots \cup {root}, entries |-> seen.entries \cup Entries] ELSE seen

Rest == Watch /\ UNCHANGED <<platform, root, command, meddling>>

(* A step that only changes what the command knows.                        *)
Continue(r) == run' = r /\ Rest /\ UNCHANGED <<tree, bytes, published, gated>>

Goto(step) == Continue([run EXCEPT !.at = step])

(* An error message and exit code 2.                                       *)
Failed == [run EXCEPT !.at = "done", !.exit = 2]

Fail == Continue(Failed)

FreeFiles == {f \in Files : bytes[f] = None}

FreeDirs == {d \in Dirs : \A n \in ToSet(Order) : tree[d][n] = <<"free">>}

FreshFile == CHOOSE f \in FreeFiles : TRUE

FreshDir == CHOOSE d \in FreeDirs : TRUE

-----------------------------------------------------------------------------
(* Reading: the bundle, or its root index.                                 *)

GateCommands == {"new", "agent"}

Begin ==
  /\ At("start")
  /\ Goto(IF command.name \in GateCommands THEN "rootIndex"
          ELSE IF command.name = "init" THEN "capture" ELSE "open")

Document(path, node) == [path |-> path, file |-> node[2], content |-> bytes[node[2]]]

(* load_root_index: one handle of the directory, one of the file.          *)
ReadRootIndex ==
  /\ At("rootIndex")
  /\ LET node == Lookup(root, <<IndexName>>)
     IN IF node = Absent THEN Goto("gate")
        ELSE IF node[1] # "file" \/ (node[1] = "file" /\ bytes[node[2]].front = "huge") THEN Fail
        ELSE Continue([run EXCEPT !.at = "gate", !.documents = <<Document(<<IndexName>>, node)>>])

(* The k-th of some numbers.                                               *)
Kth(numbers, k) == CHOOSE i \in numbers : Cardinality({j \in numbers : j <= i}) = k

(* The names in a directory, sorted.                                       *)
Listing(directory, prefix) ==
  LET present == {i \in DOMAIN Order : tree[directory][Order[i]] # Absent}
  IN [k \in 1..Cardinality(present) |->
        [directory |-> directory, prefix |-> prefix, name |-> Order[Kth(present, k)]]]

OpenBundle ==
  /\ At("open")
  /\ IF root = 0 THEN Fail
     ELSE Continue([run EXCEPT !.at = "read", !.todo = Listing(root, <<>>), !.anchor = root])

(* collect_anchored_documents: names are read with their directory, each   *)
(* of them is opened later.                                                *)
ReadEntry ==
  /\ At("read") /\ run.todo # <<>>
  /\ LET item == Head(run.todo)
         node == tree[item.directory][item.name]
         path == Append(item.prefix, item.name)
         next == [run EXCEPT !.todo = Tail(@)]
     IN IF item.name = AgentsDir THEN Continue(next)
        ELSE IF node \in {Absent, LinkNode} THEN Fail
        ELSE IF node[1] = "dir" THEN Continue([next EXCEPT !.todo = Listing(node[2], path) \o @])
        ELSE IF item.name \notin Markdown \/ path = <<AgentsName>> THEN Continue(next)
        ELSE IF Len(run.documents) >= MaxDocuments \/ bytes[node[2]].front = "huge" THEN Fail
        ELSE Continue([next EXCEPT !.documents = Append(@, Document(path, node))])

Unparsable(document) ==
  \/ document.content.front = "broken"
  \/ IsConcept(document.path) /\ document.content.front = "absent"

Failures == {d \in ToSet(run.documents) : Unparsable(d)}

RootIndexOf(documents) == {d \in documents : d.path = <<IndexName>>}

(* ensure_supported_version: the root index, if there is one, must parse   *)
(* and must not declare a version that is unknown.                         *)
VersionRefused(documents) ==
  \E d \in RootIndexOf(documents) : Unparsable(d) \/ d.content.front \in Unsupported \cup {"odd"}

ReadOnly == {"validate", "graph"}

BundleRead ==
  /\ At("read") /\ run.todo = <<>>
  /\ LET released(step) == Continue([run EXCEPT !.at = step, !.anchor = 0])
     IN \/ command.name \in ReadOnly /\ Goto("report")
        \/ command.name = "graph" /\ Fail  \* a limit of the graph: BundleInspection
        \/ command.name = "index" /\ released("gate")
        \/ /\ command.name = "migrate"
           /\ IF Failures # {} \/ ~\E d \in RootIndexOf(ToSet(run.documents)) : d.content.front \in {"0.1", "0.2"}
              THEN Fail ELSE released("capture")

Gate ==
  /\ At("gate")
  /\ IF VersionRefused(ToSet(run.documents)) \/ (command.name = "index" /\ Failures # {}) THEN Fail
     ELSE Goto("capture")

-----------------------------------------------------------------------------
(* Planning.                                                               *)

(* capture_planned_root_identity, and the root index through that handle.  *)
CaptureRoot ==
  /\ At("capture")
  /\ LET node == tree[root][IndexName]
     IN IF root = 0 \/ (node # Absent /\ node[1] # "file") THEN Fail
        ELSE IF node # Absent /\ bytes[node[2]].front = "huge" THEN Fail
        ELSE Continue([run EXCEPT !.at = "files", !.anchor = root, !.index = node,
                         !.indexBytes = IF node = Absent THEN None ELSE bytes[node[2]]])

ConceptsRead == {d.path : d \in {e \in ToSet(run.documents) : IsConcept(e.path)}}

IndexesRead == {d.path : d \in {e \in ToSet(run.documents) : IsIndex(e.path)}}

(* The root index declares no version yet.                                 *)
EnsureRootVersion ==
  \A d \in RootIndexOf(ToSet(run.documents)) : d.content.front \in {"absent", "unversioned", "tangled"}

MigratedFile(d) == [path |-> d.path, content |-> Migrated[d.content]]

RenderedFiles ==
  CASE command.name = "index" ->
         IndexFiles(ConceptsRead, IndexesRead, command.mode)
           \cup (IF EnsureRootVersion
                 THEN {f \in IndexFiles(ConceptsRead, {}, "all") : f.path = <<IndexName>>} ELSE {})
    [] command.name = "migrate" ->
         {MigratedFile(d) : d \in {e \in ToSet(run.documents) : e.content \in DOMAIN Migrated}}
    [] OTHER -> {[path |-> p, content |-> Generated[p]] : p \in command.paths}

RenderFiles ==
  /\ At("files")
  /\ Continue([run EXCEPT !.at = "look", !.todo = SetToSeq(RenderedFiles)])

ValidRelativePath(path) ==
  IF command.name = "migrate"
  THEN Len(path) <= MaxSegments /\ \A i \in DOMAIN path : path[i] # ".." /\ (platform = "windows" => path[i] \in Portable)
  ELSE Len(path) <= MaxSegments /\ \A i \in DOMAIN path : path[i] \in Portable

(* What the file is to become, by the mode of the command.                 *)
PlannedContent(file, existing) ==
  CASE existing = None -> IF command.name = "migrate" THEN Malformed ELSE file.content
    [] existing # None /\ command.name \in {"init", "new"} ->
         IF existing = file.content THEN existing ELSE Malformed
    [] existing # None /\ command.name = "index" ->
         LET merged == IF command.mode = "all" THEN MergeRegion(existing, file.content) ELSE existing
         IN IF file.path = <<IndexName>> /\ EnsureRootVersion /\ merged # Malformed
            THEN InsertRootVersion(merged) ELSE merged
    [] existing # None /\ command.name = "agent" /\ file.path = <<AgentsName>> -> MergeRegion(existing, file.content)
    [] OTHER -> file.content

Snapshot(path) ==
  LET read == {d \in ToSet(run.documents) : d.path = path}
  IN IF read = {} THEN None ELSE (CHOOSE d \in read : TRUE).content

(* Mutant of SnapshotHolds: migration trusts what it read first.           *)
SnapshotAssumed(file, existing) == command.name = "migrate" => existing # None

(* A migration is planned only for the bytes that it was computed from.    *)
SnapshotHolds(file, existing) == command.name = "migrate" => existing = Snapshot(file.path)

(* On Windows the directory of a new file must exist, and is held like all *)
(* those above it.                                                         *)
ParentOf(path) == Lookup(root, Front(path))

LocksOf(path) == {Walk(root, Front(path))[k][2] : k \in 0..Len(Front(path))}

PlanFile(file, node, existing) ==
  LET content == PlannedContent(file, existing)
      anchored == platform = "windows" /\ existing = None
      parent == IF anchored THEN ParentOf(file.path) ELSE Absent
      change == [root |-> run.anchor, path |-> file.path, content |-> content, expected |-> existing,
                 file |-> node, parent |-> parent,
                 locks |-> IF anchored /\ parent[1] = "dir" THEN LocksOf(file.path) ELSE {}]
      next == [run EXCEPT !.at = "look", !.todo = Tail(@), !.looked = Absent, !.text = None]
  IN IF content = Malformed \/ ~SnapshotHolds(file, existing) THEN Fail
     ELSE IF existing = content THEN Continue(next)
     ELSE IF anchored /\ parent[1] # "dir" THEN Fail
     ELSE Continue([next EXCEPT !.plan = Append(@, change)])

(* The target is inspected, read and inspected again, each time by its     *)
(* path: another program may act in between.                               *)
LookAtTarget ==
  /\ At("look") /\ run.todo # <<>>
  /\ LET file == Head(run.todo)
         node == Lookup(root, file.path)
     IN IF ~ValidRelativePath(file.path) \/ node[1] \in {"unsafe", "link", "dir"} THEN Fail
        ELSE IF node = Absent THEN PlanFile(file, Absent, None)
        ELSE Continue([run EXCEPT !.at = "readTarget", !.looked = node])

ReadTarget ==
  /\ At("readTarget")
  /\ LET node == Lookup(root, Head(run.todo).path)
     IN \/ \E f \in Files : node = FileNode(f) /\ Continue([run EXCEPT !.at = "lookAgain", !.text = bytes[f]])
        \/ node = LinkNode /\ \E text \in Written : Continue([run EXCEPT !.at = "lookAgain", !.text = text])
        \/ node[1] # "file" /\ Fail

LookAgain ==
  /\ At("lookAgain")
  /\ IF Lookup(root, Head(run.todo).path) # run.looked THEN Fail
     ELSE PlanFile(Head(run.todo), run.looked, run.text)

Planned ==
  /\ At("look") /\ run.todo = <<>>
  /\ IF command.name = "migrate" THEN Goto("report") ELSE Goto("decide")

(* should_apply: --check, --apply, or the answer at a terminal, where the  *)
(* question or its answer can fail.  The report repeats the decision.      *)
Decide ==
  /\ At("decide")
  /\ \/ (command.flag \in {"check", "terminal"} \/ run.plan = <<>>) /\ Goto("report")
     \/ /\ command.flag \in {"apply", "terminal"} /\ run.plan # <<>>
        /\ Continue([run EXCEPT !.at = "apply", !.applied = TRUE])
     \/ command.flag \in {"none", "terminal"} /\ run.plan # <<>> /\ Fail

-----------------------------------------------------------------------------
(* Applying: one new file, or nothing.                                     *)

Change == run.plan[1]

(* Mutant of ApplyPlan: a plan that is refused is reported as carried out. *)
ApplyQuietly ==
  /\ At("apply")
  /\ IF Len(run.plan) > 1 \/ \E i \in DOMAIN run.plan : run.plan[i].expected # None THEN Goto("report")
     ELSE Goto("gateLook")

(* apply_plan refuses updates, and more than one create.                   *)
ApplyPlan ==
  /\ At("apply")
  /\ IF Len(run.plan) > 1 \/ \E i \in DOMAIN run.plan : run.plan[i].expected # None THEN Fail
     ELSE Goto("gateLook")

IndexInPlace == tree[run.anchor][IndexName]

(* validate_planned_root_version: the index is the planned one before its  *)
(* bytes are read through the retained handle, and still afterwards.       *)
GateLook ==
  /\ At("gateLook")
  /\ IF IndexInPlace # run.index THEN Fail
     ELSE IF run.index = Absent
       THEN run' = [run EXCEPT !.at = "anchor"] /\ gated' = None /\ Rest /\ UNCHANGED <<tree, bytes, published>>
     ELSE Goto("gateRead")

GateRead ==
  /\ At("gateRead")
  /\ run' = (IF bytes[run.index[2]] # run.indexBytes THEN Failed ELSE [run EXCEPT !.at = "gateAgain"])
  /\ gated' = IF IndexInPlace[1] = "file" THEN bytes[IndexInPlace[2]] ELSE None
  /\ Rest /\ UNCHANGED <<tree, bytes, published>>

(* Mutant of GateAgain: the identity is not compared a second time.        *)
GateOnce ==
  /\ At("gateAgain")
  /\ IF VersionRefused({[path |-> <<IndexName>>, content |-> run.indexBytes]}) THEN Fail ELSE Goto("anchor")

GateAgain ==
  /\ At("gateAgain")
  /\ IF IndexInPlace # run.index THEN Fail
     ELSE IF VersionRefused({[path |-> <<IndexName>>, content |-> run.indexBytes]}) THEN Fail
     ELSE Goto("anchor")

(* Mutant of AnchorRoot: the requested path is opened again and trusted.   *)
AnchorAgain ==
  /\ At("anchor")
  /\ IF root = 0 THEN Fail ELSE Continue([run EXCEPT !.at = "preflight", !.anchor = root])

(* The requested path must still lead to the directory that was planned;   *)
(* from then on everything is relative to the retained handle.             *)
AnchorRoot ==
  /\ At("anchor")
  /\ IF root # run.anchor THEN Fail ELSE Goto("preflight")

Preflight ==
  /\ At("preflight")
  /\ LET parent == Lookup(run.anchor, Front(Change.path))
         target == Lookup(run.anchor, Change.path)
     IN IF target # Absent THEN Fail
        ELSE IF platform = "unix"
          THEN Continue([run EXCEPT !.at = "parents", !.parent = run.anchor, !.todo = Front(Change.path)])
        ELSE IF parent # Change.parent \/ tree[parent[2]][Reservation] # Absent THEN Fail
        ELSE Continue([run EXCEPT !.at = "stage", !.parent = parent[2]])

(* open_anchored_parent creates the directories that are missing, or fails *)
(* to.                                                                     *)
OpenParent ==
  /\ At("parents") /\ run.todo # <<>>
  /\ LET name == Head(run.todo)
         node == tree[run.parent][name]
         next(d) == [run EXCEPT !.parent = d, !.todo = Tail(@)]
     IN IF node[1] = "dir" THEN Continue(next(node[2]))
        ELSE IF node # Absent THEN Fail
        ELSE \/ /\ FreeDirs # {}
                /\ tree' = [tree EXCEPT ![run.parent][name] = DirNode(FreshDir),
                                        ![FreshDir] = [n \in ToSet(Order) |-> Absent]]
                /\ run' = next(FreshDir)
                /\ Rest /\ UNCHANGED <<bytes, published, gated>>
             \/ Fail

ParentsOpen ==
  /\ At("parents") /\ run.todo = <<>>
  /\ Goto("stage")

Leaf == Last(Change.path)

(* A file without a name on Unix; on Windows a reservation, one for each   *)
(* directory, that is refused when it exists.  Either may fail.            *)
Stage ==
  /\ At("stage")
  /\ \/ /\ FreeFiles # {}
        /\ platform = "windows" => tree[run.parent][Leaf] = Absent /\ tree[run.parent][Reservation] = Absent
        /\ bytes' = [bytes EXCEPT ![FreshFile] = Empty]
        /\ tree' = IF platform = "unix" THEN tree
                   ELSE [tree EXCEPT ![run.parent][Reservation] = FileNode(FreshFile)]
        /\ run' = [run EXCEPT !.at = "write", !.staged = FreshFile]
        /\ Rest /\ UNCHANGED <<published, gated>>
     \/ Fail

WriteStaged ==
  /\ At("write")
  /\ bytes' = [bytes EXCEPT ![run.staged] = Change.content]
  /\ run' = [run EXCEPT !.at = "publish"]
  /\ Rest /\ UNCHANGED <<tree, published, gated>>

Abandon == IF platform = "unix" THEN Fail ELSE Goto("discard")

(* The disk is full, or cannot be synchronised.                            *)
WriteFails == At("write") /\ Abandon

(* Mutant of Publish: a rename that replaces.                              *)
PublishOver ==
  /\ At("publish")
  /\ tree' = [tree EXCEPT ![run.parent] = [@ EXCEPT ![Leaf] = FileNode(run.staged), ![Reservation] = Absent]]
  /\ run' = [run EXCEPT !.at = "report"]
  /\ published' = published \cup {<<run.parent, Leaf, run.staged>>}
  /\ Rest /\ UNCHANGED <<bytes, gated>>

(* A link, or a rename, that does not replace.                             *)
Publish ==
  /\ At("publish") /\ tree[run.parent][Leaf] = Absent
  /\ LET named == [tree EXCEPT ![run.parent][Leaf] = FileNode(run.staged)]
     IN tree' = IF platform = "windows" THEN [named EXCEPT ![run.parent][Reservation] = Absent] ELSE named
  /\ run' = [run EXCEPT !.at = "report"]
  /\ published' = published \cup {<<run.parent, Leaf, run.staged>>}
  /\ Rest /\ UNCHANGED <<bytes, gated>>

(* The name is taken, or the system refuses.                               *)
PublishFails == At("publish") /\ Abandon

(* dispose_windows_handle: by the handle, never by the name; it may fail.  *)
Discard ==
  /\ At("discard")
  /\ \/ tree' = [tree EXCEPT ![run.parent][Reservation] = Absent]
     \/ tree' = tree
  /\ run' = Failed
  /\ Rest /\ UNCHANGED <<bytes, published, gated>>

-----------------------------------------------------------------------------
(* The report, and the end of the process.                                 *)

NeedsAttention ==
  \/ run.plan # <<>>
  \/ command.name = "migrate" /\ \E d \in ToSet(run.documents) : d.content \in Attention

(* Validation objects to documents that do not parse, to concepts without  *)
(* a type, to frontmatter of reserved documents, except the version of the *)
(* root index, to indexes without headings and to logs without dates.      *)
Kind(path) ==
  IF path = <<IndexName>> THEN "root" ELSE IF IsIndex(path) THEN "index"
  ELSE IF Last(path) = LogName THEN "log" ELSE "concept"

Nonconforming(document) ==
  \/ Unparsable(document)
  \/ Kind(document.path) \in {"index", "log"} /\ document.content.front # "absent"
  \/ <<Kind(document.path), document.content>> \in Irregular

(* Mutant of ExitCode: only documents that do not parse count.             *)
ExitCodeOfFailures ==
  IF \/ command.name = "validate" /\ Failures # {}
     \/ command.flag = "check" /\ NeedsAttention
  THEN 1 ELSE 0

ExitCode ==
  IF \/ command.name = "validate" /\ \E d \in ToSet(run.documents) : Nonconforming(d)
     \/ command.flag = "check" /\ NeedsAttention
  THEN 1 ELSE 0

(* The plan and whether it was applied, the findings or the graph.  A      *)
(* reader that has gone is no error.                                       *)
Report ==
  /\ At("report")
  /\ Continue([run EXCEPT !.at = "done", !.exit = ExitCode, !.output = "whole"])

(* The report cannot be written.                                           *)
ReportFails == At("report") /\ Continue([Failed EXCEPT !.output = "cut"])

Crash ==
  /\ ~At("done") /\ ~At("crashed")
  /\ Goto("crashed")

CommandStep ==
  \/ Begin \/ ReadRootIndex \/ OpenBundle \/ ReadEntry \/ BundleRead \/ Gate
  \/ CaptureRoot \/ RenderFiles \/ LookAtTarget \/ ReadTarget \/ LookAgain \/ Planned \/ Decide
  \/ ApplyPlan \/ GateLook \/ GateRead \/ GateAgain \/ AnchorRoot \/ Preflight
  \/ OpenParent \/ ParentsOpen \/ Stage \/ WriteStaged \/ WriteFails \/ Publish \/ PublishFails
  \/ Discard \/ Report \/ ReportFails

-----------------------------------------------------------------------------
(* Other programs.                                                         *)

Running == ~At("done") /\ ~At("crashed")

(* On Windows a handle of a directory denies that it is renamed, and one   *)
(* of a file that it is written or removed.  Those of a bundle that is     *)
(* only read are closed before the report.                                 *)
HeldDirs ==
  IF platform = "unix" \/ ~Running \/ (At("report") /\ command.name \in ReadOnly) THEN {}
  ELSE ({run.anchor, run.parent} \cup UNION {run.plan[i].locks : i \in DOMAIN run.plan}
         \cup (IF At("read") THEN {item.directory : item \in ToSet(run.todo)} ELSE {})) \ {0}

HeldFiles ==
  IF platform = "unix" \/ ~Running THEN {}
  ELSE {run.staged} \cup (IF run.index = Absent THEN {} ELSE {run.index[2]})

Held(node) == \/ node[1] = "dir" /\ node[2] \in HeldDirs
              \/ node[1] = "file" /\ node[2] \in HeldFiles

Places == {p \in {d \in Dirs : \A n \in ToSet(Order) : tree[d][n] # <<"free">>} \X ToSet(Order) :
             p[2] \in command.contested}

Meddles == /\ meddling < MaxMeddling /\ Running /\ Watch
           /\ meddling' = meddling + 1
           /\ UNCHANGED <<platform, command, run, published, gated>>

Edit ==
  /\ Meddles
  /\ \E p \in Places, text \in Written :
       LET node == tree[p[1]][p[2]]
       IN node[1] = "file" /\ ~Held(node) /\ bytes' = [bytes EXCEPT ![node[2]] = text]
  /\ UNCHANGED <<root, tree>>

Replace ==
  /\ Meddles
  /\ \E p \in Places, text \in Written :
       /\ ~Held(tree[p[1]][p[2]]) /\ FreeFiles # {}
       /\ bytes' = [bytes EXCEPT ![FreshFile] = text]
       /\ tree' = [tree EXCEPT ![p[1]][p[2]] = FileNode(FreshFile)]
  /\ UNCHANGED root

Unlink ==
  /\ Meddles
  /\ \E p \in Places : \E node \in {Absent, LinkNode} :
       ~Held(tree[p[1]][p[2]]) /\ tree' = [tree EXCEPT ![p[1]][p[2]] = node]
  /\ UNCHANGED <<root, bytes>>

(* The requested path is bound to a link, or to another directory.         *)
MoveRoot ==
  /\ Meddles
  /\ root \notin HeldDirs
  /\ root' \in ({0} \cup {d \in Dirs : \A n \in ToSet(Order) : tree[d][n] # <<"free">>}) \ {root}
  /\ UNCHANGED <<tree, bytes>>

Next == CommandStep \/ Crash \/ Edit \/ Replace \/ Unlink \/ MoveRoot

Spec == Init /\ [][Next]_vars

-----------------------------------------------------------------------------
(* Properties.                                                             *)

(* FR-103, FR-104: whatever other programs do meanwhile, no step of the    *)
(* command removes or replaces an entry of the bundle or changes the bytes *)
(* of a file that it did not create, and the reading commands and --check  *)
(* change nothing at all.                                                  *)
NothingLost ==
  [][CommandStep =>
       /\ \A d \in Dirs, n \in ToSet(Order) :
            tree[d][n] \notin {Absent, <<"free">>, FileNode(run.staged)} => tree'[d][n] = tree[d][n]
       /\ \A f \in Files \ {run.staged} : bytes[f] # None => bytes'[f] = bytes[f]
       /\ command.flag = "check" => UNCHANGED <<tree, bytes>>]_vars

(* The directory was found through the names of the planned path, from the *)
(* root that was planned in: each of them, and the requested path itself,  *)
(* led there at some moment after the decision to apply the plan.          *)
Reached(directory, change) ==
  change.root \in seen.roots /\ Leads(change.root, Front(change.path), directory, seen.entries)

(* At most one file is published, and it is the new file that was planned. *)
(* It has the last name of the planned path, in a directory to which the   *)
(* names before it led below the planned root while the plan was applied   *)
(* (on Unix another program can unlink that directory between the walk and *)
(* the publication, which still reaches it by its handle).  The version    *)
(* gate of the planned root held: at one moment after planning its index,  *)
(* if any, was the planned one and declared a supported version.           *)
PublishedAsPlanned ==
  \A p \in published :
    /\ Cardinality(published) = 1 /\ Change.expected = None
    /\ p[2] = Leaf /\ Reached(p[1], Change)
    /\ gated = run.indexBytes
    /\ run.indexBytes # None => ~VersionRefused({[path |-> <<IndexName>>, content |-> run.indexBytes]})

(* What is published was complete before it had its name.  On Windows,     *)
(* where handles hold the directories, that name is the planned path below *)
(* the requested one at the moment of the publication.                     *)
PublishedWhole ==
  [][\A p \in published' \ published :
       /\ bytes[p[3]] = Change.content
       /\ platform = "windows" => Leads(root, Front(Change.path), p[1], Entries)]_vars

(* The exit code and the report tell the truth.  An error means that       *)
(* nothing was published, unless the report of it was what failed; any     *)
(* other code comes with a whole report, which says "applied" exactly when *)
(* every change it lists is published where it says, and never after       *)
(* --check.  With --apply and a plan a success has applied it.  --check    *)
(* fails exactly when changes or a person are needed, and apart from it    *)
(* only validation answers 1.                                              *)
ExitTruthful ==
  At("done") =>
    /\ run.exit = 2 => run.output # "whole" /\ (published # {} => run.output = "cut")
    /\ run.exit # 2 =>
         /\ run.output = "whole"
         /\ run.applied <=> published # {}
         /\ run.applied =>
              /\ command.flag # "check"
              /\ \A i \in DOMAIN run.plan : \E p \in published :
                   p[2] = Last(run.plan[i].path) /\ Reached(p[1], run.plan[i])
         /\ command.flag = "apply" /\ run.plan # <<>> => run.applied
         /\ command.flag = "check" => (run.exit = 1 <=> NeedsAttention)
         /\ run.exit = 1 => command.flag = "check" \/ command.name = "validate"

(* The documents below the directory that was opened.                      *)
Documents ==
  LET paths == UNION {[1..k -> Names] : k \in 1..Cardinality(Dirs)}
  IN {Document(p, Lookup(run.anchor, p)) :
        p \in {q \in paths : /\ Lookup(run.anchor, q)[1] = "file" /\ Last(q) \in Markdown
                             /\ q # <<AgentsName>> /\ AgentsDir \notin ToSet(q)}}

(* The verdict of validation is that of the documents, although names are  *)
(* listed first and opened later: whatever happens to other entries        *)
(* meanwhile, a document that nobody touches and that does not conform is  *)
(* found, and without interference nothing else makes the bundle fail.     *)
VerdictSound ==
  At("done") /\ command.name = "validate" /\ run.exit # 2 =>
    LET faults == {d \in Documents : Nonconforming(d)}
    IN /\ run.exit = 0 => \A d \in faults : ToSet(d.path) \cap command.contested # {}
       /\ run.exit = 1 /\ meddling = 0 => faults # {}

(* A migration plan replaces exactly the texts it was computed from.       *)
MigrationFromSnapshot ==
  command.name = "migrate" =>
    \A i \in DOMAIN run.plan : /\ run.plan[i].expected = Snapshot(run.plan[i].path)
                               /\ run.plan[i].content = Migrated[run.plan[i].expected]

(* Of these files the command only owns a region.                          *)
OwnsRegion(path) == command.name = "index" \/ path = <<AgentsName>>

(* What the command plans for a file after this change was carried out.    *)
Again(file, change) ==
  IF ~OwnsRegion(file.path) THEN file.content
  ELSE IF command.name = "index" /\ command.mode # "all" THEN change.content
  ELSE MergeRegion(change.content, file.content)

(* FR-045: planning again after the plan was carried out changes nothing,  *)
(* neither a region nor the version, which is declared by then.  Of a file *)
(* that existed what lies outside the region is kept.                      *)
PlanSettles ==
  At("decide") /\ command.name \in {"index", "agent"} =>
    \A i \in DOMAIN run.plan : \A file \in {f \in RenderedFiles : f.path = run.plan[i].path} :
      LET change == run.plan[i]
      IN /\ Again(file, change) = change.content
         /\ command.name = "index" /\ file.path = <<IndexName>> /\ EnsureRootVersion => change.content.front = "0.2"
         /\ OwnsRegion(file.path) /\ change.expected # None => Outside(change.content) = Outside(change.expected)

(* A plan is made of what the command read and is final: a migration       *)
(* replaces exactly the texts it was computed from, and planning again     *)
(* after regions were merged would change nothing.                         *)
PlanSound == MigrationFromSnapshot /\ PlanSettles

(* The files of others are safe from a command, and what it publishes is   *)
(* whole from the first moment it is visible.                              *)
FilesSafe == NothingLost /\ PublishedWhole
=============================================================================
