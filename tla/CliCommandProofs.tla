--------------------------- MODULE CliCommandProofs ---------------------------
(***************************************************************************)
(* FilesSafe, PublishedAsPlanned, ExitTruthful and PlanSound of            *)
(* CliCommand, for any bundle, command line and number of meddling steps.  *)
(***************************************************************************)
EXTENDS CliCommand, FiniteSetTheorems, SequenceTheorems, WellFoundedInduction, TLAPS

(* The steps of a command that reads, and of one that plans.               *)
Reading == {"start", "rootIndex", "open", "read", "gate", "capture"}

Planning == {"files", "look", "readTarget", "lookAgain", "decide"}

(* Those that can fail before there is anything to report.                 *)
Busy == Reading \cup Planning \cup Applying

RunFields ==
  {"at", "todo", "documents", "anchor", "index", "indexBytes", "plan", "looked", "text", "parent",
   "staged", "applied", "output", "exit"}

(* The bundle: every name leads to something, a file that has a name has a *)
(* content.                                                                *)
BundleInv ==
  /\ platform \in {"unix", "windows"} /\ root \in Dirs \cup {0}
  /\ tree \in [Dirs -> [ToSet(Order) -> Nodes]]
  /\ bytes = [f \in Files |-> bytes[f]]
  /\ \A d \in Dirs, n \in ToSet(Order) : \A f \in Files : tree[d][n] = FileNode(f) => bytes[f] # None

(* The plan: only changes, none before there is one, and at the end one    *)
(* new file.                                                               *)
PlanInv ==
  /\ run.plan \in Seq(ToSet(run.plan))
  /\ \A i \in DOMAIN run.plan : run.plan[i].content # run.plan[i].expected
  /\ run.at \in Reading => run.plan = <<>>
  /\ run.at \in Applying => command.flag # "check" /\ run.plan # <<>>
  /\ run.at \in Applying \ {"apply"} =>
       DOMAIN run.plan = {1} /\ \A i \in DOMAIN run.plan : run.plan[i].expected = None

(* The root index that was planned: none, or a file whose bytes are known. *)
IndexInv ==
  /\ run.at \in Planning \cup Applying => run.anchor \in Dirs
  /\ \/ run.index = Absent /\ run.indexBytes = None
     \/ \E f \in Files : run.index = FileNode(f) /\ bytes[f] # None

GateHeld ==
  /\ gated = run.indexBytes
  /\ run.indexBytes # None => ~VersionRefused({[path |-> <<IndexName>>, content |-> run.indexBytes]})

(* The gate: between the two comparisons nothing can put the planned index *)
(* back in its place, so that it was there when its bytes were compared.   *)
GateInv ==
  /\ run.at \in {"gateRead", "gateAgain"} => run.index # Absent
  /\ run.at = "gateAgain" /\ IndexInPlace = run.index => gated = run.indexBytes
  /\ run.at \in Writing => GateHeld

(* The staged file: on Unix it has no name, on Windows it has the one that *)
(* is reserved, and nobody else can write it.                              *)
StagedInv ==
  /\ run.at \in Staging =>
       /\ run.staged \in Files /\ bytes[run.staged] # None
       /\ platform = "unix" => \A d \in Dirs, n \in ToSet(Order) : tree[d][n] # FileNode(run.staged)
       /\ platform = "windows" /\ run.parent \in Dirs => tree[run.parent][Reservation] = FileNode(run.staged)
  /\ run.at = "publish" => bytes[run.staged] = Change.content
  /\ run.at = "discard" => platform = "windows"

(* What a success says: what is applied is published, and --apply applies. *)
Announced ==
  /\ run.applied => published # {}
  /\ command.flag = "apply" /\ run.plan # <<>> => run.applied

(* What was published, and what is reported of it.                         *)
ResultInv ==
  /\ run.at \in Busy \cup {"report"} => run.output = "none"
  /\ run.applied \in BOOLEAN /\ (run.applied => command.flag # "check")
  /\ run.at \in Reading \cup Planning => ~run.applied
  /\ run.at \in Applying => run.applied
  /\ published # {} =>
       /\ run.applied /\ run.at \in {"report", "done", "crashed"} /\ DOMAIN run.plan = {1}
       /\ published = {<<run.parent, Leaf, run.staged>>} /\ Change.expected = None /\ GateHeld
  /\ run.at = "report" => Announced
  /\ run.at = "done" /\ run.exit = 2 => run.output # "whole" /\ (published # {} => run.output = "cut")
  /\ run.at = "done" /\ run.exit # 2 => run.output = "whole" /\ run.exit = ExitCode /\ Announced

CommandInvariant ==
  /\ DOMAIN run = RunFields /\ command \in Commands
  /\ BundleInv /\ PlanInv /\ IndexInv /\ GateInv /\ StagedInv /\ ResultInv

(* What is left alone by a step that only changes what the command knows.  *)
Still == UNCHANGED <<platform, root, command, tree, bytes, published, gated>>

(* What a command remembers of its plan and of its result.                 *)
SamePlan ==
  /\ DOMAIN run' = RunFields
  /\ run'.plan = run.plan /\ run'.index = run.index /\ run'.indexBytes = run.indexBytes
  /\ run'.applied = run.applied /\ run'.output = run.output

-----------------------------------------------------------------------------
(* Steps that only change what the command knows.                          *)

LEMMA StillBundle == BundleInv /\ Still => BundleInv'
BY DEF Still, BundleInv

(* The exit code is a matter of the command line, of what was read and of  *)
(* what is planned.                                                        *)
LEMMA ExitCodeKept ==
  ASSUME UNCHANGED command, run'.documents = run.documents, run'.plan = run.plan
  PROVE  ExitCode' = ExitCode
BY DEF ExitCode, NeedsAttention, Nonconforming, Unparsable, IsConcept, Kind

(* The end of the command: an error, a report or a crash.                  *)
LEMMA EndKeeps ==
  ASSUME CommandInvariant, Still, DOMAIN run' = RunFields, run'.documents = run.documents,
         run'.plan = run.plan, run'.index = run.index, run'.indexBytes = run.indexBytes,
         run'.applied = run.applied, run'.at \in {"done", "crashed"},
         run'.parent = run.parent, run'.staged = run.staged,
         run'.at = "done" /\ run'.exit = 2 => run'.output # "whole" /\ (published # {} => run'.output = "cut"),
         run'.at = "done" /\ run'.exit # 2 =>
           run.at = "report" /\ run'.output = "whole" /\ run'.exit = ExitCode
  PROVE  CommandInvariant'
<1>1. BundleInv'
  BY StillBundle DEF CommandInvariant
<1>2. PlanInv'
  BY DEF CommandInvariant, Still, PlanInv, Reading, Applying, Gating, Writing, Staging
<1>3. IndexInv'
  BY DEF CommandInvariant, Still, IndexInv, Planning, Applying, Gating, Writing, Staging
<1>4. GateInv'
  BY DEF Writing, Staging, GateInv
<1>5. StagedInv'
  BY DEF Staging, StagedInv
<1>6. ResultInv'
  <2>1. run'.at \notin Busy \cup {"report"}
    BY DEF Busy, Reading, Planning, Applying, Gating, Writing, Staging
  <2>2. GateHeld' = GateHeld
    BY DEF Still, GateHeld, VersionRefused, RootIndexOf, Unparsable, IsConcept
  <2>3. Leaf' = Leaf /\ Change' = Change /\ ExitCode' = ExitCode
    BY ExitCodeKept DEF Still, Leaf, Change
  <2>4. Announced => Announced'
    BY DEF Still, Announced
  <2>5. QED
    BY <2>1, <2>2, <2>3, <2>4 DEF CommandInvariant, Still, ResultInv, Busy
<1>7. QED
  BY <1>1, <1>2, <1>3, <1>4, <1>5, <1>6 DEF CommandInvariant, Still

LEMMA FailKeeps ==
  ASSUME CommandInvariant, Fail, run.at \in Busy PROVE CommandInvariant'
<1>1. Still
  BY DEF Fail, Continue, Rest, Still
<1>2. /\ DOMAIN run' = RunFields /\ run'.documents = run.documents
      /\ run'.plan = run.plan /\ run'.index = run.index /\ run'.indexBytes = run.indexBytes
      /\ run'.applied = run.applied /\ run'.parent = run.parent /\ run'.staged = run.staged
      /\ run'.at = "done" /\ run'.exit = 2 /\ run'.output = run.output
  BY DEF Fail, Failed, Continue, CommandInvariant, RunFields
<1>3. run.output = "none" /\ published = {}
  BY DEF CommandInvariant, ResultInv, Busy, Reading, Planning, Applying, Gating, Writing, Staging
<1>4. QED
  BY <1>1, <1>2, <1>3, EndKeeps

LEMMA CrashKeeps ==
  ASSUME CommandInvariant, Crash PROVE CommandInvariant'
<1>1. Still
  BY DEF Crash, Goto, Continue, Rest, Still
<1>2. /\ DOMAIN run' = RunFields /\ run'.documents = run.documents
      /\ run'.plan = run.plan /\ run'.index = run.index /\ run'.indexBytes = run.indexBytes
      /\ run'.applied = run.applied /\ run'.parent = run.parent /\ run'.staged = run.staged
      /\ run'.at = "crashed"
  BY DEF Crash, Goto, Continue, CommandInvariant, RunFields
<1>3. QED
  BY <1>1, <1>2, EndKeeps

(* The report is written, or cut short.                                    *)
LEMMA ReportKeeps ==
  ASSUME CommandInvariant, Report \/ ReportFails PROVE CommandInvariant'
<1>1. Still /\ run.at = "report"
  BY DEF Report, ReportFails, At, Continue, Rest, Still
<1>2. /\ DOMAIN run' = RunFields /\ run'.documents = run.documents
      /\ run'.plan = run.plan /\ run'.index = run.index /\ run'.indexBytes = run.indexBytes
      /\ run'.applied = run.applied /\ run'.parent = run.parent /\ run'.staged = run.staged
      /\ run'.at = "done"
      /\ \/ run'.exit = 2 /\ run'.output = "cut"
         \/ run'.exit = ExitCode /\ run'.output = "whole"
  BY DEF Report, ReportFails, Failed, Continue, CommandInvariant, RunFields
<1>3. ExitCode # 2
  BY DEF ExitCode
<1>4. QED
  BY <1>1, <1>2, <1>3, EndKeeps

-----------------------------------------------------------------------------
(* Reading.                                                                *)

LEMMA ReadKeeps ==
  ASSUME CommandInvariant, Still, SamePlan, run.at \in Reading, run'.at \in Reading
  PROVE  CommandInvariant'
<1>1. BundleInv'
  BY StillBundle DEF CommandInvariant
<1>2. PlanInv'
  BY DEF CommandInvariant, Still, SamePlan, PlanInv, Reading, Applying, Gating, Writing, Staging
<1>3. IndexInv'
  BY DEF CommandInvariant, Still, SamePlan, IndexInv, Reading, Planning, Applying, Gating, Writing, Staging
<1>4. GateInv'
  BY DEF Reading, Writing, Staging, GateInv
<1>5. StagedInv'
  BY DEF Reading, Staging, StagedInv
<1>6. ResultInv'
  BY DEF CommandInvariant, Still, SamePlan, ResultInv, Busy, Reading, Applying, Gating, Writing, Staging
<1>7. QED
  BY <1>1, <1>2, <1>3, <1>4, <1>5, <1>6 DEF CommandInvariant, SamePlan, Still

(* A step that continues with changed fields, none of which is remembered. *)
LEMMA ReadContinues ==
  ASSUME CommandInvariant, NEW r, Continue(r), DOMAIN r = RunFields, run.at \in Reading,
         r.at \in Reading, r.plan = run.plan, r.index = run.index, r.indexBytes = run.indexBytes,
         r.applied = run.applied /\ r.output = run.output
  PROVE  CommandInvariant'
<1>1. Still
  BY DEF Continue, Rest, Still
<1>2. SamePlan /\ run'.at \in Reading
  BY DEF Continue, SamePlan
<1>3. QED
  BY <1>1, <1>2, ReadKeeps

LEMMA ReadGoes ==
  ASSUME CommandInvariant, NEW step \in Reading, Goto(step), run.at \in Reading
  PROVE  CommandInvariant'
<1> DEFINE r == [run EXCEPT !.at = step]
<1>1. /\ DOMAIN r = RunFields /\ r.at = step /\ r.plan = run.plan /\ r.index = run.index
      /\ r.indexBytes = run.indexBytes /\ r.applied = run.applied /\ r.output = run.output
  BY DEF CommandInvariant, RunFields
<1>2. Continue(r)
  BY DEF Goto
<1> HIDE DEF r
<1>3. QED
  BY <1>1, <1>2, ReadContinues

(* What was only read is reported: there is no plan.                       *)
LEMMA ReadEnds ==
  ASSUME CommandInvariant, Goto("report"), run.at \in Reading PROVE CommandInvariant'
<1>1. Still
  BY DEF Goto, Continue, Rest, Still
<1>2. SamePlan /\ run'.at = "report" /\ run.plan = <<>> /\ ~run.applied
  BY DEF Goto, Continue, SamePlan, CommandInvariant, RunFields, PlanInv, ResultInv
<1>3. BundleInv'
  BY <1>1, StillBundle DEF CommandInvariant
<1>4. PlanInv'
  BY <1>1, <1>2 DEF CommandInvariant, Still, SamePlan, PlanInv, Reading, Applying, Gating, Writing, Staging
<1>5. IndexInv'
  BY <1>1, <1>2 DEF CommandInvariant, Still, SamePlan, IndexInv, Planning, Applying, Gating, Writing, Staging
<1>6. GateInv'
  BY <1>2 DEF Writing, Staging, GateInv
<1>7. StagedInv'
  BY <1>2 DEF Staging, StagedInv
<1>8. ResultInv'
  <2>1. run.output = "none" /\ published = {} /\ run.applied \in BOOLEAN
    BY DEF CommandInvariant, ResultInv, Busy, Reading
  <2>2. Announced'
    BY <1>2 DEF Announced, SamePlan
  <2>3. QED
    BY <1>1, <1>2, <2>1, <2>2 DEF Still, SamePlan, ResultInv, Busy, Reading, Planning, Applying, Gating, Writing, Staging
<1>9. QED
  BY <1>1, <1>2, <1>3, <1>4, <1>5, <1>6, <1>7, <1>8 DEF CommandInvariant, SamePlan, Still

LEMMA ReadStepsKeep ==
  ASSUME CommandInvariant, Begin \/ ReadRootIndex \/ OpenBundle \/ ReadEntry \/ BundleRead \/ Gate
  PROVE  CommandInvariant'
<1>1. CASE Begin
  BY <1>1, ReadGoes DEF Begin, At, Reading
<1>2. CASE ReadRootIndex
  <2>1. run.at \in Reading
    BY <1>2 DEF ReadRootIndex, At, Reading
  <2>2. \/ Fail \/ Goto("gate")
        \/ \E documents : Continue([run EXCEPT !.at = "gate", !.documents = documents])
    BY <1>2, Zenon DEF ReadRootIndex
  <2>3. ASSUME NEW documents, Continue([run EXCEPT !.at = "gate", !.documents = documents])
        PROVE  CommandInvariant'
    <3> DEFINE r == [run EXCEPT !.at = "gate", !.documents = documents]
    <3>1. /\ DOMAIN r = RunFields /\ r.at = "gate" /\ r.plan = run.plan /\ r.index = run.index
          /\ r.indexBytes = run.indexBytes /\ r.applied = run.applied /\ r.output = run.output
      BY DEF CommandInvariant, RunFields
    <3>2. Continue(r) /\ "gate" \in Reading
      BY <2>3 DEF Reading
    <3> HIDE DEF r
    <3>3. QED
      BY <2>1, <3>1, <3>2, ReadContinues
  <2>4. QED
    BY <2>1, <2>2, <2>3, FailKeeps, ReadGoes DEF Reading, Busy
<1>3. CASE OpenBundle
  <2>1. run.at \in Reading
    BY <1>3 DEF OpenBundle, At, Reading
  <2>2. \/ Fail
        \/ \E todo, anchor : Continue([run EXCEPT !.at = "read", !.todo = todo, !.anchor = anchor])
    BY <1>3, Zenon DEF OpenBundle
  <2>3. ASSUME NEW todo, NEW anchor,
               Continue([run EXCEPT !.at = "read", !.todo = todo, !.anchor = anchor])
        PROVE  CommandInvariant'
    <3> DEFINE r == [run EXCEPT !.at = "read", !.todo = todo, !.anchor = anchor]
    <3>1. /\ DOMAIN r = RunFields /\ r.at = "read" /\ r.plan = run.plan /\ r.index = run.index
          /\ r.indexBytes = run.indexBytes /\ r.applied = run.applied /\ r.output = run.output
      BY DEF CommandInvariant, RunFields
    <3>2. Continue(r) /\ "read" \in Reading
      BY <2>3 DEF Reading
    <3> HIDE DEF r
    <3>3. QED
      BY <2>1, <3>1, <3>2, ReadContinues
  <2>4. QED
    BY <2>1, <2>2, <2>3, FailKeeps DEF Busy
<1>4. CASE ReadEntry
  <2>1. run.at = "read" /\ run.at \in Reading
    BY <1>4 DEF ReadEntry, At, Reading
  <2> DEFINE item == Head(run.todo)
             node == tree[item.directory][item.name]
             path == Append(item.prefix, item.name)
             next == [run EXCEPT !.todo = Tail(@)]
             deeper == [next EXCEPT !.todo = Listing(node[2], path) \o @]
             read == [next EXCEPT !.documents = Append(@, Document(path, node))]
  <2>2. Fail \/ Continue(next) \/ Continue(deeper) \/ Continue(read)
    BY <1>4, Zenon DEF ReadEntry
  <2>3. \A r \in {next, deeper, read} :
          /\ DOMAIN r = RunFields /\ r.at = "read" /\ r.plan = run.plan /\ r.index = run.index
          /\ r.indexBytes = run.indexBytes /\ r.applied = run.applied /\ r.output = run.output
    BY <2>1 DEF CommandInvariant, RunFields
  <2> HIDE DEF next, deeper, read
  <2>4. "read" \in Reading
    BY DEF Reading
  <2>5. ASSUME NEW r \in {next, deeper, read}, Continue(r) PROVE CommandInvariant'
    BY <2>1, <2>3, <2>4, <2>5, ReadContinues
  <2>6. QED
    BY <2>1, <2>2, <2>5, FailKeeps DEF Busy
<1>5. CASE BundleRead
  <2>1. run.at \in Reading
    BY <1>5 DEF BundleRead, At, Reading
  <2>2. \/ Fail \/ Goto("report")
        \/ \E step \in {"gate", "capture"} : Continue([run EXCEPT !.at = step, !.anchor = 0])
    BY <1>5, Zenon DEF BundleRead
  <2>3. ASSUME NEW step \in {"gate", "capture"}, Continue([run EXCEPT !.at = step, !.anchor = 0])
        PROVE  CommandInvariant'
    <3> DEFINE r == [run EXCEPT !.at = step, !.anchor = 0]
    <3>1. /\ DOMAIN r = RunFields /\ r.at = step /\ r.plan = run.plan /\ r.index = run.index
          /\ r.indexBytes = run.indexBytes /\ r.applied = run.applied /\ r.output = run.output
      BY DEF CommandInvariant, RunFields
    <3>2. Continue(r) /\ step \in Reading
      BY <2>3 DEF Reading
    <3> HIDE DEF r
    <3>3. QED
      BY <2>1, <3>1, <3>2, ReadContinues
  <2>4. CASE Goto("report")
    BY <2>1, <2>4, ReadEnds
  <2>5. QED
    BY <2>1, <2>2, <2>3, <2>4, FailKeeps DEF Busy
<1>6. CASE Gate
  <2>1. run.at \in Reading
    BY <1>6 DEF Gate, At, Reading
  <2>2. Fail \/ Goto("capture")
    BY <1>6 DEF Gate
  <2>3. QED
    BY <2>1, <2>2, FailKeeps, ReadGoes DEF Reading, Busy
<1>7. QED
  BY <1>1, <1>2, <1>3, <1>4, <1>5, <1>6

-----------------------------------------------------------------------------
(* Planning.                                                               *)

LEMMA AppendedPlan ==
  ASSUME NEW plan, plan \in Seq(ToSet(plan)), NEW change,
         \A i \in DOMAIN plan : plan[i].content # plan[i].expected,
         change.content # change.expected,
         NEW longer, longer = Append(plan, change)
  PROVE  /\ longer \in Seq(ToSet(longer))
         /\ \A i \in DOMAIN longer : longer[i].content # longer[i].expected
<1> DEFINE S == ToSet(plan) \cup {change}
<1>1. plan \in Seq(S) /\ change \in S
  <2>1. \A i \in 1..Len(plan) : plan[i] \in S
    BY DEF ToSet
  <2>2. Len(plan) \in Nat /\ plan = [i \in 1..Len(plan) |-> plan[i]]
    OBVIOUS
  <2>3. QED
    BY <2>1, <2>2
<1> HIDE DEF S
<1>2. /\ longer \in Seq(S) /\ Len(longer) = Len(plan) + 1 /\ Len(plan) \in Nat
      /\ \A i \in 1..Len(plan) : longer[i] = plan[i]
      /\ longer[Len(plan) + 1] = change
  BY <1>1
<1>3. DOMAIN longer = 1..(Len(plan) + 1) /\ DOMAIN plan = 1..Len(plan)
  BY <1>1, <1>2
<1>4. \A i \in DOMAIN longer : longer[i].content # longer[i].expected
  <2>1. \A i \in DOMAIN longer : i \in 1..Len(plan) \/ i = Len(plan) + 1
    BY <1>2, <1>3
  <2>2. QED
    BY <1>2, <1>3, <2>1
<1>5. longer \in Seq(ToSet(longer))
  <2>1. \A i \in 1..Len(longer) : longer[i] \in ToSet(longer)
    BY <1>2, <1>3 DEF ToSet
  <2>2. \A s \in Seq(S) : Len(s) \in Nat /\ s = [i \in 1..Len(s) |-> s[i]]
    OBVIOUS
  <2>3. longer \in Seq(S)
    BY <1>2
  <2>4. Len(longer) \in Nat /\ longer = [i \in 1..Len(longer) |-> longer[i]]
    BY <2>2, <2>3, Zenon
  <2>5. QED
    BY <2>1, <2>4
<1>6. QED
  BY <1>4, <1>5

LEMMA PlanKeeps ==
  ASSUME CommandInvariant, Still, run.at \in Planning, run'.at \in Planning \cup {"apply", "report"},
         DOMAIN run' = RunFields, run'.anchor = run.anchor, run'.index = run.index,
         run'.indexBytes = run.indexBytes, run'.output = run.output,
         run'.applied = IF run'.at = "apply" THEN TRUE ELSE run.applied,
         run'.plan \in Seq(ToSet(run'.plan)),
         \A i \in DOMAIN run'.plan : run'.plan[i].content # run'.plan[i].expected,
         run'.at = "apply" => command.flag # "check" /\ run'.plan # <<>>,
         run'.at = "report" => command.flag # "apply" \/ run'.plan = <<>>
  PROVE  CommandInvariant'
<1>1. BundleInv'
  BY StillBundle DEF CommandInvariant
<1>2. PlanInv'
  BY DEF CommandInvariant, Still, PlanInv, Planning, Reading, Applying, Gating, Writing, Staging
<1>3. IndexInv'
  BY DEF CommandInvariant, Still, IndexInv, Planning, Applying, Gating, Writing, Staging
<1>4. GateInv'
  BY DEF Planning, Writing, Staging, GateInv
<1>5. StagedInv'
  BY DEF Planning, Staging, StagedInv
<1>6. ResultInv'
  <2>1. run.at \in Busy /\ published = {} /\ run.output = "none" /\ run.applied = FALSE
    BY DEF CommandInvariant, ResultInv, Busy, Planning
  <2>2. run'.at = "report" => Announced'
    BY <2>1 DEF Announced, Still
  <2>3. QED
    BY <2>1, <2>2 DEF Still, ResultInv, Busy, Reading, Planning, Applying, Gating, Writing, Staging
<1>7. QED
  BY <1>1, <1>2, <1>3, <1>4, <1>5, <1>6 DEF CommandInvariant, Still

(* The root is captured together with its index.                           *)
LEMMA CaptureKeeps ==
  ASSUME CommandInvariant, CaptureRoot PROVE CommandInvariant'
<1> DEFINE node == tree[root][IndexName]
           kept == IF node = Absent THEN None ELSE bytes[node[2]]
           r == [run EXCEPT !.at = "files", !.anchor = root, !.index = node, !.indexBytes = kept]
<1>1. CASE Fail
  BY <1>1, FailKeeps DEF CaptureRoot, At, Busy, Reading
<1>2. CASE ~Fail
  <2>1. /\ run.at = "capture" /\ Continue(r) /\ root # 0
        /\ node = Absent \/ node[1] = "file"
    BY <1>2, Zenon DEF CaptureRoot, At
  <2>2. /\ DOMAIN r = RunFields /\ r.at = "files" /\ r.plan = run.plan /\ r.applied = run.applied /\ r.output = run.output
        /\ r.anchor = root /\ r.index = node /\ r.indexBytes = kept
    BY DEF CommandInvariant, RunFields
  <2> HIDE DEF r
  <2>3. /\ run' = r /\ Still
    BY <2>1 DEF Continue, Rest, Still
  <2>4. root \in Dirs /\ node \in Nodes
    BY <2>1, RootsAssumption DEF CommandInvariant, BundleInv
  <2>5. \/ node = Absent /\ kept = None
        \/ \E f \in Files : node = FileNode(f) /\ bytes[f] # None
    <3>1. CASE node = Absent
      BY <3>1
    <3>2. CASE node # Absent
      <4>1. node[1] = "file"
        BY <2>1, <3>2
      <4>2. PICK f \in Files : node = FileNode(f)
        BY <2>4, <4>1 DEF Nodes, FileNode, DirNode, Absent, LinkNode
      <4>3. bytes[f] # None
        BY <2>4, <4>2, RootsAssumption DEF CommandInvariant, BundleInv
      <4>4. QED
        BY <4>2, <4>3
    <3>3. QED
      BY <3>1, <3>2
  <2> HIDE DEF node, kept
  <2>6. BundleInv'
    BY <2>3, StillBundle DEF CommandInvariant
  <2>7. PlanInv'
    BY <2>1, <2>2, <2>3 DEF CommandInvariant, Still, PlanInv, Planning, Reading, Applying, Gating, Writing, Staging
  <2>8. IndexInv'
    BY <2>2, <2>3, <2>4, <2>5 DEF Still, IndexInv, Absent
  <2>9. GateInv'
    BY <2>2, <2>3 DEF Writing, Staging, GateInv
  <2>10. StagedInv'
    BY <2>2, <2>3 DEF Staging, StagedInv
  <2>11. ResultInv'
    <3>1. published = {} /\ run.output = "none" /\ run.applied = FALSE
      BY <2>1 DEF CommandInvariant, ResultInv, Busy, Reading
    <3>2. QED
      BY <2>2, <2>3, <3>1 DEF Still, ResultInv, Busy, Reading, Planning, Applying, Gating, Writing, Staging
  <2>12. QED
    BY <2>2, <2>3, <2>6, <2>7, <2>8, <2>9, <2>10, <2>11 DEF CommandInvariant, Still
<1>3. QED
  BY <1>1, <1>2

(* A file that is looked at changes nothing, or is appended to the plan if *)
(* it differs from what is there.                                          *)
LEMMA PlanFileKeeps ==
  ASSUME CommandInvariant, run.at \in Planning, NEW file, NEW node, NEW existing,
         PlanFile(file, node, existing)
  PROVE  CommandInvariant'
<1> DEFINE content == PlannedContent(file, existing)
           anchored == platform = "windows" /\ existing = None
           parent == IF anchored THEN ParentOf(file.path) ELSE Absent
           change == [root |-> run.anchor, path |-> file.path, content |-> content, expected |-> existing,
                      file |-> node, parent |-> parent,
                      locks |-> IF anchored /\ parent[1] = "dir" THEN LocksOf(file.path) ELSE {}]
           next == [run EXCEPT !.at = "look", !.todo = Tail(@), !.looked = Absent, !.text = None]
           longer == [next EXCEPT !.plan = Append(@, change)]
<1>1. \/ Fail \/ Continue(next)
      \/ existing # content /\ Continue(longer)
  BY Zenon DEF PlanFile
<1>2. change.content = content /\ change.expected = existing
  OBVIOUS
<1> HIDE DEF content, change
<1>3. /\ DOMAIN next = RunFields /\ next.at = "look" /\ next.plan = run.plan /\ next.index = run.index
      /\ next.indexBytes = run.indexBytes /\ next.applied = run.applied /\ next.output = run.output /\ next.anchor = run.anchor
  BY DEF CommandInvariant, RunFields
<1>4. /\ DOMAIN longer = RunFields /\ longer.at = "look" /\ longer.plan = Append(run.plan, change)
      /\ longer.index = run.index /\ longer.indexBytes = run.indexBytes
      /\ longer.applied = run.applied /\ longer.output = run.output /\ longer.anchor = run.anchor
  BY <1>3 DEF RunFields
<1> HIDE DEF next, longer
<1>5. /\ run.plan \in Seq(ToSet(run.plan))
      /\ \A i \in DOMAIN run.plan : run.plan[i].content # run.plan[i].expected
  BY DEF CommandInvariant, PlanInv
<1>6. CASE Continue(next)
  <2>1. Still /\ run' = next
    BY <1>6 DEF Continue, Rest, Still
  <2>2. QED
    BY <2>1, <1>3, <1>5, PlanKeeps DEF Planning
<1>7. CASE existing # content /\ Continue(longer)
  <2>1. Still /\ run' = longer
    BY <1>7 DEF Continue, Rest, Still
  <2>2. /\ longer.plan \in Seq(ToSet(longer.plan))
        /\ \A i \in DOMAIN longer.plan : longer.plan[i].content # longer.plan[i].expected
    <3>1. change.content # change.expected
      BY <1>2, <1>7
    <3>2. QED
      BY <3>1, <1>4, <1>5, AppendedPlan, Zenon
  <2>3. QED
    BY <2>1, <2>2, <1>4, PlanKeeps DEF Planning
<1>8. QED
  BY <1>1, <1>6, <1>7, FailKeeps DEF Busy

LEMMA PlanContinues ==
  ASSUME CommandInvariant, NEW r, Continue(r), DOMAIN r = RunFields, run.at \in Planning,
         r.at \in Planning \cup {"apply", "report"}, r.plan = run.plan, r.index = run.index,
         r.indexBytes = run.indexBytes, r.output = run.output, r.anchor = run.anchor,
         r.applied = IF r.at = "apply" THEN TRUE ELSE run.applied,
         r.at = "apply" => command.flag # "check" /\ run.plan # <<>>,
         r.at = "report" => command.flag # "apply" \/ run.plan = <<>>
  PROVE  CommandInvariant'
<1>1. Still
  BY DEF Continue, Rest, Still
<1>2. run' = r
  BY DEF Continue
<1>3. /\ run.plan \in Seq(ToSet(run.plan))
      /\ \A i \in DOMAIN run.plan : run.plan[i].content # run.plan[i].expected
  BY DEF CommandInvariant, PlanInv
<1>4. QED
  BY <1>1, <1>2, <1>3, PlanKeeps

LEMMA PlanGoes ==
  ASSUME CommandInvariant, NEW step \in Planning \cup {"report"}, Goto(step), run.at \in Planning,
         step = "report" => command.flag # "apply" \/ run.plan = <<>>
  PROVE  CommandInvariant'
<1> DEFINE r == [run EXCEPT !.at = step]
<1>1. /\ DOMAIN r = RunFields /\ r.at = step /\ r.plan = run.plan /\ r.index = run.index
      /\ r.indexBytes = run.indexBytes /\ r.applied = run.applied /\ r.output = run.output /\ r.anchor = run.anchor
  BY DEF CommandInvariant, RunFields
<1>2. Continue(r)
  BY DEF Goto
<1>3. step # "apply"
  BY DEF Planning
<1> HIDE DEF r
<1>4. QED
  BY <1>1, <1>2, <1>3, PlanContinues

LEMMA PlanStepsKeep ==
  ASSUME CommandInvariant,
         RenderFiles \/ LookAtTarget \/ ReadTarget \/ LookAgain \/ Planned \/ Decide
  PROVE  CommandInvariant'
<1>1. CASE RenderFiles
  <2> DEFINE r == [run EXCEPT !.at = "look", !.todo = SetToSeq(RenderedFiles)]
  <2>1. /\ DOMAIN r = RunFields /\ r.at = "look" /\ r.plan = run.plan /\ r.index = run.index
        /\ r.indexBytes = run.indexBytes /\ r.applied = run.applied /\ r.output = run.output /\ r.anchor = run.anchor
    BY DEF CommandInvariant, RunFields
  <2>2. Continue(r) /\ run.at \in Planning /\ "look" \in Planning
    BY <1>1 DEF RenderFiles, At, Planning
  <2> HIDE DEF r
  <2>3. QED
    BY <2>1, <2>2, PlanContinues
<1>2. CASE LookAtTarget
  <2> DEFINE file == Head(run.todo)
             node == Lookup(root, file.path)
             r == [run EXCEPT !.at = "readTarget", !.looked = node]
  <2>1. run.at \in Planning
    BY <1>2 DEF LookAtTarget, At, Planning
  <2>2. Fail \/ PlanFile(file, Absent, None) \/ Continue(r)
    BY <1>2, Zenon DEF LookAtTarget
  <2>3. /\ DOMAIN r = RunFields /\ r.at = "readTarget" /\ r.plan = run.plan /\ r.index = run.index
        /\ r.indexBytes = run.indexBytes /\ r.applied = run.applied /\ r.output = run.output /\ r.anchor = run.anchor
    BY DEF CommandInvariant, RunFields
  <2>4. "readTarget" \in Planning
    BY DEF Planning
  <2> HIDE DEF r, file
  <2>5. CASE Continue(r)
    BY <2>1, <2>3, <2>4, <2>5, PlanContinues
  <2>6. QED
    BY <2>1, <2>2, <2>5, FailKeeps, PlanFileKeeps DEF Busy
<1>3. CASE ReadTarget
  <2>1. run.at \in Planning
    BY <1>3 DEF ReadTarget, At, Planning
  <2>2. Fail \/ \E text : Continue([run EXCEPT !.at = "lookAgain", !.text = text])
    BY <1>3, Zenon DEF ReadTarget
  <2>3. ASSUME NEW text, Continue([run EXCEPT !.at = "lookAgain", !.text = text])
        PROVE  CommandInvariant'
    <3> DEFINE r == [run EXCEPT !.at = "lookAgain", !.text = text]
    <3>1. /\ DOMAIN r = RunFields /\ r.at = "lookAgain" /\ r.plan = run.plan /\ r.index = run.index
          /\ r.indexBytes = run.indexBytes /\ r.applied = run.applied /\ r.output = run.output /\ r.anchor = run.anchor
      BY DEF CommandInvariant, RunFields
    <3>2. Continue(r) /\ "lookAgain" \in Planning
      BY <2>3 DEF Planning
    <3> HIDE DEF r
    <3>3. QED
      BY <2>1, <3>1, <3>2, PlanContinues
  <2>4. QED
    BY <2>1, <2>2, <2>3, FailKeeps DEF Busy
<1>4. CASE LookAgain
  <2>1. run.at \in Planning
    BY <1>4 DEF LookAgain, At, Planning
  <2>2. Fail \/ PlanFile(Head(run.todo), run.looked, run.text)
    BY <1>4, Zenon DEF LookAgain
  <2>3. QED
    BY <2>1, <2>2, FailKeeps, PlanFileKeeps DEF Busy
<1>5. CASE Planned
  <2>1. run.at \in Planning
    BY <1>5 DEF Planned, At, Planning
  <2>2. Goto("decide") \/ (command.name = "migrate" /\ Goto("report"))
    BY <1>5 DEF Planned
  <2>3. command.name = "migrate" => command.flag # "apply"
    BY CommandsAssumption DEF CommandInvariant
  <2>4. QED
    BY <2>1, <2>2, <2>3, PlanGoes DEF Planning
<1>6. CASE Decide
  <2>1. run.at \in Planning
    BY <1>6 DEF Decide, At, Planning
  <2>2. \/ Fail
        \/ (command.flag # "apply" \/ run.plan = <<>>) /\ Goto("report")
        \/ /\ command.flag # "check" /\ run.plan # <<>>
           /\ Continue([run EXCEPT !.at = "apply", !.applied = TRUE])
    BY <1>6 DEF Decide
  <2>3. ASSUME command.flag # "check", run.plan # <<>>, Continue([run EXCEPT !.at = "apply", !.applied = TRUE])
        PROVE  CommandInvariant'
    <3> DEFINE r == [run EXCEPT !.at = "apply", !.applied = TRUE]
    <3>1. /\ DOMAIN r = RunFields /\ r.at = "apply" /\ r.plan = run.plan /\ r.index = run.index
          /\ r.indexBytes = run.indexBytes /\ r.applied = TRUE /\ r.output = run.output /\ r.anchor = run.anchor
      BY DEF CommandInvariant, RunFields
    <3>2. Continue(r)
      BY <2>3
    <3> HIDE DEF r
    <3>3. QED
      BY <2>1, <2>3, <3>1, <3>2, PlanContinues
  <2>4. QED
    BY <2>1, <2>2, <2>3, FailKeeps, PlanGoes DEF Planning, Busy
<1>7. QED
  BY <1>1, <1>2, <1>3, <1>4, <1>5, <1>6

-----------------------------------------------------------------------------
(* Before there is a file to publish: the gate and the way to the parent.  *)

Gated == Applying \ Staging

(* The plan and its index stay what they are; the gate may read.           *)
LEMMA GateStepKeeps ==
  ASSUME CommandInvariant, UNCHANGED <<platform, root, command, tree, bytes, published>>, SamePlan,
         run.at \in Gated, run'.at \in Gated \ {"apply"}, run'.anchor = run.anchor,
         run'.at \notin {"gateRead", "gateAgain"} \/ run.index # Absent,
         run'.at = "gateAgain" /\ IndexInPlace = run.index => gated' = run.indexBytes,
         run'.at \in Writing => GateHeld',
         DOMAIN run.plan = {1} /\ \A i \in DOMAIN run.plan : run.plan[i].expected = None
  PROVE  CommandInvariant'
<1>1. BundleInv'
  BY DEF CommandInvariant, BundleInv
<1>2. PlanInv'
  BY DEF CommandInvariant, SamePlan, PlanInv, Gated, Reading, Applying, Gating, Writing, Staging
<1>3. IndexInv'
  BY DEF CommandInvariant, SamePlan, IndexInv, Gated, Planning, Applying, Gating, Writing, Staging
<1>4. GateInv'
  BY DEF SamePlan, GateInv, IndexInPlace
<1>5. StagedInv'
  BY DEF Gated, Staging, StagedInv
<1>6. ResultInv'
  BY DEF CommandInvariant, SamePlan, ResultInv, Gated, Busy, Reading, Planning, Applying, Gating, Writing, Staging
<1>7. QED
  BY <1>1, <1>2, <1>3, <1>4, <1>5, <1>6 DEF CommandInvariant, SamePlan

(* A step on the way to the parent, when the gate was passed.              *)
LEMMA WayContinues ==
  ASSUME CommandInvariant, NEW r, Continue(r), DOMAIN r = RunFields,
         run.at \in Writing \ Staging, r.at \in Writing \ Staging,
         r.plan = run.plan, r.index = run.index, r.indexBytes = run.indexBytes,
         r.applied = run.applied /\ r.output = run.output, r.anchor = run.anchor
  PROVE  CommandInvariant'
<1>1. /\ UNCHANGED <<platform, root, command, tree, bytes, published, gated>> /\ run' = r
  BY DEF Continue, Rest
<1>2. SamePlan
  BY <1>1 DEF SamePlan
<1>3. GateHeld' /\ DOMAIN run.plan = {1} /\ \A i \in DOMAIN run.plan : run.plan[i].expected = None
  <2>1. GateHeld /\ DOMAIN run.plan = {1} /\ \A i \in DOMAIN run.plan : run.plan[i].expected = None
    BY DEF CommandInvariant, GateInv, PlanInv, Applying, Writing, Staging
  <2>2. QED
    BY <1>1, <2>1 DEF GateHeld, VersionRefused, RootIndexOf, Unparsable, IsConcept
<1>4. run.at \in Gated /\ run'.at \in Gated \ {"apply", "gateRead", "gateAgain"}
  BY <1>1 DEF Gated, Applying, Writing, Gating, Staging
<1>5. QED
  BY <1>1, <1>2, <1>3, <1>4, GateStepKeeps

LEMMA ApplyKeeps ==
  ASSUME CommandInvariant, ApplyPlan PROVE CommandInvariant'
<1>1. CASE Fail
  BY <1>1, FailKeeps DEF ApplyPlan, At, Busy, Applying
<1>2. CASE ~Fail
  <2>1. /\ run.at = "apply" /\ Goto("gateLook") /\ ~(Len(run.plan) > 1)
        /\ \A i \in DOMAIN run.plan : run.plan[i].expected = None
    BY <1>2 DEF ApplyPlan, At
  <2>2. UNCHANGED <<platform, root, command, tree, bytes, published>>
    BY <2>1 DEF Goto, Continue, Rest
  <2>3. SamePlan /\ run'.at = "gateLook" /\ run'.anchor = run.anchor
    BY <2>1 DEF Goto, Continue, SamePlan, CommandInvariant, RunFields
  <2>4. run.at \in Gated /\ "gateLook" \in Gated \ {"apply", "gateRead", "gateAgain"} /\ "gateLook" \notin Writing
    BY <2>1 DEF Gated, Applying, Gating, Writing, Staging
  <2>5. DOMAIN run.plan = {1}
    <3>1. run.plan \in Seq(ToSet(run.plan)) /\ run.plan # <<>>
      BY <2>1 DEF CommandInvariant, PlanInv, Applying
    <3>2. Len(run.plan) \in Nat /\ Len(run.plan) # 0 /\ DOMAIN run.plan = 1..Len(run.plan)
      BY <3>1
    <3>3. Len(run.plan) = 1
      <4>1. \A n \in Nat : n # 0 /\ ~(n > 1) => n = 1
        OBVIOUS
      <4>2. QED
        BY <2>1, <3>2, <4>1, Zenon
    <3>4. QED
      BY <3>2, <3>3
  <2>6. QED
    BY <2>1, <2>2, <2>3, <2>4, <2>5, GateStepKeeps
<1>3. QED
  BY <1>1, <1>2

LEMMA GateLookKeeps ==
  ASSUME CommandInvariant, GateLook PROVE CommandInvariant'
<1>1. CASE Fail
  BY <1>1, FailKeeps DEF GateLook, At, Busy, Applying, Gating
<1>2. CASE ~Fail
  <2>1. /\ run.at = "gateLook" /\ UNCHANGED <<platform, root, command, tree, bytes, published>>
        /\ \/ run.index = Absent /\ run' = [run EXCEPT !.at = "anchor"] /\ gated' = None
           \/ run.index # Absent /\ run' = [run EXCEPT !.at = "gateRead"]
    BY <1>2 DEF GateLook, At, Goto, Continue, Rest
  <2>2. SamePlan /\ run'.anchor = run.anchor /\ run'.at \in {"anchor", "gateRead"}
        /\ (run'.at = "gateRead" => run.index # Absent)
        /\ (run'.at = "anchor" => run.index = Absent /\ gated' = None)
    BY <2>1 DEF SamePlan, CommandInvariant, RunFields
  <2>3. run.at \in Gated /\ run'.at \in Gated \ {"apply", "gateAgain"}
        /\ (run'.at \in Writing => run'.at = "anchor")
    BY <2>1, <2>2 DEF Gated, Applying, Gating, Writing, Staging
  <2>4. DOMAIN run.plan = {1} /\ \A i \in DOMAIN run.plan : run.plan[i].expected = None
    BY <2>1 DEF CommandInvariant, PlanInv, Applying, Gating
  <2>5. run'.at \in Writing => GateHeld'
    <3>1. run.index = Absent => run.indexBytes = None
      BY DEF CommandInvariant, IndexInv, Absent, FileNode
    <3>2. QED
      BY <2>2, <2>3, <3>1 DEF GateHeld, SamePlan
  <2>6. QED
    BY <2>1, <2>2, <2>3, <2>4, <2>5, GateStepKeeps
<1>3. QED
  BY <1>1, <1>2

(* The bytes are those that were planned: if the planned index is in its   *)
(* place, it is what the gate has read.                                    *)
LEMMA GateReadKeeps ==
  ASSUME CommandInvariant, GateRead PROVE CommandInvariant'
<1>1. /\ run.at = "gateRead" /\ UNCHANGED <<platform, root, command, tree, bytes, published>>
      /\ gated' = (IF IndexInPlace[1] = "file" THEN bytes[IndexInPlace[2]] ELSE None)
  BY DEF GateRead, At, Rest
<1>2. run.index # Absent /\ DOMAIN run.plan = {1} /\ \A i \in DOMAIN run.plan : run.plan[i].expected = None
  BY <1>1 DEF CommandInvariant, GateInv, PlanInv, Applying, Gating
<1>3. CASE bytes[run.index[2]] # run.indexBytes
  <2>1. run' = Failed
    BY <1>3 DEF GateRead
  <2>2. SamePlan /\ run'.at = "done" /\ run'.exit = 2
    BY <2>1 DEF Failed, SamePlan, CommandInvariant, RunFields
  <2>3. BundleInv'
    BY <1>1 DEF CommandInvariant, BundleInv
  <2>4. PlanInv'
    BY <2>2, <1>1 DEF CommandInvariant, SamePlan, PlanInv, Reading, Applying, Gating, Writing, Staging
  <2>5. IndexInv'
    BY <2>2, <1>1 DEF CommandInvariant, SamePlan, IndexInv, Planning, Applying, Gating, Writing, Staging
  <2>6. GateInv'
    BY <2>2 DEF GateInv, Writing, Staging
  <2>7. StagedInv'
    BY <2>2 DEF StagedInv, Staging
  <2>8. ResultInv'
    BY <2>2, <1>1 DEF CommandInvariant, SamePlan, ResultInv, Busy, Reading, Planning, Applying, Gating, Writing, Staging
  <2>9. QED
    BY <1>1, <2>2, <2>3, <2>4, <2>5, <2>6, <2>7, <2>8 DEF CommandInvariant, SamePlan
<1>4. CASE bytes[run.index[2]] = run.indexBytes
  <2>1. run' = [run EXCEPT !.at = "gateAgain"]
    BY <1>4 DEF GateRead
  <2>2. SamePlan /\ run'.at = "gateAgain" /\ run'.anchor = run.anchor
    BY <2>1 DEF SamePlan, CommandInvariant, RunFields
  <2>3. run.at \in Gated /\ "gateAgain" \in Gated \ {"apply"} /\ "gateAgain" \notin Writing
    BY <1>1 DEF Gated, Applying, Gating, Writing, Staging
  <2>4. IndexInPlace = run.index => gated' = run.indexBytes
    <3>1. PICK f \in Files : run.index = FileNode(f)
      BY <1>2 DEF CommandInvariant, IndexInv
    <3>2. QED
      BY <1>1, <1>4, <3>1 DEF FileNode
  <2>5. QED
    BY <1>1, <1>2, <2>2, <2>3, <2>4, GateStepKeeps
<1>5. QED
  BY <1>3, <1>4

LEMMA GateAgainKeeps ==
  ASSUME CommandInvariant, GateAgain PROVE CommandInvariant'
<1>1. CASE Fail
  BY <1>1, FailKeeps DEF GateAgain, At, Busy, Applying, Gating
<1>2. CASE ~Fail
  <2>1. /\ run.at = "gateAgain" /\ Goto("anchor") /\ IndexInPlace = run.index
        /\ ~VersionRefused({[path |-> <<IndexName>>, content |-> run.indexBytes]})
    BY <1>2, Zenon DEF GateAgain, At
  <2>2. /\ UNCHANGED <<platform, root, command, tree, bytes, published, gated>>
        /\ run' = [run EXCEPT !.at = "anchor"]
    BY <2>1 DEF Goto, Continue, Rest
  <2>3. SamePlan /\ run'.at = "anchor" /\ run'.anchor = run.anchor
    BY <2>2 DEF SamePlan, CommandInvariant, RunFields
  <2>4. run.at \in Gated /\ "anchor" \in Gated \ {"apply", "gateRead", "gateAgain"}
    BY <2>1 DEF Gated, Applying, Gating, Writing, Staging
  <2>5. DOMAIN run.plan = {1} /\ \A i \in DOMAIN run.plan : run.plan[i].expected = None
    BY <2>1 DEF CommandInvariant, PlanInv, Applying, Gating
  <2>6. GateHeld
    BY <2>1 DEF CommandInvariant, GateInv, GateHeld
  <2>7. GateHeld'
    BY <2>2, <2>3, <2>6 DEF SamePlan, GateHeld, VersionRefused, RootIndexOf, Unparsable, IsConcept
  <2>8. QED
    BY <2>2, <2>3, <2>4, <2>5, <2>7, GateStepKeeps
<1>3. QED
  BY <1>1, <1>2

LEMMA WayGoes ==
  ASSUME CommandInvariant, NEW step \in Writing \ Staging, Goto(step), run.at \in Writing \ Staging
  PROVE  CommandInvariant'
<1> DEFINE r == [run EXCEPT !.at = step]
<1>1. /\ DOMAIN r = RunFields /\ r.at = step /\ r.plan = run.plan /\ r.index = run.index
      /\ r.indexBytes = run.indexBytes /\ r.applied = run.applied /\ r.output = run.output /\ r.anchor = run.anchor
  BY DEF CommandInvariant, RunFields
<1>2. Continue(r)
  BY DEF Goto
<1> HIDE DEF r
<1>3. QED
  BY <1>1, <1>2, WayContinues

LEMMA WayStepsKeep ==
  ASSUME CommandInvariant, AnchorRoot \/ Preflight \/ ParentsOpen PROVE CommandInvariant'
<1>1. CASE AnchorRoot
  <2>1. run.at \in Writing \ Staging /\ "preflight" \in Writing \ Staging
    BY <1>1 DEF AnchorRoot, At, Writing, Staging
  <2>2. Fail \/ Goto("preflight")
    BY <1>1 DEF AnchorRoot
  <2>3. QED
    BY <2>1, <2>2, FailKeeps, WayGoes DEF Busy, Applying
<1>2. CASE Preflight
  <2>1. run.at \in Writing \ Staging
    BY <1>2 DEF Preflight, At, Writing, Staging
  <2>2. \/ Fail
        \/ \E parent, todo : Continue([run EXCEPT !.at = "parents", !.parent = parent, !.todo = todo])
        \/ \E parent : Continue([run EXCEPT !.at = "stage", !.parent = parent])
    BY <1>2, Zenon DEF Preflight
  <2>3. ASSUME NEW parent, NEW todo,
               Continue([run EXCEPT !.at = "parents", !.parent = parent, !.todo = todo])
        PROVE  CommandInvariant'
    <3> DEFINE r == [run EXCEPT !.at = "parents", !.parent = parent, !.todo = todo]
    <3>1. /\ DOMAIN r = RunFields /\ r.at = "parents" /\ r.plan = run.plan /\ r.index = run.index
          /\ r.indexBytes = run.indexBytes /\ r.applied = run.applied /\ r.output = run.output /\ r.anchor = run.anchor
      BY DEF CommandInvariant, RunFields
    <3>2. Continue(r) /\ "parents" \in Writing \ Staging
      BY <2>3 DEF Writing, Staging
    <3> HIDE DEF r
    <3>3. QED
      BY <2>1, <3>1, <3>2, WayContinues
  <2>4. ASSUME NEW parent, Continue([run EXCEPT !.at = "stage", !.parent = parent])
        PROVE  CommandInvariant'
    <3> DEFINE r == [run EXCEPT !.at = "stage", !.parent = parent]
    <3>1. /\ DOMAIN r = RunFields /\ r.at = "stage" /\ r.plan = run.plan /\ r.index = run.index
          /\ r.indexBytes = run.indexBytes /\ r.applied = run.applied /\ r.output = run.output /\ r.anchor = run.anchor
      BY DEF CommandInvariant, RunFields
    <3>2. Continue(r) /\ "stage" \in Writing \ Staging
      BY <2>4 DEF Writing, Staging
    <3> HIDE DEF r
    <3>3. QED
      BY <2>1, <3>1, <3>2, WayContinues
  <2>5. QED
    BY <2>1, <2>2, <2>3, <2>4, FailKeeps DEF Busy, Applying
<1>3. CASE ParentsOpen
  <2>1. run.at \in Writing \ Staging /\ "stage" \in Writing \ Staging
    BY <1>3 DEF ParentsOpen, At, Writing, Staging
  <2>2. QED
    BY <2>1, <1>3, WayGoes DEF ParentsOpen
<1>4. QED
  BY <1>1, <1>2, <1>3

-----------------------------------------------------------------------------
(* What a step does to the entries and to the bytes.                       *)

Typed(t) == t \in [Dirs -> [Names -> Nodes]]

Put(t, p, n, node) == [t EXCEPT ![p][n] = node]

(* An identity that is free names nothing and holds nothing.               *)
LEMMA FreshFacts ==
  /\ FreeFiles # {} => FreshFile \in Files /\ bytes[FreshFile] = None
  /\ FreeDirs # {} => FreshDir \in Dirs /\ \A n \in Names : tree[FreshDir][n] = <<"free">>
<1>1. FreeFiles # {} => FreshFile \in FreeFiles
  BY DEF FreshFile
<1>2. FreeDirs # {} => FreshDir \in FreeDirs
  BY DEF FreshDir
<1>3. QED
  BY <1>1, <1>2 DEF FreeFiles, FreeDirs, Names

LEMMA EntryChange ==
  ASSUME NEW t, Typed(t), NEW p, NEW n, NEW node \in Nodes
  PROVE  /\ Typed(Put(t, p, n, node))
         /\ \A d \in Dirs, m \in Names :
              Put(t, p, n, node)[d][m] = IF d = p /\ m = n THEN node ELSE t[d][m]
BY DEF Typed, Put

LEMMA BytesChange ==
  ASSUME bytes = [f \in Files |-> bytes[f]], NEW f \in Files, NEW text, bytes' = [bytes EXCEPT ![f] = text]
  PROVE  /\ bytes' = [g \in Files |-> bytes'[g]]
         /\ \A g \in Files : bytes'[g] = IF g = f THEN text ELSE bytes[g]
OBVIOUS

(* A new directory takes the place of nothing.                             *)
Creates(d, n) ==
  \/ tree'[d][n] = tree[d][n]
  \/ tree[d][n] = <<"free">> /\ tree'[d][n] = Absent
  \/ tree[d][n] = Absent /\ \E e \in Dirs : tree'[d][n] = DirNode(e)

LEMMA DirectoryCreated ==
  ASSUME BundleInv, FreeDirs # {}, NEW p, NEW name, tree[p][name] = Absent,
         tree' = [tree EXCEPT ![p][name] = DirNode(FreshDir), ![FreshDir] = [n \in ToSet(Order) |-> Absent]]
  PROVE  Typed(tree') /\ \A d \in Dirs, n \in Names : Creates(d, n)
<1> DEFINE made == Put(tree, p, name, DirNode(FreshDir))
           empty == [n \in Names |-> Absent]
<1>1. Typed(tree)
  BY DEF BundleInv, Typed, Names
<1>2. FreshDir \in Dirs /\ \A n \in Names : tree[FreshDir][n] = <<"free">>
  BY FreshFacts
<1>3. DirNode(FreshDir) \in Nodes /\ Absent \in Nodes
  BY <1>2 DEF Nodes
<1>4. /\ Typed(made)
      /\ \A d \in Dirs, m \in Names :
           made[d][m] = IF d = p /\ m = name THEN DirNode(FreshDir) ELSE tree[d][m]
  BY <1>1, <1>3, EntryChange
<1>5. tree' = [made EXCEPT ![FreshDir] = empty]
  BY DEF Names, Put
<1>6. empty \in [Names -> Nodes] /\ \A n \in Names : empty[n] = Absent
  BY <1>3
<1> HIDE DEF made, empty
<1>7. /\ Typed(tree')
      /\ \A d \in Dirs : tree'[d] = IF d = FreshDir THEN empty ELSE made[d]
  BY <1>2, <1>4, <1>5, <1>6 DEF Typed
<1>8. ASSUME NEW d \in Dirs, NEW n \in Names PROVE Creates(d, n)
  <2>1. CASE d = FreshDir
    BY <2>1, <1>2, <1>6, <1>7 DEF Creates
  <2>2. CASE d # FreshDir
    <3>1. tree'[d] = made[d]
      BY <2>2, <1>7
    <3>2. made[d][n] = IF d = p /\ n = name THEN DirNode(FreshDir) ELSE tree[d][n]
      BY <1>4
    <3>3. QED
      BY <3>1, <3>2, <1>2 DEF Creates
  <2>3. QED
    BY <2>1, <2>2
<1>9. QED
  BY <1>7, <1>8

(* The reservation is made where there was nothing.                        *)
LEMMA StageChanges ==
  ASSUME CommandInvariant, Stage, ~Fail
  PROVE  /\ run.at = "stage" /\ FreshFile \in Files /\ bytes[FreshFile] = None
         /\ bytes' = [bytes EXCEPT ![FreshFile] = Empty]
         /\ run' = [run EXCEPT !.at = "write", !.staged = FreshFile]
         /\ UNCHANGED <<platform, root, command, published, gated>>
         /\ Typed(tree')
         /\ platform = "unix" => tree' = tree
         /\ platform = "windows" =>
              \A d \in Dirs, n \in Names :
                IF d = run.parent /\ n = Reservation
                THEN tree[d][n] = Absent /\ tree'[d][n] = FileNode(FreshFile)
                ELSE tree'[d][n] = tree[d][n]
<1>1. /\ run.at = "stage" /\ FreeFiles # {}
      /\ platform = "windows" => tree[run.parent][Reservation] = Absent
      /\ bytes' = [bytes EXCEPT ![FreshFile] = Empty]
      /\ run' = [run EXCEPT !.at = "write", !.staged = FreshFile]
      /\ UNCHANGED <<platform, root, command, published, gated>>
      /\ platform = "unix" => tree' = tree
      /\ platform # "unix" => tree' = Put(tree, run.parent, Reservation, FileNode(FreshFile))
  BY DEF Stage, At, Rest, Put
<1>2. FreshFile \in Files /\ bytes[FreshFile] = None /\ FileNode(FreshFile) \in Nodes
  BY <1>1, FreshFacts DEF Nodes
<1>3. Typed(tree) /\ platform \in {"unix", "windows"}
  BY DEF CommandInvariant, BundleInv, Typed, Names
<1>4. platform = "windows" =>
        /\ Typed(tree')
        /\ \A d \in Dirs, n \in Names :
             tree'[d][n] = IF d = run.parent /\ n = Reservation THEN FileNode(FreshFile) ELSE tree[d][n]
  BY <1>1, <1>2, <1>3, EntryChange
<1>5. QED
  BY <1>1, <1>2, <1>3, <1>4

(* The name and the reservation change in one step; both are free of what  *)
(* others made.                                                            *)
LEMMA PublishChanges ==
  ASSUME CommandInvariant, Publish
  PROVE  /\ run.at = "publish" /\ run.staged \in Files /\ Typed(tree')
         /\ run' = [run EXCEPT !.at = "report"]
         /\ published' = published \cup {<<run.parent, Leaf, run.staged>>}
         /\ UNCHANGED <<platform, root, command, bytes, gated>>
         /\ \A d \in Dirs, n \in Names :
              \/ tree'[d][n] = tree[d][n]
              \/ tree[d][n] = Absent /\ tree'[d][n] = FileNode(run.staged)
              \/ tree[d][n] = FileNode(run.staged) /\ tree'[d][n] = Absent
<1> DEFINE named == Put(tree, run.parent, Leaf, FileNode(run.staged))
           cleared == Put(named, run.parent, Reservation, Absent)
<1>1. /\ run.at = "publish" /\ tree[run.parent][Leaf] = Absent
      /\ tree' = IF platform = "windows" THEN cleared ELSE named
      /\ run' = [run EXCEPT !.at = "report"]
      /\ published' = published \cup {<<run.parent, Leaf, run.staged>>}
      /\ UNCHANGED <<platform, root, command, bytes, gated>>
  BY DEF Publish, At, Rest, Put
<1>2. /\ run.staged \in Files
      /\ platform = "windows" /\ run.parent \in Dirs => tree[run.parent][Reservation] = FileNode(run.staged)
  BY <1>1 DEF CommandInvariant, StagedInv, Staging
<1>3. Typed(tree) /\ FileNode(run.staged) \in Nodes /\ Absent \in Nodes
  BY <1>2 DEF CommandInvariant, BundleInv, Typed, Names, Nodes
<1>4. /\ Typed(tree')
      /\ \A d \in Dirs, n \in Names :
           tree'[d][n] = IF d # run.parent THEN tree[d][n]
                         ELSE IF platform = "windows" /\ n = Reservation THEN Absent
                         ELSE IF n = Leaf THEN FileNode(run.staged) ELSE tree[d][n]
  <2>1. /\ Typed(named)
        /\ \A d \in Dirs, n \in Names :
             named[d][n] = IF d = run.parent /\ n = Leaf THEN FileNode(run.staged) ELSE tree[d][n]
    BY <1>3, EntryChange
  <2> HIDE DEF named
  <2>2. /\ Typed(cleared)
        /\ \A d \in Dirs, n \in Names :
             cleared[d][n] = IF d = run.parent /\ n = Reservation THEN Absent ELSE named[d][n]
    BY <1>3, <2>1, EntryChange
  <2> HIDE DEF cleared
  <2>3. QED
    BY <1>1, <2>1, <2>2
<1>5. ASSUME NEW d \in Dirs, NEW n \in Names
      PROVE  \/ tree'[d][n] = tree[d][n]
             \/ tree[d][n] = Absent /\ tree'[d][n] = FileNode(run.staged)
             \/ tree[d][n] = FileNode(run.staged) /\ tree'[d][n] = Absent
  BY <1>1, <1>2, <1>4
<1>6. QED
  BY <1>1, <1>2, <1>4, <1>5

(* Only the reservation of the command itself is discarded.                *)
LEMMA DiscardChanges ==
  ASSUME CommandInvariant, Discard
  PROVE  /\ run.at = "discard" /\ run' = Failed /\ Typed(tree')
         /\ UNCHANGED <<platform, root, command, bytes, published, gated>>
         /\ \A d \in Dirs, n \in Names :
              \/ tree'[d][n] = tree[d][n]
              \/ tree[d][n] = FileNode(run.staged) /\ tree'[d][n] = Absent
<1>1. /\ run.at = "discard" /\ run' = Failed
      /\ UNCHANGED <<platform, root, command, bytes, published, gated>>
      /\ tree' = tree \/ tree' = Put(tree, run.parent, Reservation, Absent)
  BY DEF Discard, At, Rest, Put
<1>2. run.parent \in Dirs => tree[run.parent][Reservation] = FileNode(run.staged)
  BY <1>1 DEF CommandInvariant, StagedInv, Staging
<1>3. Typed(tree) /\ Absent \in Nodes
  BY DEF CommandInvariant, BundleInv, Typed, Names, Nodes
<1>4. CASE tree' = tree
  BY <1>1, <1>3, <1>4
<1>5. CASE tree' = Put(tree, run.parent, Reservation, Absent)
  <2>1. /\ Typed(tree')
        /\ \A d \in Dirs, n \in Names :
             tree'[d][n] = IF d = run.parent /\ n = Reservation THEN Absent ELSE tree[d][n]
    BY <1>3, <1>5, EntryChange
  <2>2. QED
    BY <1>1, <1>2, <2>1
<1>6. QED
  BY <1>1, <1>4, <1>5

-----------------------------------------------------------------------------
(* Steps that change the bundle.                                           *)

(* When the gate was passed, what it found stays true.                     *)
LEMMA HeldStays ==
  ASSUME GateHeld, gated' = gated, run'.indexBytes = run.indexBytes
  PROVE  GateHeld'
BY DEF GateHeld, VersionRefused, RootIndexOf, Unparsable, IsConcept

LEMMA OpenParentKeeps ==
  ASSUME CommandInvariant, OpenParent PROVE CommandInvariant'
<1> DEFINE name == Head(run.todo)
           node == tree[run.parent][name]
           next(d) == [run EXCEPT !.parent = d, !.todo = Tail(@)]
<1>1. run.at = "parents" /\ run.at \in Writing \ Staging
  BY DEF OpenParent, At, Writing, Staging
<1>2. \/ Fail
      \/ Continue(next(node[2]))
      \/ /\ node = Absent /\ FreeDirs # {} /\ run' = next(FreshDir)
         /\ tree' = [tree EXCEPT ![run.parent][name] = DirNode(FreshDir),
                                 ![FreshDir] = [n \in ToSet(Order) |-> Absent]]
         /\ UNCHANGED <<platform, root, command, bytes, published, gated>>
  BY Zenon DEF OpenParent, Rest
<1>3. \A d : /\ DOMAIN next(d) = RunFields /\ next(d).at = run.at /\ next(d).plan = run.plan
             /\ next(d).index = run.index /\ next(d).indexBytes = run.indexBytes
             /\ next(d).applied = run.applied /\ next(d).output = run.output /\ next(d).anchor = run.anchor
  BY DEF CommandInvariant, RunFields
<1> HIDE DEF next
<1>4. CASE Continue(next(node[2]))
  BY <1>1, <1>3, <1>4, WayContinues
<1>5. CASE /\ node = Absent /\ FreeDirs # {} /\ run' = next(FreshDir)
           /\ tree' = [tree EXCEPT ![run.parent][name] = DirNode(FreshDir),
                                   ![FreshDir] = [n \in ToSet(Order) |-> Absent]]
           /\ UNCHANGED <<platform, root, command, bytes, published, gated>>
  <2>1. Typed(tree') /\ \A d \in Dirs, n \in Names : Creates(d, n)
    BY <1>5, DirectoryCreated DEF CommandInvariant
  <2>2. SamePlan /\ run'.at = "parents" /\ run'.anchor = run.anchor
    BY <1>1, <1>3, <1>5 DEF SamePlan
  <2>3. BundleInv'
    <3>1. ASSUME NEW d \in Dirs, NEW n \in Names, NEW f \in Files, tree'[d][n] = FileNode(f)
          PROVE  bytes[f] # None
      <4>1. tree[d][n] = FileNode(f)
        BY <2>1, <3>1 DEF Creates, FileNode, DirNode, Absent
      <4>2. QED
        BY <4>1 DEF CommandInvariant, BundleInv, Names
    <3>2. QED
      BY <1>5, <2>1, <3>1 DEF CommandInvariant, BundleInv, Names, Typed
  <2>4. PlanInv'
    BY <1>1, <1>5, <2>2 DEF CommandInvariant, SamePlan, PlanInv, Reading, Applying, Gating, Writing, Staging
  <2>5. IndexInv'
    BY <1>1, <1>5, <2>2 DEF CommandInvariant, SamePlan, IndexInv, Planning, Applying, Gating, Writing, Staging
  <2>6. GateInv'
    <3>1. GateHeld
      BY <1>1 DEF CommandInvariant, GateInv
    <3>2. GateHeld'
      BY <3>1, <1>5, <2>2, HeldStays DEF SamePlan
    <3>3. QED
      BY <2>2, <3>2 DEF GateInv
  <2>7. StagedInv'
    BY <2>2 DEF StagedInv, Staging
  <2>8. ResultInv'
    BY <1>1, <1>5, <2>2 DEF CommandInvariant, SamePlan, ResultInv, Busy, Reading, Planning, Applying, Gating, Writing, Staging
  <2>9. QED
    BY <1>5, <2>2, <2>3, <2>4, <2>5, <2>6, <2>7, <2>8 DEF CommandInvariant, SamePlan
<1>6. QED
  BY <1>1, <1>2, <1>4, <1>5, FailKeeps DEF Busy, Applying

LEMMA StageKeeps ==
  ASSUME CommandInvariant, Stage PROVE CommandInvariant'
<1>1. CASE Fail
  BY <1>1, FailKeeps DEF Stage, At, Busy, Applying, Writing
<1>2. CASE ~Fail
  <2>1. /\ run.at = "stage" /\ FreshFile \in Files /\ bytes[FreshFile] = None
        /\ bytes' = [bytes EXCEPT ![FreshFile] = Empty]
        /\ run' = [run EXCEPT !.at = "write", !.staged = FreshFile]
        /\ UNCHANGED <<platform, root, command, published, gated>>
        /\ Typed(tree')
        /\ platform = "unix" => tree' = tree
        /\ platform = "windows" =>
             \A d \in Dirs, n \in Names :
               IF d = run.parent /\ n = Reservation
               THEN tree[d][n] = Absent /\ tree'[d][n] = FileNode(FreshFile)
               ELSE tree'[d][n] = tree[d][n]
    BY <1>2, StageChanges
  <2>2. /\ bytes' = [g \in Files |-> bytes'[g]]
        /\ \A g \in Files : bytes'[g] = IF g = FreshFile THEN Empty ELSE bytes[g]
    BY <2>1, BytesChange DEF CommandInvariant, BundleInv
  <2>3. Empty # None
    BY DEF Empty, None
  <2>4. /\ SamePlan /\ run'.at = "write" /\ run'.anchor = run.anchor /\ run'.staged = FreshFile
        /\ run'.parent = run.parent
    BY <2>1 DEF SamePlan, CommandInvariant, RunFields
  <2>5. platform \in {"unix", "windows"}
    BY DEF CommandInvariant, BundleInv
  <2>6. \A d \in Dirs, n \in Names : tree[d][n] # FileNode(FreshFile)
    BY <2>1 DEF CommandInvariant, BundleInv, Names
  <2>7. BundleInv'
    <3>1. ASSUME NEW d \in Dirs, NEW n \in Names, NEW f \in Files, tree'[d][n] = FileNode(f)
          PROVE  bytes'[f] # None
      <4>1. tree[d][n] = FileNode(f) => bytes[f] # None
        BY DEF CommandInvariant, BundleInv, Names
      <4>2. tree[d][n] = FileNode(f) \/ tree'[d][n] = FileNode(FreshFile)
        BY <2>1, <2>5, <3>1
      <4>3. f = FreshFile \/ bytes[f] # None
        BY <3>1, <4>1, <4>2 DEF FileNode
      <4>4. QED
        BY <2>2, <2>3, <4>3
    <3>2. QED
      BY <2>1, <2>2, <3>1 DEF CommandInvariant, BundleInv, Names, Typed
  <2>8. PlanInv'
    BY <2>1, <2>4 DEF CommandInvariant, SamePlan, PlanInv, Reading, Applying, Gating, Writing, Staging
  <2>9. IndexInv'
    BY <2>1, <2>2, <2>3, <2>4 DEF CommandInvariant, SamePlan, IndexInv, Planning, Applying, Gating, Writing, Staging
  <2>10. GateInv'
    <3>1. GateHeld
      BY <2>1 DEF CommandInvariant, GateInv, Writing, Staging
    <3>2. GateHeld'
      BY <3>1, <2>1, <2>4, HeldStays DEF SamePlan
    <3>3. QED
      BY <2>4, <3>2 DEF GateInv
  <2>11. StagedInv'
    <3>1. platform = "unix" => \A d \in Dirs, n \in Names : tree'[d][n] # FileNode(FreshFile)
      BY <2>1, <2>6
    <3>2. platform = "windows" /\ run.parent \in Dirs => tree'[run.parent][Reservation] = FileNode(FreshFile)
      BY <2>1, RootsAssumption DEF Names
    <3>3. bytes'[FreshFile] # None
      BY <2>1, <2>2, <2>3
    <3>4. QED
      BY <2>1, <2>4, <3>1, <3>2, <3>3 DEF StagedInv, Names
  <2>12. ResultInv'
    BY <2>1, <2>4 DEF CommandInvariant, SamePlan, ResultInv, Busy, Reading, Planning, Applying, Gating, Writing, Staging
  <2>13. QED
    BY <2>1, <2>4, <2>7, <2>8, <2>9, <2>10, <2>11, <2>12 DEF CommandInvariant, SamePlan
<1>3. QED
  BY <1>1, <1>2

(* The content of a change is a content: it differs from the old one, none. *)
LEMMA ContentIsSome ==
  ASSUME CommandInvariant, run.at \in Staging
  PROVE  Change.expected = None /\ Change.content # None
<1>1. /\ run.plan # <<>> /\ run.plan \in Seq(ToSet(run.plan))
      /\ \A i \in DOMAIN run.plan : run.plan[i].expected = None
      /\ \A i \in DOMAIN run.plan : run.plan[i].content # run.plan[i].expected
  BY DEF CommandInvariant, PlanInv, Applying, Writing, Staging
<1>2. 1 \in DOMAIN run.plan
  BY <1>1
<1>3. QED
  BY <1>1, <1>2 DEF Change

LEMMA WriteStagedKeeps ==
  ASSUME CommandInvariant, WriteStaged PROVE CommandInvariant'
<1>1. /\ run.at = "write" /\ bytes' = [bytes EXCEPT ![run.staged] = Change.content]
      /\ run' = [run EXCEPT !.at = "publish"]
      /\ UNCHANGED <<platform, root, command, tree, published, gated>>
  BY DEF WriteStaged, At, Rest
<1>2. run.staged \in Files /\ Change.expected = None /\ Change.content # None
  BY <1>1, ContentIsSome DEF CommandInvariant, StagedInv, Staging
<1>3. /\ bytes' = [g \in Files |-> bytes'[g]]
      /\ \A g \in Files : bytes'[g] = IF g = run.staged THEN Change.content ELSE bytes[g]
  BY <1>1, <1>2, BytesChange DEF CommandInvariant, BundleInv
<1>4. /\ SamePlan /\ run'.at = "publish" /\ run'.anchor = run.anchor /\ run'.staged = run.staged
      /\ run'.parent = run.parent
  BY <1>1 DEF SamePlan, CommandInvariant, RunFields
<1>5. \A f \in Files : bytes[f] # None => bytes'[f] # None
  BY <1>2, <1>3
<1>6. BundleInv'
  BY <1>1, <1>3, <1>5 DEF CommandInvariant, BundleInv
<1>7. PlanInv'
  BY <1>1, <1>4 DEF CommandInvariant, SamePlan, PlanInv, Reading, Applying, Gating, Writing, Staging
<1>8. IndexInv'
  BY <1>1, <1>4, <1>5 DEF CommandInvariant, SamePlan, IndexInv, Planning, Applying, Gating, Writing, Staging
<1>9. GateInv'
  <2>1. GateHeld
    BY <1>1 DEF CommandInvariant, GateInv, Writing, Staging
  <2>2. GateHeld'
    BY <2>1, <1>1, <1>4, HeldStays DEF SamePlan
  <2>3. QED
    BY <1>4, <2>2 DEF GateInv
<1>10. StagedInv'
  <2>1. Change' = Change /\ bytes'[run.staged] = Change.content
    BY <1>2, <1>3, <1>4 DEF Change, SamePlan
  <2>2. QED
    BY <1>1, <1>2, <1>4, <2>1 DEF CommandInvariant, StagedInv, Staging
<1>11. ResultInv'
  BY <1>1, <1>4 DEF CommandInvariant, SamePlan, ResultInv, Busy, Reading, Planning, Applying, Gating, Writing, Staging
<1>12. QED
  BY <1>1, <1>4, <1>6, <1>7, <1>8, <1>9, <1>10, <1>11 DEF CommandInvariant, SamePlan

LEMMA AbandonKeeps ==
  ASSUME CommandInvariant, WriteFails \/ PublishFails PROVE CommandInvariant'
<1>1. CASE Fail
  BY <1>1, FailKeeps DEF WriteFails, PublishFails, At, Busy, Applying, Writing, Staging
<1>2. CASE ~Fail
  <2>1. /\ run.at \in {"write", "publish"} /\ platform # "unix"
        /\ run' = [run EXCEPT !.at = "discard"] /\ Still
    BY <1>2 DEF WriteFails, PublishFails, Abandon, At, Goto, Continue, Rest, Still
  <2>2. /\ SamePlan /\ run'.at = "discard" /\ run'.anchor = run.anchor /\ run'.staged = run.staged
        /\ run'.parent = run.parent
    BY <2>1 DEF SamePlan, CommandInvariant, RunFields
  <2>3. BundleInv'
    BY <2>1, StillBundle DEF CommandInvariant
  <2>4. PlanInv'
    BY <2>1, <2>2 DEF CommandInvariant, Still, SamePlan, PlanInv, Reading, Applying, Gating, Writing, Staging
  <2>5. IndexInv'
    BY <2>1, <2>2 DEF CommandInvariant, Still, SamePlan, IndexInv, Planning, Applying, Gating, Writing, Staging
  <2>6. GateInv'
    <3>1. GateHeld
      BY <2>1 DEF CommandInvariant, GateInv, Writing, Staging
    <3>2. GateHeld'
      BY <3>1, <2>1, <2>2, HeldStays DEF SamePlan, Still
    <3>3. QED
      BY <2>2, <3>2 DEF GateInv
  <2>7. StagedInv'
    BY <2>1, <2>2 DEF CommandInvariant, BundleInv, Still, StagedInv, Staging
  <2>8. ResultInv'
    BY <2>1, <2>2 DEF CommandInvariant, Still, SamePlan, ResultInv, Busy, Reading, Planning, Applying, Gating, Writing, Staging
  <2>9. QED
    BY <2>1, <2>2, <2>3, <2>4, <2>5, <2>6, <2>7, <2>8 DEF CommandInvariant, SamePlan, Still
<1>3. QED
  BY <1>1, <1>2

LEMMA PublishKeeps ==
  ASSUME CommandInvariant, Publish PROVE CommandInvariant'
<1>1. /\ run.at = "publish" /\ run.staged \in Files /\ Typed(tree')
      /\ run' = [run EXCEPT !.at = "report"]
      /\ published' = published \cup {<<run.parent, Leaf, run.staged>>}
      /\ UNCHANGED <<platform, root, command, bytes, gated>>
      /\ \A d \in Dirs, n \in Names :
           \/ tree'[d][n] = tree[d][n]
           \/ tree[d][n] = Absent /\ tree'[d][n] = FileNode(run.staged)
           \/ tree[d][n] = FileNode(run.staged) /\ tree'[d][n] = Absent
  BY PublishChanges
<1>2. /\ DOMAIN run' = RunFields /\ run'.plan = run.plan /\ run'.index = run.index
      /\ run'.indexBytes = run.indexBytes /\ run'.applied = run.applied /\ run'.at = "report"
      /\ run'.output = run.output
      /\ run'.parent = run.parent /\ run'.staged = run.staged
  BY <1>1 DEF CommandInvariant, RunFields
<1>3. /\ published = {} /\ bytes[run.staged] # None /\ GateHeld
      /\ Change.expected = None /\ DOMAIN run.plan = {1} /\ run.applied = TRUE /\ run.output = "none"
  BY <1>1, ContentIsSome DEF CommandInvariant, ResultInv, PlanInv, StagedInv, GateInv, Busy, Applying, Writing, Staging
<1>4. BundleInv'
  <2>1. ASSUME NEW d \in Dirs, NEW n \in Names, NEW f \in Files, tree'[d][n] = FileNode(f)
        PROVE  bytes[f] # None
    <3>1. tree[d][n] = FileNode(f) \/ FileNode(f) = FileNode(run.staged)
      BY <1>1, <2>1 DEF FileNode, Absent
    <3>2. tree[d][n] = FileNode(f) => bytes[f] # None
      BY DEF CommandInvariant, BundleInv, Names
    <3>3. QED
      BY <1>3, <3>1, <3>2 DEF FileNode
  <2>2. QED
    BY <1>1, <2>1 DEF CommandInvariant, BundleInv, Names, Typed
<1>5. PlanInv'
  BY <1>1, <1>2 DEF CommandInvariant, PlanInv, Reading, Applying, Gating, Writing, Staging
<1>6. IndexInv'
  BY <1>1, <1>2 DEF CommandInvariant, IndexInv, Planning, Applying, Gating, Writing, Staging
<1>7. GateInv'
  BY <1>2 DEF GateInv, Writing, Staging
<1>8. StagedInv'
  BY <1>2 DEF StagedInv, Staging
<1>9. ResultInv'
  <2>1. GateHeld'
    BY <1>1, <1>2, <1>3, HeldStays
  <2>2. Leaf' = Leaf /\ Change' = Change
    BY <1>2 DEF Leaf, Change
  <2>3. published' = {<<run.parent, Leaf, run.staged>>}
    BY <1>1, <1>3
  <2>4. published' # {} /\ published' = {<<run'.parent, Leaf', run'.staged>>} /\ Change'.expected = None
    BY <1>2, <1>3, <2>2, <2>3
  <2>5. command.flag # "check" /\ command' = command
    BY <1>1, <1>3 DEF CommandInvariant, ResultInv
  <2>6. Announced'
    BY <1>2, <1>3, <2>4 DEF Announced
  <2>7. QED
    BY <1>2, <1>3, <2>1, <2>4, <2>5, <2>6 DEF ResultInv, Busy, Reading, Planning, Applying, Gating, Writing, Staging
<1>10. QED
  BY <1>1, <1>2, <1>4, <1>5, <1>6, <1>7, <1>8, <1>9 DEF CommandInvariant

LEMMA DiscardKeeps ==
  ASSUME CommandInvariant, Discard PROVE CommandInvariant'
<1>1. /\ run.at = "discard" /\ run' = Failed /\ Typed(tree')
      /\ UNCHANGED <<platform, root, command, bytes, published, gated>>
      /\ \A d \in Dirs, n \in Names :
           \/ tree'[d][n] = tree[d][n]
           \/ tree[d][n] = FileNode(run.staged) /\ tree'[d][n] = Absent
  BY DiscardChanges
<1>2. SamePlan /\ run'.at = "done" /\ run'.exit = 2
  BY <1>1 DEF Failed, SamePlan, CommandInvariant, RunFields
<1>3. BundleInv'
  <2>1. ASSUME NEW d \in Dirs, NEW n \in Names, NEW f \in Files, tree'[d][n] = FileNode(f)
        PROVE  bytes[f] # None
    <3>1. tree[d][n] = FileNode(f)
      BY <1>1, <2>1 DEF FileNode, Absent
    <3>2. QED
      BY <3>1 DEF CommandInvariant, BundleInv, Names
  <2>2. QED
    BY <1>1, <2>1 DEF CommandInvariant, BundleInv, Names, Typed
<1>4. PlanInv'
  BY <1>1, <1>2 DEF CommandInvariant, SamePlan, PlanInv, Reading, Applying, Gating, Writing, Staging
<1>5. IndexInv'
  BY <1>1, <1>2 DEF CommandInvariant, SamePlan, IndexInv, Planning, Applying, Gating, Writing, Staging
<1>6. GateInv'
  BY <1>2 DEF GateInv, Writing, Staging
<1>7. StagedInv'
  BY <1>2 DEF StagedInv, Staging
<1>8. ResultInv'
  BY <1>1, <1>2 DEF CommandInvariant, SamePlan, ResultInv, Busy, Reading, Planning, Applying, Gating, Writing, Staging
<1>9. QED
  BY <1>1, <1>2, <1>3, <1>4, <1>5, <1>6, <1>7, <1>8 DEF CommandInvariant, SamePlan

-----------------------------------------------------------------------------
(* Other programs.                                                         *)

LEMMA OthersKeep ==
  ASSUME CommandInvariant, UNCHANGED <<platform, command, run, published, gated>>,
         root' \in Dirs \cup {0}, Typed(tree'), bytes' = [f \in Files |-> bytes'[f]],
         \A f \in Files : bytes[f] # None => bytes'[f] # None,
         \A d \in Dirs, n \in Names : \A f \in Files : tree'[d][n] = FileNode(f) => bytes'[f] # None,
         run.at \in Staging =>
           /\ bytes'[run.staged] = bytes[run.staged]
           /\ platform = "unix" => \A d \in Dirs, n \in Names : tree'[d][n] # FileNode(run.staged)
           /\ \A d \in Dirs : platform = "windows" /\ tree[d][Reservation] = FileNode(run.staged)
                                => tree'[d][Reservation] = FileNode(run.staged),
         run.at = "gateAgain" /\ tree'[run.anchor][IndexName] = run.index
           => tree[run.anchor][IndexName] = run.index
  PROVE  CommandInvariant'
<1>1. BundleInv'
  BY DEF CommandInvariant, BundleInv, Typed, Names
<1>2. PlanInv'
  BY DEF CommandInvariant, PlanInv
<1>3. IndexInv'
  BY DEF CommandInvariant, IndexInv
<1>4. GateInv'
  <2>1. GateHeld => GateHeld'
    BY HeldStays
  <2>2. QED
    BY <2>1 DEF CommandInvariant, GateInv, IndexInPlace
<1>5. StagedInv'
  <2>1. Change' = Change
    BY DEF Change
  <2>2. run.at = "publish" => run.at \in Staging
    BY DEF Staging
  <2>3. QED
    BY <2>1, <2>2 DEF CommandInvariant, StagedInv, Names
<1>6. ResultInv'
  <2>1. GateHeld => GateHeld'
    BY HeldStays
  <2>2. Change' = Change /\ Leaf' = Leaf /\ ExitCode' = ExitCode
    BY ExitCodeKept DEF Change, Leaf
  <2>3. Announced => Announced'
    BY DEF Announced
  <2>4. QED
    BY <2>1, <2>2, <2>3 DEF CommandInvariant, ResultInv
<1>7. QED
  BY <1>1, <1>2, <1>3, <1>4, <1>5, <1>6 DEF CommandInvariant

(* On Windows a staged file is held, on Unix it has no name: nobody else   *)
(* can change its bytes, and nobody can take its reservation away.         *)
LEMMA StagedIsHeld ==
  ASSUME CommandInvariant, run.at \in Staging, NEW d \in Dirs, NEW n \in Names,
         tree[d][n] = FileNode(run.staged)
  PROVE  platform = "windows" /\ Held(tree[d][n])
<1>1. platform = "windows"
  BY DEF CommandInvariant, BundleInv, StagedInv, Names
<1>2. run.staged \in HeldFiles
  BY <1>1 DEF HeldFiles, Running, At, Staging
<1>3. QED
  BY <1>1, <1>2 DEF Held, FileNode

LEMMA EditKeeps ==
  ASSUME CommandInvariant, Edit PROVE CommandInvariant'
<1>1. /\ UNCHANGED <<platform, command, run, published, gated, root, tree>>
  BY DEF Edit, Meddles
<1>2. PICK p \in Places, text \in Written :
        /\ tree[p[1]][p[2]][1] = "file" /\ ~Held(tree[p[1]][p[2]])
        /\ bytes' = [bytes EXCEPT ![tree[p[1]][p[2]][2]] = text]
  BY DEF Edit
<1>3. p[1] \in Dirs /\ p[2] \in Names
  BY <1>2 DEF Places, Names
<1>4. tree[p[1]][p[2]] \in Nodes
  BY <1>3 DEF CommandInvariant, BundleInv, Names
<1>5. PICK f \in Files : tree[p[1]][p[2]] = FileNode(f)
  BY <1>2, <1>4 DEF Nodes, FileNode, DirNode, Absent, LinkNode
<1>6. bytes' = [bytes EXCEPT ![f] = text] /\ text # None
  BY <1>2, <1>5, WrittenAssumption DEF FileNode
<1>7. /\ bytes' = [g \in Files |-> bytes'[g]]
      /\ \A g \in Files : bytes'[g] = IF g = f THEN text ELSE bytes[g]
  BY <1>6, BytesChange DEF CommandInvariant, BundleInv
<1>8. run.at \in Staging => run.staged \in Files /\ run.staged # f
  <2>1. run.at \in Staging => run.staged \in Files
    BY DEF CommandInvariant, StagedInv
  <2>2. run.at \in Staging => tree[p[1]][p[2]] # FileNode(run.staged)
    BY <1>2, <1>3, StagedIsHeld
  <2>3. QED
    BY <1>5, <2>1, <2>2
<1>9. Typed(tree) /\ root \in Dirs \cup {0}
  BY DEF CommandInvariant, BundleInv, Typed, Names
<1>10. \A d \in Dirs, n \in Names : \A g \in Files : tree[d][n] = FileNode(g) => bytes[g] # None
  BY DEF CommandInvariant, BundleInv, Names
<1>11. run.at \in Staging /\ platform = "unix" =>
         \A d \in Dirs, n \in Names : tree[d][n] # FileNode(run.staged)
  BY DEF CommandInvariant, StagedInv, Names
<1>12. \A g \in Files : bytes[g] # None => bytes'[g] # None
  BY <1>6, <1>7
<1>13. run.at \in Staging => bytes'[run.staged] = bytes[run.staged]
  BY <1>7, <1>8
<1>14. QED
  BY <1>1, <1>7, <1>9, <1>10, <1>11, <1>12, <1>13, OthersKeep

LEMMA MoveRootKeeps ==
  ASSUME CommandInvariant, MoveRoot PROVE CommandInvariant'
<1>1. /\ UNCHANGED <<platform, command, run, published, gated, tree, bytes>> /\ root' \in Dirs \cup {0}
  BY DEF MoveRoot, Meddles
<1>2. /\ Typed(tree) /\ bytes = [f \in Files |-> bytes[f]]
      /\ \A d \in Dirs, n \in Names : \A f \in Files : tree[d][n] = FileNode(f) => bytes[f] # None
  BY DEF CommandInvariant, BundleInv, Typed, Names
<1>3. run.at \in Staging /\ platform = "unix" =>
        \A d \in Dirs, n \in Names : tree[d][n] # FileNode(run.staged)
  BY DEF CommandInvariant, StagedInv, Names
<1>4. QED
  BY <1>1, <1>2, <1>3, OthersKeep

(* An entry that is not held is given another node, never that of the      *)
(* planned index or of the staged file.                                    *)
LEMMA EntryReplaced ==
  ASSUME CommandInvariant, UNCHANGED <<platform, command, run, published, gated, root>>,
         NEW p \in Places, ~Held(tree[p[1]][p[2]]), NEW node \in Nodes,
         tree' = [tree EXCEPT ![p[1]][p[2]] = node],
         bytes' = [f \in Files |-> bytes'[f]],
         \A f \in Files : bytes[f] # None => bytes'[f] = bytes[f],
         \A f \in Files : node = FileNode(f) => bytes[f] = None /\ bytes'[f] # None
  PROVE  CommandInvariant'
<1>1. p[1] \in Dirs /\ p[2] \in Names
  BY DEF Places, Names
<1>2. Typed(tree) /\ root \in Dirs \cup {0}
  BY DEF CommandInvariant, BundleInv, Typed, Names
<1>3. /\ Typed(tree')
      /\ \A d \in Dirs, n \in Names :
           tree'[d][n] = IF d = p[1] /\ n = p[2] THEN node ELSE tree[d][n]
  <2> DEFINE after == Put(tree, p[1], p[2], node)
  <2>1. tree' = after
    BY DEF Put
  <2>2. /\ Typed(after)
        /\ \A d \in Dirs, n \in Names : after[d][n] = IF d = p[1] /\ n = p[2] THEN node ELSE tree[d][n]
    BY <1>2, EntryChange
  <2> HIDE DEF after
  <2>3. Typed(tree')
    BY <2>1, <2>2, Zenon
  <2>4. ASSUME NEW d \in Dirs, NEW n \in Names
        PROVE  tree'[d][n] = IF d = p[1] /\ n = p[2] THEN node ELSE tree[d][n]
    <3>1. after[d][n] = IF d = p[1] /\ n = p[2] THEN node ELSE tree[d][n]
      BY <2>2
    <3>2. tree'[d][n] = after[d][n]
      BY <2>1
    <3>3. QED
      BY <3>1, <3>2
  <2>5. QED
    BY <2>3, <2>4, Zenon
<1>4. \A d \in Dirs, n \in Names : \A f \in Files : tree[d][n] = FileNode(f) => bytes[f] # None
  BY DEF CommandInvariant, BundleInv, Names
<1>5. ASSUME NEW d \in Dirs, NEW n \in Names, NEW f \in Files, tree'[d][n] = FileNode(f)
      PROVE  bytes'[f] # None
  BY <1>3, <1>4, <1>5
<1>6. ASSUME run.at \in Staging
      PROVE  /\ run.staged \in Files /\ bytes[run.staged] # None /\ bytes'[run.staged] = bytes[run.staged]
             /\ node # FileNode(run.staged)
  BY <1>6 DEF CommandInvariant, StagedInv
<1>7. ASSUME run.at \in Staging, platform = "unix", NEW d \in Dirs, NEW n \in Names
      PROVE  tree'[d][n] # FileNode(run.staged)
  <2>1. tree[d][n] # FileNode(run.staged)
    BY <1>7 DEF CommandInvariant, StagedInv, Names
  <2>2. QED
    BY <1>3, <1>6, <1>7, <2>1
<1>8. ASSUME run.at \in Staging, NEW d \in Dirs, tree[d][Reservation] = FileNode(run.staged)
      PROVE  tree'[d][Reservation] = FileNode(run.staged)
  <2>1. Reservation \in Names
    BY RootsAssumption DEF Names
  <2>2. Held(tree[d][Reservation])
    BY <1>8, <2>1, StagedIsHeld
  <2>3. ~(d = p[1] /\ Reservation = p[2])
    BY <2>2
  <2>4. QED
    BY <1>3, <1>8, <2>1, <2>3
<1>9. ASSUME run.at = "gateAgain", tree'[run.anchor][IndexName] = run.index
      PROVE  tree[run.anchor][IndexName] = run.index
  <2>1. run.anchor \in Dirs /\ IndexName \in Names
    BY <1>9, RootsAssumption DEF CommandInvariant, IndexInv, Applying, Gating, Names
  <2>2. PICK f \in Files : run.index = FileNode(f) /\ bytes[f] # None
    BY <1>9 DEF CommandInvariant, IndexInv, GateInv
  <2>3. node # run.index
    BY <2>2
  <2>4. QED
    BY <1>3, <1>9, <2>1, <2>3
<1>10. \A f \in Files : bytes[f] # None => bytes'[f] # None
  OBVIOUS
<1>11. QED
  BY <1>2, <1>3, <1>5, <1>6, <1>7, <1>8, <1>9, <1>10, OthersKeep

LEMMA ReplaceKeeps ==
  ASSUME CommandInvariant, Replace \/ Unlink PROVE CommandInvariant'
<1>1. CASE Replace
  <2>1. UNCHANGED <<platform, command, run, published, gated, root>>
    BY <1>1 DEF Replace, Meddles
  <2>2. PICK p \in Places, text \in Written :
          /\ ~Held(tree[p[1]][p[2]]) /\ FreeFiles # {}
          /\ bytes' = [bytes EXCEPT ![FreshFile] = text]
          /\ tree' = [tree EXCEPT ![p[1]][p[2]] = FileNode(FreshFile)]
    BY <1>1 DEF Replace
  <2>3. FreshFile \in Files /\ bytes[FreshFile] = None /\ text # None
    BY <2>2, FreshFacts, WrittenAssumption
  <2>4. /\ bytes' = [g \in Files |-> bytes'[g]]
        /\ \A g \in Files : bytes'[g] = IF g = FreshFile THEN text ELSE bytes[g]
    BY <2>2, <2>3, BytesChange DEF CommandInvariant, BundleInv
  <2>5. FileNode(FreshFile) \in Nodes
    BY <2>3 DEF Nodes
  <2>6. \A f \in Files : bytes[f] # None => bytes'[f] = bytes[f]
    BY <2>3, <2>4
  <2>7. \A f \in Files : FileNode(FreshFile) = FileNode(f) => bytes[f] = None /\ bytes'[f] # None
    BY <2>3, <2>4 DEF FileNode
  <2>8. QED
    BY <2>1, <2>2, <2>4, <2>5, <2>6, <2>7, EntryReplaced
<1>2. CASE Unlink
  <2>1. UNCHANGED <<platform, command, run, published, gated, root, bytes>>
    BY <1>2 DEF Unlink, Meddles
  <2>2. PICK p \in Places, node \in {Absent, LinkNode} :
          ~Held(tree[p[1]][p[2]]) /\ tree' = [tree EXCEPT ![p[1]][p[2]] = node]
    BY <1>2 DEF Unlink
  <2>3. node \in Nodes /\ \A f \in Files : node # FileNode(f)
    BY <2>2 DEF Nodes, Absent, LinkNode, FileNode
  <2>4. bytes = [f \in Files |-> bytes[f]]
    BY DEF CommandInvariant, BundleInv
  <2>5. QED
    BY <2>1, <2>2, <2>3, <2>4, EntryReplaced
<1>3. QED
  BY <1>1, <1>2

-----------------------------------------------------------------------------
(* The invariant, and the properties.                                      *)

LEMMA InitialCommand == Init => CommandInvariant
<1> SUFFICES ASSUME Init PROVE CommandInvariant
  OBVIOUS
<1>1. PICK r \in Roots : tree = r.tree /\ bytes = r.bytes
  BY DEF Init
<1>2. /\ DOMAIN run = RunFields /\ run.at = "start" /\ run.plan = <<>> /\ run.index = Absent
      /\ run.indexBytes = None /\ run.applied = FALSE /\ run.output = "none" /\ published = {} /\ root = 1
      /\ platform \in Platforms /\ command \in Commands
  BY DEF Init, RunFields
<1>3. BundleInv
  <2>1. ASSUME NEW d \in Dirs, NEW n \in ToSet(Order), NEW f \in Files, tree[d][n] = FileNode(f)
        PROVE  bytes[f] # None
    <3>1. r.tree[d][n][1] = "file" /\ r.tree[d][n][2] = f
      BY <1>1, <2>1 DEF FileNode
    <3>2. r.tree[d][n][1] = "file" => r.bytes[r.tree[d][n][2]] # None
      BY RootsAssumption
    <3>3. QED
      BY <1>1, <3>1, <3>2
  <2>2. tree \in [Dirs -> [ToSet(Order) -> Nodes]] /\ bytes = [f \in Files |-> bytes[f]]
    BY <1>1, RootsAssumption
  <2>3. platform \in {"unix", "windows"} /\ root \in Dirs \cup {0}
    BY <1>2, PlatformsAssumption, RootsAssumption
  <2>4. QED
    BY <2>1, <2>2, <2>3 DEF BundleInv
<1>4. PlanInv
  BY <1>2 DEF PlanInv, Reading, Applying, Gating, Writing, Staging
<1>5. IndexInv
  BY <1>2 DEF IndexInv, Planning, Applying, Gating, Writing, Staging
<1>6. GateInv /\ StagedInv
  BY <1>2 DEF GateInv, StagedInv, Writing, Staging
<1>7. ResultInv
  BY <1>2 DEF ResultInv, Busy, Planning, Applying, Gating, Writing, Staging
<1>8. QED
  BY <1>2, <1>3, <1>4, <1>5, <1>6, <1>7 DEF CommandInvariant

LEMMA StutterKeeps ==
  ASSUME CommandInvariant, UNCHANGED vars PROVE CommandInvariant'
<1>1. UNCHANGED <<platform, command, run, published, gated, tree, bytes, root>>
  BY DEF vars
<1>2. /\ Typed(tree) /\ bytes = [f \in Files |-> bytes[f]] /\ root \in Dirs \cup {0}
      /\ \A d \in Dirs, n \in Names : \A f \in Files : tree[d][n] = FileNode(f) => bytes[f] # None
  BY DEF CommandInvariant, BundleInv, Typed, Names
<1>3. run.at \in Staging /\ platform = "unix" =>
        \A d \in Dirs, n \in Names : tree[d][n] # FileNode(run.staged)
  BY DEF CommandInvariant, StagedInv, Names
<1>4. QED
  BY <1>1, <1>2, <1>3, OthersKeep

LEMMA CommandStepKeeps ==
  ASSUME CommandInvariant, CommandStep PROVE CommandInvariant'
BY ReadStepsKeep, CaptureKeeps, PlanStepsKeep, ApplyKeeps, GateLookKeeps, GateReadKeeps, GateAgainKeeps,
   WayStepsKeep, OpenParentKeeps, StageKeeps, WriteStagedKeeps, AbandonKeeps, PublishKeeps, DiscardKeeps,
   ReportKeeps, Zenon DEF CommandStep

(* The inductive invariant of one run of the command.                      *)
THEOREM CommandInvariantHolds == Spec => []CommandInvariant
<1>1. ASSUME CommandInvariant, [Next]_vars PROVE CommandInvariant'
  BY <1>1, CommandStepKeeps, CrashKeeps, EditKeeps, ReplaceKeeps, MoveRootKeeps, StutterKeeps, Zenon
     DEF Next
<1>2. QED
  BY InitialCommand, <1>1, PTL DEF Spec

(* A step of the command leaves what others made as it is.                 *)
LEMMA EntriesKept ==
  ASSUME CommandInvariant, CommandStep, NEW d \in Dirs, NEW n \in Names,
         tree[d][n] \notin {Absent, <<"free">>, FileNode(run.staged)}
  PROVE  tree'[d][n] = tree[d][n]
<1>1. CASE OpenParent
  <2>1. \/ tree' = tree
        \/ /\ tree[run.parent][Head(run.todo)] = Absent /\ FreeDirs # {}
           /\ tree' = [tree EXCEPT ![run.parent][Head(run.todo)] = DirNode(FreshDir),
                                   ![FreshDir] = [m \in ToSet(Order) |-> Absent]]
    BY <1>1, Zenon DEF OpenParent, Fail, Continue
  <2>2. CASE tree' # tree
    BY <2>1, <2>2, DirectoryCreated DEF CommandInvariant, Creates
  <2>3. QED
    BY <2>2
<1>2. CASE Stage
  <2>1. CASE Fail
    BY <2>1 DEF Fail, Continue
  <2>2. CASE ~Fail
    <3>1. platform \in {"unix", "windows"}
      BY DEF CommandInvariant, BundleInv
    <3>2. QED
      BY <1>2, <2>2, <3>1, StageChanges
  <2>3. QED
    BY <2>1, <2>2
<1>3. CASE Publish
  BY <1>3, PublishChanges
<1>4. CASE Discard
  BY <1>4, DiscardChanges
<1>5. CASE ~OpenParent /\ ~Stage /\ ~Publish /\ ~Discard
  <2>1. tree' = tree
    BY <1>5 DEF CommandStep, Begin, ReadRootIndex, OpenBundle, ReadEntry, BundleRead, Gate, CaptureRoot,
                RenderFiles, LookAtTarget, ReadTarget, LookAgain, Planned, Decide, ApplyPlan, GateLook,
                GateRead, GateAgain, AnchorRoot, Preflight, ParentsOpen, WriteStaged, WriteFails,
                PublishFails, Report, ReportFails, PlanFile, Abandon, Fail, Goto, Continue
  <2>2. QED
    BY <2>1
<1>6. QED
  BY <1>1, <1>2, <1>3, <1>4, <1>5

(* Of the bytes only those of the staged file change, or of a new one.     *)
LEMMA BytesKept ==
  ASSUME CommandInvariant, CommandStep
  PROVE  \/ bytes' = bytes
         \/ /\ run.at \in {"stage", "write"}
            /\ \A f \in Files \ {run.staged} : bytes[f] # None => bytes'[f] = bytes[f]
<1>1. CASE Stage
  <2>1. CASE Fail
    BY <2>1 DEF Fail, Continue
  <2>2. CASE ~Fail
    <3>1. /\ run.at = "stage" /\ FreshFile \in Files /\ bytes[FreshFile] = None
          /\ bytes' = [bytes EXCEPT ![FreshFile] = Empty]
      BY <1>1, <2>2, StageChanges
    <3>2. QED
      BY <3>1, BytesChange DEF CommandInvariant, BundleInv
  <2>3. QED
    BY <2>1, <2>2
<1>2. CASE WriteStaged
  BY <1>2, BytesChange DEF WriteStaged, At, CommandInvariant, BundleInv, StagedInv, Staging
<1>3. CASE ~Stage /\ ~WriteStaged
  BY <1>3 DEF CommandStep, Begin, ReadRootIndex, OpenBundle, ReadEntry, BundleRead, Gate, CaptureRoot,
              RenderFiles, LookAtTarget, ReadTarget, LookAgain, Planned, Decide, ApplyPlan, GateLook,
              GateRead, GateAgain, AnchorRoot, Preflight, OpenParent, ParentsOpen, WriteFails, Publish,
              PublishFails, Discard, Report, ReportFails, PlanFile, Abandon, Fail, Goto, Continue
<1>4. QED
  BY <1>1, <1>2, <1>3

(* With --check, or before a plan is applied, nothing is written.          *)
LEMMA CheckWritesNothing ==
  ASSUME CommandInvariant, CommandStep, command.flag = "check"
  PROVE  UNCHANGED <<tree, bytes>>
<1>1. run.at \notin Applying
  BY DEF CommandInvariant, PlanInv
<1>2. ~OpenParent /\ ~Stage /\ ~WriteStaged /\ ~Publish /\ ~Discard
  BY <1>1 DEF OpenParent, Stage, WriteStaged, Publish, Discard, At, Applying, Writing, Staging
<1>3. QED
  BY <1>2 DEF CommandStep, Begin, ReadRootIndex, OpenBundle, ReadEntry, BundleRead, Gate, CaptureRoot,
              RenderFiles, LookAtTarget, ReadTarget, LookAgain, Planned, Decide, ApplyPlan, GateLook,
              GateRead, GateAgain, AnchorRoot, Preflight, ParentsOpen, WriteFails,
              PublishFails, Report, ReportFails, PlanFile, Abandon, Fail, Goto, Continue

-----------------------------------------------------------------------------
(* A migration is planned from what was read.                              *)

(* Two paths part at some name: they are different, and so is what lies    *)
(* below them.                                                             *)
Apart(p, q) == \E k \in DOMAIN p \cap DOMAIN q : p[k] # q[k]

(* The path of an entry that is still to be read.                          *)
Way(item) == Append(item.prefix, item.name)

(* Entries to be read part from each other and from what was read.         *)
Parts(todo) ==
  /\ todo \in Seq(ToSet(todo))
  /\ \A i \in DOMAIN todo : todo[i].prefix \in Seq(Names) /\ todo[i].name \in Names
  /\ \A i, j \in DOMAIN todo : i # j => Apart(Way(todo[i]), Way(todo[j]))

PartsFrom(documents, todo) ==
  \A d \in documents : \A i \in DOMAIN todo : Apart(d.path, Way(todo[i])) /\ Apart(Way(todo[i]), d.path)

ListingInv == run.at = "read" => Parts(run.todo) /\ PartsFrom(ToSet(run.documents), run.todo)

(* Every path was read once.                                               *)
DocumentsInv ==
  /\ run.documents \in Seq(ToSet(run.documents))
  /\ \A d, e \in ToSet(run.documents) : d.path = e.path => d = e
  /\ run.at \in {"start", "rootIndex", "open"} => run.documents = <<>>

(* What was read has a path in the bundle.                                 *)
PathsInv == \A d \in ToSet(run.documents) : d.path \in Seq(Names) \ {<<>>}

Looking == {"look", "readTarget", "lookAgain"}

(* The files of a migration are made of documents that were read.          *)
MigrationInv ==
  command.name = "migrate" =>
    /\ run.at \in Looking =>
         /\ run.todo \in Seq(ToSet(run.todo))
         /\ run.at # "look" => run.todo # <<>>
         /\ \A file \in ToSet(run.todo) :
              \E d \in ToSet(run.documents) : d.content \in DOMAIN Migrated /\ file = MigratedFile(d)
    /\ MigrationFromSnapshot

SnapshotInvariant == ListingInv /\ DocumentsInv /\ PathsInv /\ MigrationInv

LEMMA KnownNames == {IndexName, Reservation} \subseteq Names
BY RootsAssumption DEF Names

(* Sequences, by what is in them.                                          *)
LEMMA SequenceOf ==
  ASSUME NEW S, NEW s \in Seq(S)
  PROVE  s \in Seq(ToSet(s)) /\ ToSet(s) \subseteq S
<1>1. Len(s) \in Nat /\ DOMAIN s = 1..Len(s) /\ s \in [1..Len(s) -> S]
  BY LenProperties
<1>2. s \in [1..Len(s) -> ToSet(s)] /\ ToSet(s) \subseteq S
  BY <1>1 DEF ToSet
<1>3. QED
  BY <1>1, <1>2

LEMMA SequenceWithin ==
  ASSUME NEW S, NEW T, S \subseteq T, NEW s \in Seq(S) PROVE s \in Seq(T)
<1>1. Len(s) \in Nat /\ s \in [1..Len(s) -> S]
  BY LenProperties
<1>2. s \in [1..Len(s) -> T]
  BY <1>1
<1>3. QED
  BY <1>1, <1>2

LEMMA FirstTaken ==
  ASSUME NEW s, s \in Seq(ToSet(s)), s # <<>>
  PROVE  /\ 1 \in DOMAIN s /\ Head(s) = s[1] /\ Head(s) \in ToSet(s)
         /\ Tail(s) \in Seq(ToSet(Tail(s))) /\ ToSet(Tail(s)) \subseteq ToSet(s)
         /\ \A i \in DOMAIN Tail(s) : i + 1 \in DOMAIN s /\ i + 1 # 1 /\ i \in Nat /\ Tail(s)[i] = s[i + 1]
<1>1. Len(s) \in Nat \ {0} /\ DOMAIN s = 1..Len(s)
  BY LenProperties, EmptySeq
<1>2. /\ Head(s) \in ToSet(s) /\ Tail(s) \in Seq(ToSet(s)) /\ Len(Tail(s)) = Len(s) - 1
      /\ \A i \in 1 .. Len(Tail(s)) : Tail(s)[i] = s[i + 1]
  BY HeadTailProperties
<1>3. DOMAIN Tail(s) = 1 .. Len(s) - 1
  BY <1>2, LenProperties
<1>4. Head(s) = s[1] /\ 1 \in DOMAIN s
  BY <1>1
<1>5. Tail(s) \in Seq(ToSet(Tail(s))) /\ ToSet(Tail(s)) \subseteq ToSet(s)
  BY <1>2, SequenceOf
<1>6. \A i \in DOMAIN Tail(s) : i + 1 \in DOMAIN s /\ i + 1 # 1 /\ i \in Nat /\ Tail(s)[i] = s[i + 1]
  BY <1>1, <1>2, <1>3
<1>7. QED
  BY <1>2, <1>4, <1>5, <1>6

LEMMA Appended ==
  ASSUME NEW s, s \in Seq(ToSet(s)), NEW x
  PROVE  Append(s, x) \in Seq(ToSet(Append(s, x))) /\ ToSet(Append(s, x)) = ToSet(s) \cup {x}
<1> DEFINE T == ToSet(s) \cup {x}
<1>1. s \in Seq(T) /\ x \in T
  BY SequenceWithin
<1>2. Len(s) \in Nat /\ DOMAIN s = 1..Len(s)
  BY LenProperties
<1>3. /\ Append(s, x) \in Seq(T) /\ DOMAIN Append(s, x) = 1 .. Len(s) + 1
      /\ \A i \in 1..Len(s) : Append(s, x)[i] = s[i]
      /\ Append(s, x)[Len(s) + 1] = x
  <2>1. /\ Append(s, x) \in Seq(T) /\ Len(Append(s, x)) = Len(s) + 1
        /\ \A i \in 1..Len(s) : Append(s, x)[i] = s[i]
        /\ Append(s, x)[Len(s) + 1] = x
    BY <1>1, AppendProperties
  <2>2. QED
    BY <2>1, LenProperties
<1>4. Append(s, x) \in Seq(ToSet(Append(s, x))) /\ ToSet(Append(s, x)) \subseteq T
  BY <1>3, SequenceOf
<1>5. ASSUME NEW y \in T PROVE y \in ToSet(Append(s, x))
  <2>1. PICK i \in 1 .. Len(s) + 1 : Append(s, x)[i] = y
    <3>1. CASE y \in ToSet(s)
      <4>1. PICK i \in 1..Len(s) : y = s[i]
        BY <1>2, <3>1 DEF ToSet
      <4>2. i \in 1 .. Len(s) + 1 /\ Append(s, x)[i] = y
        BY <1>2, <1>3, <4>1
      <4>3. QED
        BY <4>2
    <3>2. CASE y = x
      BY <1>2, <1>3, <3>2
    <3>3. QED
      BY <3>1, <3>2
  <2>2. QED
    BY <1>3, <2>1 DEF ToSet
<1>6. QED
  BY <1>4, <1>5

(* What comes first in a listing that is put before the rest of another.   *)
LEMMA PutBefore ==
  ASSUME NEW a, a \in Seq(ToSet(a)), NEW b, b \in Seq(ToSet(b))
  PROVE  /\ a \o b \in Seq(ToSet(a \o b))
         /\ \A i \in DOMAIN (a \o b) :
              \/ i \in DOMAIN a /\ (a \o b)[i] = a[i]
              \/ i \in Nat /\ i - Len(a) \in DOMAIN b /\ (a \o b)[i] = b[i - Len(a)]
         /\ Len(a) \in Nat
<1> DEFINE T == ToSet(a) \cup ToSet(b)
<1>1. a \in Seq(T) /\ b \in Seq(T)
  BY SequenceWithin
<1>2. /\ Len(a) \in Nat /\ DOMAIN a = 1..Len(a) /\ Len(b) \in Nat /\ DOMAIN b = 1..Len(b)
  BY LenProperties
<1>3. /\ a \o b \in Seq(T) /\ Len(a \o b) = Len(a) + Len(b)
      /\ \A i \in 1 .. Len(a) + Len(b) : (a \o b)[i] = IF i <= Len(a) THEN a[i] ELSE b[i - Len(a)]
  BY <1>1, ConcatProperties
<1> HIDE DEF T
<1>4. DOMAIN (a \o b) = 1 .. Len(a) + Len(b)
  BY <1>3, LenProperties
<1>5. \A i \in 1 .. Len(a) + Len(b) : i <= Len(a) \/ i - Len(a) \in 1..Len(b)
  BY <1>2
<1>6. a \o b \in Seq(ToSet(a \o b))
  BY <1>3, SequenceOf
<1>7. QED
  BY <1>2, <1>3, <1>4, <1>5, <1>6

(* Numbers are counted up to each of them.                                 *)
LEMMA KthIsOne ==
  ASSUME NEW N \in SUBSET Nat, IsFiniteSet(N)
  PROVE  /\ Cardinality(N) \in Nat
         /\ \A k \in 1..Cardinality(N) :
              Kth(N, k) \in N /\ Cardinality({j \in N : j <= Kth(N, k)}) = k
<1> DEFINE Upto(i) == {j \in N : j <= i}
           n == Cardinality(N)
           f == [i \in N |-> Cardinality(Upto(i))]
<1>1. n \in Nat
  BY FS_CardinalityType
<1>2. \A i \in N : /\ IsFiniteSet(Upto(i)) /\ Cardinality(Upto(i)) \in 1..n
  <2> SUFFICES ASSUME NEW i \in N PROVE IsFiniteSet(Upto(i)) /\ Cardinality(Upto(i)) \in 1..n
    OBVIOUS
  <2>1. Upto(i) \in SUBSET N /\ i \in Upto(i)
    OBVIOUS
  <2> HIDE DEF Upto
  <2>2. IsFiniteSet(Upto(i)) /\ Cardinality(Upto(i)) <= n
    BY <2>1, FS_Subset
  <2>3. Cardinality(Upto(i)) \in Nat /\ Cardinality(Upto(i)) # 0
    BY <2>1, <2>2, FS_CardinalityType, FS_EmptySet
  <2>4. QED
    BY <1>1, <2>2, <2>3
<1>3. ASSUME NEW i \in N, NEW j \in N, i < j PROVE Cardinality(Upto(i)) # Cardinality(Upto(j))
  <2>1. i \in Nat /\ j \in Nat /\ \A k \in N : k \in Nat
    OBVIOUS
  <2>2. (\A k \in Upto(i) : k \in Upto(j)) /\ j \in Upto(j) /\ j \notin Upto(i)
    BY <1>3, <2>1
  <2> HIDE DEF Upto
  <2>3. QED
    BY <1>2, <2>2, FS_Subset
<1>4. f \in Injection(N, 1..n)
  <2>1. f \in [N -> 1..n]
    BY <1>2
  <2>2. \A i, j \in N : f[i] = f[j] => i = j
    <3> SUFFICES ASSUME NEW i \in N, NEW j \in N, f[i] = f[j], i # j PROVE FALSE
      OBVIOUS
    <3>1. i < j \/ j < i
      OBVIOUS
    <3>2. f[i] = Cardinality(Upto(i)) /\ f[j] = Cardinality(Upto(j))
      OBVIOUS
    <3> HIDE DEF f, Upto
    <3>3. QED
      BY <1>3, <3>1, <3>2
  <2>3. QED
    BY <2>1, <2>2 DEF Injection, IsInjective
<1>5. IsFiniteSet(1..n) /\ Cardinality(1..n) = n
  BY <1>1, FS_Interval
<1>6. f \in Surjection(N, 1..n)
  <2> HIDE DEF f
  <2>1. QED
    BY <1>4, <1>5, FS_Injection
<1>7. \A k \in 1..n : \E i \in N : Cardinality(Upto(i)) = k
  BY <1>6 DEF Surjection
<1>8. QED
  BY <1>1, <1>7 DEF Kth

(* A listing has each name in a directory once.                            *)
LEMMA ListedOnce ==
  ASSUME NEW directory, NEW prefix
  PROVE  LET listing == Listing(directory, prefix)
         IN /\ listing \in Seq(ToSet(listing))
            /\ \A i \in DOMAIN listing : listing[i].prefix = prefix /\ listing[i].name \in Names
            /\ \A i, j \in DOMAIN listing : i # j => listing[i].name # listing[j].name
<1> DEFINE present == {i \in DOMAIN Order : tree[directory][Order[i]] # Absent}
           Item(k) == [directory |-> directory, prefix |-> prefix, name |-> Order[Kth(present, k)]]
           listing == [k \in 1..Cardinality(present) |-> Item(k)]
<1>1. Listing(directory, prefix) = listing
  BY DEF Listing
<1>2. Len(Order) \in Nat /\ DOMAIN Order = 1..Len(Order)
  BY OrderAssumption, LenProperties
<1>3. present \in SUBSET Nat /\ present \subseteq DOMAIN Order /\ IsFiniteSet(present)
  <2>1. present \subseteq 1..Len(Order) /\ IsFiniteSet(1..Len(Order))
    BY <1>2, FS_Interval
  <2>2. IsFiniteSet(present)
    BY <2>1, FS_Subset
  <2>3. QED
    BY <1>2, <2>1, <2>2
<1> HIDE DEF present
<1>4. /\ Cardinality(present) \in Nat
      /\ \A k \in 1..Cardinality(present) :
           Kth(present, k) \in present /\ Cardinality({j \in present : j <= Kth(present, k)}) = k
  BY <1>3, KthIsOne
<1>5. \A k \in 1..Cardinality(present) : Item(k).prefix = prefix /\ Item(k).name \in Names
  <2>1. \A i \in DOMAIN Order : Order[i] \in Names
    BY DEF Names, ToSet
  <2>2. QED
    BY <1>3, <1>4, <2>1
<1>6. \A k, m \in 1..Cardinality(present) : k # m => Item(k).name # Item(m).name
  <2>1. \A k, m \in 1..Cardinality(present) : Kth(present, k) = Kth(present, m) => k = m
    BY <1>4
  <2>2. QED
    BY <1>3, <1>4, <2>1, OrderAssumption
<1> HIDE DEF Item
<1>7. listing \in Seq(ToSet(listing))
  <2>1. listing \in [1..Cardinality(present) -> ToSet(listing)]
    BY DEF ToSet
  <2> HIDE DEF listing
  <2>2. QED
    BY <1>4, <2>1
<1>8. QED
  BY <1>1, <1>4, <1>5, <1>6, <1>7

(* Paths that part stay apart below, and siblings part.                    *)
LEMMA BelowApart ==
  ASSUME NEW p \in Seq(Names), NEW n \in Names, NEW q, Apart(p, q)
  PROVE  Apart(Append(p, n), q) /\ Apart(q, Append(p, n)) /\ Apart(q, p)
<1>1. /\ Len(p) \in Nat /\ DOMAIN p = 1..Len(p) /\ DOMAIN Append(p, n) = 1 .. Len(p) + 1
      /\ \A k \in 1..Len(p) : Append(p, n)[k] = p[k]
  BY AppendProperties, LenProperties
<1>2. PICK k \in DOMAIN p \cap DOMAIN q : p[k] # q[k]
  BY DEF Apart
<1>3. k \in DOMAIN Append(p, n) /\ Append(p, n)[k] = p[k]
  BY <1>1, <1>2
<1>4. QED
  BY <1>2, <1>3 DEF Apart

LEMMA SiblingsApart ==
  ASSUME NEW p \in Seq(Names), NEW m \in Names, NEW n \in Names, m # n
  PROVE  Apart(Append(p, m), Append(p, n))
<1>1. /\ Len(p) \in Nat
      /\ Append(p, m)[Len(p) + 1] = m /\ Append(p, n)[Len(p) + 1] = n
      /\ DOMAIN Append(p, m) = 1 .. Len(p) + 1 /\ DOMAIN Append(p, n) = 1 .. Len(p) + 1
  BY AppendProperties, LenProperties
<1>2. Len(p) + 1 \in 1 .. Len(p) + 1
  BY <1>1
<1>3. QED
  BY <1>1, <1>2 DEF Apart

(* The rest of a listing parts from its first entry.                       *)
LEMMA RestParts ==
  ASSUME NEW todo, Parts(todo), todo # <<>>
  PROVE  /\ Parts(Tail(todo)) /\ Head(todo).prefix \in Seq(Names) /\ Head(todo).name \in Names
         /\ \A i \in DOMAIN Tail(todo) : Apart(Way(Head(todo)), Way(Tail(todo)[i]))
         /\ \A documents : PartsFrom(documents, todo) =>
              /\ PartsFrom(documents, Tail(todo))
              /\ \A d \in documents : Apart(d.path, Way(Head(todo))) /\ Apart(Way(Head(todo)), d.path)
<1>1. /\ 1 \in DOMAIN todo /\ Head(todo) = todo[1]
      /\ Tail(todo) \in Seq(ToSet(Tail(todo)))
      /\ \A i \in DOMAIN Tail(todo) :
           i + 1 \in DOMAIN todo /\ i + 1 # 1 /\ i \in Nat /\ Tail(todo)[i] = todo[i + 1]
  BY FirstTaken DEF Parts
<1>2. \A i, j \in DOMAIN Tail(todo) : i # j => i + 1 # j + 1
  BY <1>1
<1>3. \A i, j \in DOMAIN Tail(todo) : i # j => Apart(Way(Tail(todo)[i]), Way(Tail(todo)[j]))
  BY <1>1, <1>2 DEF Parts
<1>4. \A i \in DOMAIN Tail(todo) : /\ Tail(todo)[i].prefix \in Seq(Names) /\ Tail(todo)[i].name \in Names
                                  /\ Apart(Way(Head(todo)), Way(Tail(todo)[i]))
  BY <1>1 DEF Parts
<1>5. Head(todo).prefix \in Seq(Names) /\ Head(todo).name \in Names
  BY <1>1 DEF Parts
<1>6. QED
  BY <1>1, <1>3, <1>4, <1>5 DEF Parts, PartsFrom

(* A directory's names, below the path that led to it.                     *)
LEMMA ListingParts ==
  ASSUME NEW directory, NEW path \in Seq(Names)
  PROVE  /\ Parts(Listing(directory, path))
         /\ \A q : Apart(path, q) =>
              \A i \in DOMAIN Listing(directory, path) :
                /\ Apart(Way(Listing(directory, path)[i]), q)
                /\ Apart(q, Way(Listing(directory, path)[i]))
<1> DEFINE listing == Listing(directory, path)
<1>1. /\ listing \in Seq(ToSet(listing))
      /\ \A i \in DOMAIN listing : listing[i].prefix = path /\ listing[i].name \in Names
      /\ \A i, j \in DOMAIN listing : i # j => listing[i].name # listing[j].name
  BY ListedOnce
<1> HIDE DEF listing
<1>2. \A i \in DOMAIN listing : Way(listing[i]) = Append(path, listing[i].name)
  BY <1>1 DEF Way
<1>3. \A i, j \in DOMAIN listing : i # j => Apart(Way(listing[i]), Way(listing[j]))
  BY <1>1, <1>2, SiblingsApart
<1>4. Parts(listing)
  BY <1>1, <1>3 DEF Parts
<1>5. \A q : Apart(path, q) =>
        \A i \in DOMAIN listing : Apart(Way(listing[i]), q) /\ Apart(q, Way(listing[i]))
  BY <1>1, <1>2, BelowApart
<1>6. QED
  BY <1>4, <1>5 DEF listing

(* What lies in a directory is put before what is left to read.            *)
LEMMA DeeperParts ==
  ASSUME NEW directory, NEW path \in Seq(Names), NEW rest, Parts(rest),
         \A i \in DOMAIN rest : Apart(path, Way(rest[i])),
         NEW documents, PartsFrom(documents, rest), \A d \in documents : Apart(d.path, path),
         \A d \in documents : Apart(path, d.path)
  PROVE  Parts(Listing(directory, path) \o rest) /\ PartsFrom(documents, Listing(directory, path) \o rest)
<1> DEFINE listing == Listing(directory, path)
           all == listing \o rest
<1>1. /\ Parts(listing)
      /\ \A q : Apart(path, q) =>
           \A i \in DOMAIN listing : Apart(Way(listing[i]), q) /\ Apart(q, Way(listing[i]))
  BY ListingParts
<1> HIDE DEF listing
<1>2. /\ all \in Seq(ToSet(all)) /\ Len(listing) \in Nat
      /\ \A i \in DOMAIN all :
           \/ i \in DOMAIN listing /\ all[i] = listing[i]
           \/ i \in Nat /\ i - Len(listing) \in DOMAIN rest /\ all[i] = rest[i - Len(listing)]
  BY <1>1, PutBefore DEF Parts
<1> HIDE DEF all
<1>3. \A i \in DOMAIN all : all[i].prefix \in Seq(Names) /\ all[i].name \in Names
  BY <1>1, <1>2 DEF Parts
<1>4. ASSUME NEW i \in DOMAIN all, NEW j \in DOMAIN all, i # j PROVE Apart(Way(all[i]), Way(all[j]))
  <2>1. CASE i \in DOMAIN listing /\ all[i] = listing[i] /\ j \in DOMAIN listing /\ all[j] = listing[j]
    BY <1>1, <1>4, <2>1 DEF Parts
  <2>2. CASE /\ i \in DOMAIN listing /\ all[i] = listing[i]
             /\ j - Len(listing) \in DOMAIN rest /\ all[j] = rest[j - Len(listing)]
    BY <1>1, <2>2
  <2>3. CASE /\ j \in DOMAIN listing /\ all[j] = listing[j]
             /\ i - Len(listing) \in DOMAIN rest /\ all[i] = rest[i - Len(listing)]
    BY <1>1, <2>3
  <2>4. CASE /\ i \in Nat /\ i - Len(listing) \in DOMAIN rest /\ all[i] = rest[i - Len(listing)]
             /\ j \in Nat /\ j - Len(listing) \in DOMAIN rest /\ all[j] = rest[j - Len(listing)]
    <3>1. i - Len(listing) # j - Len(listing)
      BY <1>2, <1>4, <2>4
    <3>2. QED
      BY <2>4, <3>1 DEF Parts
  <2>5. QED
    BY <1>2, <2>1, <2>2, <2>3, <2>4
<1>5. PartsFrom(documents, all)
  BY <1>1, <1>2 DEF PartsFrom
<1>6. QED
  BY <1>2, <1>3, <1>4, <1>5 DEF Parts, all, listing

LEMMA SnapshotKept ==
  ASSUME run'.documents = run.documents PROVE \A path : Snapshot(path)' = Snapshot(path)
BY DEF Snapshot

(* A step that reads nothing, plans nothing and looks at the same files.   *)
LEMMA SameSnapshot ==
  ASSUME SnapshotInvariant, UNCHANGED command, run'.documents = run.documents, run'.plan = run.plan,
         run'.at \notin {"read", "start"}, run'.at \in {"rootIndex", "open"} => run.at = "start",
         run'.at \in Looking => run.at \in Looking /\ run'.todo = run.todo
                              /\ (run'.at # "look" => run.todo # <<>>)
  PROVE  SnapshotInvariant'
<1>1. ListingInv' /\ DocumentsInv' /\ PathsInv'
  BY DEF SnapshotInvariant, ListingInv, DocumentsInv, PathsInv
<1>2. MigrationFromSnapshot => MigrationFromSnapshot'
  <2>1. \A path : Snapshot(path)' = Snapshot(path)
    BY SnapshotKept
  <2>2. QED
    BY <2>1 DEF MigrationFromSnapshot
<1>3. \A d : MigratedFile(d)' = MigratedFile(d)
  BY DEF MigratedFile
<1>4. MigrationInv'
  BY <1>2, <1>3 DEF SnapshotInvariant, MigrationInv
<1>5. QED
  BY <1>1, <1>4 DEF SnapshotInvariant

LEMMA FailedSnapshot ==
  ASSUME CommandInvariant, SnapshotInvariant, Fail PROVE SnapshotInvariant'
<1>1. run'.documents = run.documents /\ run'.plan = run.plan /\ run'.at = "done" /\ UNCHANGED command
  BY DEF Fail, Failed, Continue, Rest, CommandInvariant, RunFields
<1>2. QED
  BY <1>1, SameSnapshot DEF Looking

(* An entry is read once: it is skipped, opened or looked into.            *)
LEMMA EntryRead ==
  ASSUME CommandInvariant, SnapshotInvariant, ReadEntry PROVE SnapshotInvariant'
<1> DEFINE item == Head(run.todo)
           node == tree[item.directory][item.name]
           path == Append(item.prefix, item.name)
           next == [run EXCEPT !.todo = Tail(@)]
           deeper == [next EXCEPT !.todo = Listing(node[2], path) \o @]
           read == [next EXCEPT !.documents = Append(@, Document(path, node))]
<1>1. /\ run.at = "read" /\ run.todo # <<>>
      /\ Fail \/ Continue(next) \/ Continue(deeper) \/ Continue(read)
  BY Zenon DEF ReadEntry, At
<1>2. /\ next.at = "read" /\ next.plan = run.plan /\ next.documents = run.documents /\ next.todo = Tail(run.todo)
      /\ deeper.at = "read" /\ deeper.plan = run.plan /\ deeper.documents = run.documents
      /\ deeper.todo = Listing(node[2], path) \o Tail(run.todo)
      /\ read.at = "read" /\ read.plan = run.plan /\ read.todo = Tail(run.todo)
      /\ read.documents = Append(run.documents, Document(path, node))
  BY <1>1 DEF CommandInvariant, RunFields
<1> HIDE DEF next, deeper, read
<1>3. /\ Parts(run.todo) /\ PartsFrom(ToSet(run.documents), run.todo)
      /\ run.documents \in Seq(ToSet(run.documents)) /\ PathsInv
      /\ \A d, e \in ToSet(run.documents) : d.path = e.path => d = e
  BY <1>1 DEF SnapshotInvariant, ListingInv, DocumentsInv
<1>4. /\ Parts(Tail(run.todo)) /\ PartsFrom(ToSet(run.documents), Tail(run.todo))
      /\ item.prefix \in Seq(Names) /\ item.name \in Names /\ path = Way(item)
      /\ \A i \in DOMAIN Tail(run.todo) : Apart(path, Way(Tail(run.todo)[i]))
      /\ \A d \in ToSet(run.documents) : Apart(d.path, path) /\ Apart(path, d.path)
  BY <1>1, <1>3, RestParts DEF Way
<1>5. run.plan = <<>> /\ (run'.plan = run.plan => MigrationFromSnapshot')
  BY <1>1 DEF CommandInvariant, PlanInv, Reading, MigrationFromSnapshot
<1>6. path \in Seq(Names) /\ path # <<>>
  BY <1>4, AppendProperties DEF Way
<1> HIDE DEF item, node, path
<1>7. CASE Fail
  BY <1>7, FailedSnapshot
<1>8. CASE Continue(next)
  <2>1. run' = next
    BY <1>8 DEF Continue
  <2>2. ListingInv' /\ DocumentsInv' /\ PathsInv' /\ MigrationInv'
    BY <1>2, <1>3, <1>4, <1>5, <2>1 DEF ListingInv, DocumentsInv, PathsInv, MigrationInv, Looking
  <2>3. QED
    BY <2>2 DEF SnapshotInvariant
<1>9. CASE Continue(deeper)
  <2>1. run' = deeper
    BY <1>9 DEF Continue
  <2>2. /\ Parts(Listing(node[2], path) \o Tail(run.todo))
        /\ PartsFrom(ToSet(run.documents), Listing(node[2], path) \o Tail(run.todo))
    BY <1>4, <1>6, DeeperParts
  <2>3. ListingInv' /\ DocumentsInv' /\ PathsInv' /\ MigrationInv'
    BY <1>2, <1>3, <1>5, <2>1, <2>2 DEF ListingInv, DocumentsInv, PathsInv, MigrationInv, Looking
  <2>4. QED
    BY <2>3 DEF SnapshotInvariant
<1>10. CASE Continue(read)
  <2> DEFINE document == Document(path, node)
  <2>1. run' = read
    BY <1>10 DEF Continue
  <2>2. document.path = path
    BY DEF Document
  <2> HIDE DEF document
  <2>3. /\ Append(run.documents, document) \in Seq(ToSet(Append(run.documents, document)))
        /\ ToSet(Append(run.documents, document)) = ToSet(run.documents) \cup {document}
    BY <1>3, Appended
  <2>4. \A d \in ToSet(run.documents) : d.path # path
    BY <1>4 DEF Apart
  <2>5. \A i \in DOMAIN Tail(run.todo) : Apart(Way(Tail(run.todo)[i]), path)
    BY <1>4 DEF Apart
  <2>6. ListingInv'
    <3>1. PartsFrom(ToSet(run.documents) \cup {document}, Tail(run.todo))
      BY <1>4, <2>2, <2>5 DEF PartsFrom
    <3>2. run'.todo = Tail(run.todo) /\ ToSet(run'.documents) = ToSet(run.documents) \cup {document}
      BY <1>2, <2>1, <2>3 DEF document
    <3>3. Parts(run'.todo) /\ PartsFrom(ToSet(run'.documents), run'.todo)
      BY <1>4, <3>1, <3>2
    <3>4. QED
      BY <3>3 DEF ListingInv
  <2>7. DocumentsInv'
    <3>1. \A d, e \in ToSet(run.documents) \cup {document} : d.path = e.path => d = e
      BY <1>3, <2>2, <2>4
    <3>2. /\ run'.documents = Append(run.documents, document) /\ run'.at = "read"
          /\ ToSet(run'.documents) = ToSet(run.documents) \cup {document}
      BY <1>2, <2>1, <2>3 DEF document
    <3>3. /\ run'.documents \in Seq(ToSet(run'.documents))
          /\ \A d, e \in ToSet(run'.documents) : d.path = e.path => d = e
      BY <2>3, <3>1, <3>2
    <3>4. QED
      BY <3>2, <3>3 DEF DocumentsInv
  <2>8. MigrationInv'
    BY <1>2, <1>5, <2>1 DEF MigrationInv, Looking
  <2>9. PathsInv'
    <3>1. ToSet(run'.documents) = ToSet(run.documents) \cup {document}
      BY <1>2, <2>1, <2>3 DEF document
    <3>2. QED
      BY <1>3, <1>6, <2>2, <3>1 DEF PathsInv
  <2>10. QED
    BY <2>6, <2>7, <2>8, <2>9 DEF SnapshotInvariant
<1>11. QED
  BY <1>1, <1>7, <1>8, <1>9, <1>10

(* The bundle is opened, or only its root index is read.                   *)
LEMMA BundleOpened ==
  ASSUME CommandInvariant, SnapshotInvariant, OpenBundle \/ ReadRootIndex PROVE SnapshotInvariant'
<1>1. run.plan = <<>> /\ (run'.plan = run.plan => MigrationFromSnapshot')
  BY DEF OpenBundle, ReadRootIndex, At, CommandInvariant, PlanInv, Reading, MigrationFromSnapshot
<1>2. CASE OpenBundle
  <2> DEFINE r == [run EXCEPT !.at = "read", !.todo = Listing(root, <<>>), !.anchor = root]
  <2>1. run.at = "open" /\ (Fail \/ Continue(r))
    BY <1>2, Zenon DEF OpenBundle, At
  <2>2. /\ r.at = "read" /\ r.todo = Listing(root, <<>>) /\ r.documents = run.documents /\ r.plan = run.plan
    BY DEF CommandInvariant, RunFields
  <2> HIDE DEF r
  <2>3. CASE Continue(r)
    <3>1. run' = r
      BY <2>3 DEF Continue
    <3>2. run.documents = <<>> /\ ToSet(run.documents) = {}
      BY <2>1 DEF SnapshotInvariant, DocumentsInv, ToSet
    <3>3. Parts(Listing(root, <<>>)) /\ PartsFrom({}, Listing(root, <<>>))
      BY ListingParts, EmptySeq DEF PartsFrom
    <3>4. ListingInv' /\ DocumentsInv' /\ PathsInv' /\ MigrationInv'
      BY <1>1, <2>2, <3>1, <3>2, <3>3
         DEF SnapshotInvariant, ListingInv, DocumentsInv, PathsInv, MigrationInv, Looking
    <3>5. QED
      BY <3>4 DEF SnapshotInvariant
  <2>4. QED
    BY <2>1, <2>3, FailedSnapshot
<1>3. CASE ReadRootIndex
  <2>1. \/ Fail \/ Goto("gate")
        \/ \E node : Continue([run EXCEPT !.at = "gate", !.documents = <<Document(<<IndexName>>, node)>>])
    BY <1>3, Zenon DEF ReadRootIndex
  <2>2. CASE Goto("gate")
    <3>1. run'.documents = run.documents /\ run'.plan = run.plan /\ run'.at = "gate" /\ UNCHANGED command
      BY <2>2 DEF Goto, Continue, Rest, CommandInvariant, RunFields
    <3>2. QED
      BY <3>1, SameSnapshot DEF Looking
  <2>3. ASSUME NEW node, Continue([run EXCEPT !.at = "gate", !.documents = <<Document(<<IndexName>>, node)>>])
        PROVE  SnapshotInvariant'
    <3> DEFINE document == Document(<<IndexName>>, node)
    <3>1. run'.documents = <<document>> /\ run'.plan = run.plan /\ run'.at = "gate"
      BY <2>3 DEF Continue, CommandInvariant, RunFields
    <3>2. document.path \in Seq(Names) \ {<<>>}
      <4>1. document.path = <<IndexName>>
        BY DEF Document
      <4>2. <<IndexName>> \in Seq(Names) \ {<<>>}
        BY KnownNames
      <4>3. QED
        BY <4>1, <4>2, Zenon
    <3> HIDE DEF document
    <3>4. ToSet(<<document>>) = {document} /\ <<document>> \in Seq({document})
      BY DEF ToSet
    <3>5. ListingInv' /\ DocumentsInv' /\ PathsInv' /\ MigrationInv'
      BY <1>1, <3>1, <3>2, <3>4 DEF ListingInv, DocumentsInv, PathsInv, MigrationInv, Looking
    <3>6. QED
      BY <3>5 DEF SnapshotInvariant
  <2>4. QED
    BY <2>1, <2>2, <2>3, FailedSnapshot
<1>4. QED
  BY <1>2, <1>3

(* A planned change is to the text of the document it was computed from.   *)
LEMMA FilePlanned ==
  ASSUME CommandInvariant, SnapshotInvariant, run.at \in Looking, command.name = "migrate" => run.todo # <<>>,
         NEW node, NEW existing, PlanFile(Head(run.todo), node, existing)
  PROVE  SnapshotInvariant'
<1> DEFINE file == Head(run.todo)
           content == PlannedContent(file, existing)
           anchored == platform = "windows" /\ existing = None
           parent == IF anchored THEN ParentOf(file.path) ELSE Absent
           change == [root |-> run.anchor, path |-> file.path, content |-> content, expected |-> existing,
                      file |-> node, parent |-> parent,
                      locks |-> IF anchored /\ parent[1] = "dir" THEN LocksOf(file.path) ELSE {}]
           next == [run EXCEPT !.at = "look", !.todo = Tail(@), !.looked = Absent, !.text = None]
           longer == [next EXCEPT !.plan = Append(@, change)]
<1>1. \/ Fail \/ Continue(next)
      \/ content # Malformed /\ SnapshotHolds(file, existing) /\ Continue(longer)
  BY Zenon DEF PlanFile
<1>2. change.content = content /\ change.expected = existing /\ change.path = file.path
  OBVIOUS
<1>3. /\ command.name = "migrate" /\ existing # None => content = file.content
      /\ command.name = "migrate" /\ existing = None => content = Malformed
  BY DEF PlannedContent
<1> HIDE DEF content, change
<1>4. next.at = "look" /\ next.plan = run.plan /\ next.documents = run.documents /\ next.todo = Tail(run.todo)
  BY DEF CommandInvariant, RunFields
<1>5. /\ longer.at = "look" /\ longer.plan = Append(run.plan, change)
      /\ longer.documents = run.documents /\ longer.todo = Tail(run.todo)
  BY <1>4 DEF CommandInvariant, RunFields
<1> HIDE DEF next, longer
<1>6. DocumentsInv /\ PathsInv /\ run.plan \in Seq(ToSet(run.plan))
  BY DEF SnapshotInvariant, CommandInvariant, PlanInv
<1>7. ASSUME run'.documents = run.documents, run'.at = "look", run'.todo = Tail(run.todo), UNCHANGED command,
             command.name = "migrate" => MigrationFromSnapshot'
      PROVE  SnapshotInvariant'
  <2>1. ListingInv' /\ DocumentsInv' /\ PathsInv'
    BY <1>6, <1>7 DEF ListingInv, DocumentsInv, PathsInv
  <2>2. \A d : MigratedFile(d)' = MigratedFile(d)
    BY DEF MigratedFile
  <2>3. ASSUME command.name = "migrate"
        PROVE  /\ Tail(run.todo) \in Seq(ToSet(Tail(run.todo)))
               /\ ToSet(Tail(run.todo)) \subseteq ToSet(run.todo)
    <3>1. run.todo \in Seq(ToSet(run.todo)) /\ run.todo # <<>>
      BY <2>3 DEF SnapshotInvariant, MigrationInv
    <3>2. QED
      BY <3>1, FirstTaken
  <2>4. MigrationInv'
    BY <1>7, <2>2, <2>3 DEF SnapshotInvariant, MigrationInv
  <2>5. QED
    BY <2>1, <2>4 DEF SnapshotInvariant
<1>8. CASE Continue(next)
  <2>1. run' = next /\ UNCHANGED command
    BY <1>8 DEF Continue, Rest
  <2>2. \A path : Snapshot(path)' = Snapshot(path)
    BY <1>4, <2>1, SnapshotKept
  <2>3. command.name = "migrate" => MigrationFromSnapshot'
    BY <1>4, <2>1, <2>2 DEF SnapshotInvariant, MigrationInv, MigrationFromSnapshot
  <2>4. QED
    BY <1>4, <1>7, <2>1, <2>3
<1>9. CASE content # Malformed /\ SnapshotHolds(file, existing) /\ Continue(longer)
  <2>1. run' = longer /\ UNCHANGED command
    BY <1>9 DEF Continue, Rest
  <2>2. \A path : Snapshot(path)' = Snapshot(path)
    BY <1>5, <2>1, SnapshotKept
  <2>3. ASSUME command.name = "migrate"
        PROVE  change.expected = Snapshot(change.path) /\ change.content = Migrated[change.expected]
    <3>1. existing = Snapshot(file.path) /\ content = file.content
      BY <1>3, <1>9, <2>3 DEF SnapshotHolds
    <3>2. run.todo \in Seq(ToSet(run.todo)) /\ run.todo # <<>>
      BY <2>3 DEF SnapshotInvariant, MigrationInv
    <3>3. file \in ToSet(run.todo)
      BY <3>2, FirstTaken
    <3>4. PICK d \in ToSet(run.documents) : file = MigratedFile(d)
      BY <2>3, <3>3 DEF SnapshotInvariant, MigrationInv
    <3>5. file.path = d.path /\ file.content = Migrated[d.content]
      BY <3>4 DEF MigratedFile
    <3> HIDE DEF file
    <3>6. Snapshot(file.path) = d.content
      <4>1. {e \in ToSet(run.documents) : e.path = file.path} = {d}
        BY <1>6, <3>4, <3>5 DEF DocumentsInv
      <4>2. QED
        BY <4>1 DEF Snapshot
    <3>7. QED
      BY <1>2, <3>1, <3>5, <3>6
  <2>4. ASSUME command.name = "migrate" PROVE MigrationFromSnapshot'
    <3>1. \A c \in ToSet(run.plan) : c.expected = Snapshot(c.path) /\ c.content = Migrated[c.expected]
      BY <2>4 DEF SnapshotInvariant, MigrationInv, MigrationFromSnapshot, ToSet
    <3>2. ToSet(run'.plan) = ToSet(run.plan) \cup {change}
      BY <1>5, <1>6, <2>1, Appended
    <3>3. \A c \in ToSet(run'.plan) : c.expected = Snapshot(c.path) /\ c.content = Migrated[c.expected]
      BY <2>3, <2>4, <3>1, <3>2
    <3>4. \A i \in DOMAIN run'.plan : run'.plan[i] \in ToSet(run'.plan)
      BY DEF ToSet
    <3>5. QED
      BY <2>2, <3>3, <3>4 DEF MigrationFromSnapshot
  <2>5. QED
    BY <1>5, <1>7, <2>1, <2>4
<1>10. QED
  BY <1>1, <1>8, <1>9, FailedSnapshot

(* What a function makes of a finite set.                                  *)
LEMMA ImageFinite ==
  ASSUME NEW S, IsFiniteSet(S), NEW f, f \in [S -> {f[x] : x \in S}]
  PROVE  IsFiniteSet({f[x] : x \in S})
<1> DEFINE T == {f[x] : x \in S}
<1>1. f \in [S -> T] /\ \A y \in T : \E x \in S : f[x] = y
  OBVIOUS
<1> HIDE DEF T
<1>2. f \in Surjection(S, T)
  BY <1>1 DEF Surjection
<1>3. IsFiniteSet(T)
  BY <1>2, FS_Surjection
<1>4. QED
  BY <1>3 DEF T

(* A sequence has finitely many elements.                                  *)
LEMMA FinitelyMany ==
  ASSUME NEW s, s \in Seq(ToSet(s)) PROVE IsFiniteSet(ToSet(s))
<1>1. DOMAIN s = 1..Len(s) /\ Len(s) \in Nat
  BY LenProperties
<1>2. IsFiniteSet(DOMAIN s)
  BY <1>1, FS_Interval
<1>3. s \in [DOMAIN s -> {s[i] : i \in DOMAIN s}]
  BY <1>1
<1>4. IsFiniteSet({s[i] : i \in DOMAIN s})
  BY <1>2, <1>3, ImageFinite
<1>5. QED
  BY <1>4 DEF ToSet

(* What a finite set holds can be put in a sequence.                       *)
LEMMA SequenceFrom ==
  ASSUME NEW S, IsFiniteSet(S)
  PROVE  SetToSeq(S) \in Seq(ToSet(SetToSeq(S))) /\ ToSet(SetToSeq(S)) \subseteq S
<1> DEFINE s == SetToSeq(S)
<1>1. PICK n \in Nat : ExistsBijection(1..n, S)
  BY FS_NatBijection
<1>2. n = Cardinality(S)
  BY <1>1, FS_CountingElements
<1>3. PICK f \in Bijection(1..n, S) : TRUE
  BY <1>1 DEF ExistsBijection
<1>4. f \in [1..Cardinality(S) -> S] /\ IsInjective(f)
  BY <1>2, <1>3 DEF Bijection, Injection, IsInjective
<1>5. s \in [1..Cardinality(S) -> S]
  BY <1>4 DEF SetToSeq
<1>6. s \in Seq(S)
  BY <1>1, <1>2, <1>5
<1> HIDE DEF s
<1>7. s \in Seq(ToSet(s)) /\ ToSet(s) \subseteq S
  BY <1>6, SequenceOf
<1>8. QED
  BY <1>7 DEF s

(* The files of a command are looked at one by one.                        *)
LEMMA FilesRendered ==
  ASSUME CommandInvariant, SnapshotInvariant, RenderFiles PROVE SnapshotInvariant'
<1> DEFINE r == [run EXCEPT !.at = "look", !.todo = SetToSeq(RenderedFiles)]
           read == {e \in ToSet(run.documents) : e.content \in DOMAIN Migrated}
           files == {MigratedFile(d) : d \in read}
<1>1. run' = r /\ UNCHANGED command /\ run.at = "files"
  BY DEF RenderFiles, At, Continue, Rest
<1>2. /\ r.at = "look" /\ r.plan = run.plan /\ r.documents = run.documents
      /\ r.todo = SetToSeq(RenderedFiles)
  BY DEF CommandInvariant, RunFields
<1> HIDE DEF r
<1>3. run'.at = "look" /\ run'.plan = run.plan /\ run'.documents = run.documents
  BY <1>1, <1>2
<1>4. ListingInv' /\ DocumentsInv' /\ PathsInv'
  BY <1>3 DEF SnapshotInvariant, ListingInv, DocumentsInv, PathsInv
<1>5. ASSUME command.name = "migrate"
      PROVE  /\ run'.todo \in Seq(ToSet(run'.todo))
             /\ \A file \in ToSet(run'.todo) :
                  \E d \in ToSet(run.documents) : d.content \in DOMAIN Migrated /\ file = MigratedFile(d)
  <2>1. RenderedFiles = files
    BY <1>5 DEF RenderedFiles
  <2>2. IsFiniteSet(ToSet(run.documents))
    BY FinitelyMany DEF SnapshotInvariant, DocumentsInv
  <2>3. IsFiniteSet(read)
    BY <2>2, FS_Subset
  <2> HIDE DEF read
  <2>4. IsFiniteSet(files)
    <3> DEFINE f == [d \in read |-> MigratedFile(d)]
    <3>1. f \in [read -> {f[d] : d \in read}] /\ {f[d] : d \in read} = files
      OBVIOUS
    <3> HIDE DEF f, files
    <3>2. QED
      BY <2>3, <3>1, ImageFinite
  <2> HIDE DEF files
  <2>5. run'.todo \in Seq(ToSet(run'.todo)) /\ ToSet(run'.todo) \subseteq files
    BY <1>1, <1>2, <2>1, <2>4, SequenceFrom
  <2>6. QED
    BY <2>5 DEF files, read
<1>6. \A d : MigratedFile(d)' = MigratedFile(d)
  BY DEF MigratedFile
<1>7. MigrationFromSnapshot => MigrationFromSnapshot'
  <2>1. \A path : Snapshot(path)' = Snapshot(path)
    BY <1>3, SnapshotKept
  <2>2. QED
    BY <1>1, <1>3, <2>1 DEF MigrationFromSnapshot
<1>8. MigrationInv'
  BY <1>1, <1>3, <1>5, <1>6, <1>7 DEF SnapshotInvariant, MigrationInv
<1>9. QED
  BY <1>4, <1>8 DEF SnapshotInvariant

LEMMA TargetsLooked ==
  ASSUME CommandInvariant, SnapshotInvariant, LookAtTarget \/ ReadTarget \/ LookAgain PROVE SnapshotInvariant'
<1>1. CASE LookAtTarget
  <2> DEFINE file == Head(run.todo)
             node == Lookup(root, file.path)
             r == [run EXCEPT !.at = "readTarget", !.looked = node]
  <2>1. run.at = "look" /\ run.todo # <<>>
    BY <1>1 DEF LookAtTarget, At
  <2>2. Fail \/ PlanFile(file, Absent, None) \/ Continue(r)
    BY <1>1, Zenon DEF LookAtTarget
  <2>3. r.at = "readTarget" /\ r.plan = run.plan /\ r.documents = run.documents /\ r.todo = run.todo
    BY DEF CommandInvariant, RunFields
  <2> HIDE DEF r
  <2>4. CASE Continue(r)
    <3>1. run' = r /\ UNCHANGED command
      BY <2>4 DEF Continue, Rest
    <3>2. QED
      BY <2>1, <2>3, <3>1, SameSnapshot DEF Looking
  <2>5. CASE PlanFile(file, Absent, None)
    BY <2>1, <2>5, FilePlanned DEF Looking
  <2>6. QED
    BY <2>2, <2>4, <2>5, FailedSnapshot
<1>2. CASE ReadTarget
  <2>1. Fail \/ \E text : Continue([run EXCEPT !.at = "lookAgain", !.text = text])
    BY <1>2, Zenon DEF ReadTarget
  <2>2. ASSUME NEW text, Continue([run EXCEPT !.at = "lookAgain", !.text = text])
        PROVE  SnapshotInvariant'
    <3>1. /\ run'.at = "lookAgain" /\ run'.plan = run.plan /\ run'.documents = run.documents
          /\ run'.todo = run.todo /\ UNCHANGED command
      BY <2>2 DEF Continue, Rest, CommandInvariant, RunFields
    <3>2. run.at = "readTarget"
      BY <1>2 DEF ReadTarget, At
    <3>3. CASE command.name = "migrate"
      <4>1. run.todo # <<>>
        BY <3>2, <3>3 DEF SnapshotInvariant, MigrationInv, Looking
      <4>2. QED
        BY <3>1, <3>2, <4>1, SameSnapshot DEF Looking
    <3>4. CASE command.name # "migrate"
      <4>1. ListingInv' /\ DocumentsInv' /\ PathsInv' /\ MigrationInv'
        BY <3>1, <3>4 DEF SnapshotInvariant, ListingInv, DocumentsInv, PathsInv, MigrationInv
      <4>2. QED
        BY <4>1 DEF SnapshotInvariant
    <3>5. QED
      BY <3>3, <3>4
  <2>3. QED
    BY <2>1, <2>2, FailedSnapshot
<1>3. CASE LookAgain
  <2>1. run.at = "lookAgain"
    BY <1>3 DEF LookAgain, At
  <2>2. Fail \/ PlanFile(Head(run.todo), run.looked, run.text)
    BY <1>3, Zenon DEF LookAgain
  <2>3. command.name = "migrate" => run.todo # <<>>
    BY <2>1 DEF SnapshotInvariant, MigrationInv, Looking
  <2>4. QED
    BY <2>1, <2>2, <2>3, FailedSnapshot, FilePlanned DEF Looking
<1>4. QED
  BY <1>1, <1>2, <1>3

(* A step that only goes on.                                               *)
LEMMA GoesKeepSnapshot ==
  ASSUME CommandInvariant, SnapshotInvariant, NEW step, Goto(step),
         step \notin {"read", "start"} \cup Looking, step \in {"rootIndex", "open"} => run.at = "start"
  PROVE  SnapshotInvariant'
<1>1. run' = [run EXCEPT !.at = step] /\ UNCHANGED command
  BY DEF Goto, Continue, Rest
<1>2. run'.at = step /\ run'.documents = run.documents /\ run'.plan = run.plan
  BY <1>1 DEF CommandInvariant, RunFields
<1>3. QED
  BY <1>1, <1>2, SameSnapshot

(* The report, whole or cut.                                               *)
LEMMA ReportKeepsSnapshot ==
  ASSUME CommandInvariant, SnapshotInvariant, Report \/ ReportFails PROVE SnapshotInvariant'
<1>1. run'.at = "done" /\ run'.documents = run.documents /\ run'.plan = run.plan /\ UNCHANGED command
  BY DEF Report, ReportFails, Failed, Continue, Rest, CommandInvariant, RunFields
<1>2. QED
  BY <1>1, SameSnapshot DEF Looking

(* The other steps keep what was read and what is planned.                 *)
LEMMA ReadingEnds ==
  ASSUME CommandInvariant, SnapshotInvariant, BundleRead \/ CaptureRoot PROVE SnapshotInvariant'
<1>1. \/ Fail \/ Goto("report")
      \/ \E step \in {"gate", "capture"} : Continue([run EXCEPT !.at = step, !.anchor = 0])
      \/ \E node, text : Continue([run EXCEPT !.at = "files", !.anchor = root, !.index = node, !.indexBytes = text])
  BY Zenon DEF BundleRead, CaptureRoot
<1>2. ASSUME NEW step \in {"gate", "capture"}, Continue([run EXCEPT !.at = step, !.anchor = 0])
      PROVE  SnapshotInvariant'
  <2>1. run'.at = step /\ run'.documents = run.documents /\ run'.plan = run.plan /\ UNCHANGED command
    BY <1>2 DEF Continue, Rest, CommandInvariant, RunFields
  <2>2. QED
    BY <2>1, SameSnapshot DEF Looking
<1>3. ASSUME NEW node, NEW text,
             Continue([run EXCEPT !.at = "files", !.anchor = root, !.index = node, !.indexBytes = text])
      PROVE  SnapshotInvariant'
  <2>1. run'.at = "files" /\ run'.documents = run.documents /\ run'.plan = run.plan /\ UNCHANGED command
    BY <1>3 DEF Continue, Rest, CommandInvariant, RunFields
  <2>2. QED
    BY <2>1, SameSnapshot DEF Looking
<1>4. QED
  BY <1>1, <1>2, <1>3, FailedSnapshot, GoesKeepSnapshot DEF Looking

LEMMA DecisionsKeepSnapshot ==
  ASSUME CommandInvariant, SnapshotInvariant,
         \/ Begin \/ Gate \/ Planned \/ Decide \/ ApplyPlan \/ GateAgain \/ AnchorRoot \/ ParentsOpen
         \/ WriteFails \/ PublishFails \/ Report \/ ReportFails \/ Crash
  PROVE  SnapshotInvariant'
<1>1. CASE Begin
  <2>1. run.at = "start" /\ (Goto("rootIndex") \/ Goto("capture") \/ Goto("open"))
    BY <1>1 DEF Begin, At
  <2>2. QED
    BY <2>1, GoesKeepSnapshot DEF Looking
<1>2. CASE Gate \/ Planned \/ Decide \/ ApplyPlan \/ GateAgain \/ AnchorRoot \/ ParentsOpen
  <2>1. Fail \/ Goto("capture") \/ Goto("report") \/ Goto("decide") \/ Goto("gateLook")
        \/ Goto("anchor") \/ Goto("preflight") \/ Goto("stage")
        \/ Continue([run EXCEPT !.at = "apply", !.applied = TRUE])
    BY <1>2, Zenon DEF Gate, Planned, Decide, ApplyPlan, GateAgain, AnchorRoot, ParentsOpen
  <2>2. CASE Continue([run EXCEPT !.at = "apply", !.applied = TRUE])
    <3>1. run'.at = "apply" /\ run'.documents = run.documents /\ run'.plan = run.plan /\ UNCHANGED command
      BY <2>2 DEF Continue, Rest, CommandInvariant, RunFields
    <3>2. QED
      BY <3>1, SameSnapshot DEF Looking
  <2>3. QED
    BY <2>1, <2>2, FailedSnapshot, GoesKeepSnapshot DEF Looking
<1>3. CASE WriteFails \/ PublishFails \/ Crash
  <2>1. Fail \/ Goto("discard") \/ Goto("crashed")
    BY <1>3, Zenon DEF WriteFails, PublishFails, Abandon, Crash
  <2>2. QED
    BY <2>1, FailedSnapshot, GoesKeepSnapshot DEF Looking
<1>4. QED
  BY <1>1, <1>2, <1>3, ReportKeepsSnapshot

LEMMA PublicationKeepsSnapshot ==
  ASSUME CommandInvariant, SnapshotInvariant,
         GateLook \/ GateRead \/ Preflight \/ OpenParent \/ Stage \/ WriteStaged \/ Publish \/ Discard
  PROVE  SnapshotInvariant'
<1> DEFINE Later == {"anchor", "gateRead", "gateAgain", "parents", "stage", "write", "publish", "report", "done"}
<1>1. run'.documents = run.documents /\ run'.plan = run.plan /\ UNCHANGED command /\ run'.at \in Later
  <2>1. CASE GateLook \/ GateRead
    BY <2>1 DEF GateLook, GateRead, At, Goto, Fail, Failed, Continue, Rest, CommandInvariant, RunFields
  <2>2. CASE Preflight
    BY <2>2 DEF Preflight, At, Fail, Failed, Continue, Rest, CommandInvariant, RunFields
  <2>3. CASE OpenParent
    BY <2>3 DEF OpenParent, At, Fail, Failed, Continue, Rest, CommandInvariant, RunFields
  <2>4. CASE Stage
    BY <2>4 DEF Stage, At, Fail, Failed, Continue, Rest, CommandInvariant, RunFields
  <2>5. CASE WriteStaged \/ Publish \/ Discard
    BY <2>5 DEF WriteStaged, Publish, Discard, Failed, Rest, CommandInvariant, RunFields
  <2>6. QED
    BY <2>1, <2>2, <2>3, <2>4, <2>5
<1>2. QED
  BY <1>1, SameSnapshot DEF Looking

(* Nothing was read yet.                                                   *)
LEMMA InitialSnapshot == Init => SnapshotInvariant
<1> SUFFICES ASSUME Init PROVE SnapshotInvariant
  OBVIOUS
<1>1. run.at = "start" /\ run.documents = <<>> /\ run.plan = <<>>
  BY DEF Init
<1>2. ToSet(<<>>) = {} /\ <<>> \in Seq({})
  BY EmptySeq DEF ToSet
<1>3. ListingInv /\ DocumentsInv /\ PathsInv
  BY <1>1, <1>2 DEF ListingInv, DocumentsInv, PathsInv
<1>4. MigrationInv
  BY <1>1 DEF MigrationInv, MigrationFromSnapshot, Looking
<1>5. QED
  BY <1>3, <1>4 DEF SnapshotInvariant

(* Other programs change neither what was read nor what is planned.        *)
LEMMA OthersKeepSnapshot ==
  ASSUME SnapshotInvariant, UNCHANGED <<command, run>> PROVE SnapshotInvariant'
<1>1. \A d : MigratedFile(d)' = MigratedFile(d)
  BY DEF MigratedFile
<1>2. \A path : Snapshot(path)' = Snapshot(path)
  BY SnapshotKept
<1>3. MigrationFromSnapshot => MigrationFromSnapshot'
  BY <1>2 DEF MigrationFromSnapshot
<1>4. ListingInv' /\ DocumentsInv' /\ PathsInv'
  BY DEF SnapshotInvariant, ListingInv, DocumentsInv, PathsInv
<1>5. MigrationInv'
  BY <1>1, <1>3 DEF SnapshotInvariant, MigrationInv
<1>6. QED
  BY <1>4, <1>5 DEF SnapshotInvariant

LEMMA SnapshotStepKeeps ==
  ASSUME CommandInvariant, SnapshotInvariant, [Next]_vars PROVE SnapshotInvariant'
<1>1. CASE Edit \/ Replace \/ Unlink \/ MoveRoot \/ UNCHANGED vars
  <2>1. UNCHANGED <<command, run>>
    BY <1>1 DEF Edit, Replace, Unlink, MoveRoot, Meddles, vars
  <2>2. QED
    BY <2>1, OthersKeepSnapshot
<1>2. CASE CommandStep
  BY <1>2, EntryRead, BundleOpened, ReadingEnds, FilesRendered, TargetsLooked, DecisionsKeepSnapshot,
     PublicationKeepsSnapshot, Zenon DEF CommandStep
<1>3. QED
  BY <1>1, <1>2, DecisionsKeepSnapshot, Zenon DEF Next

(* What the command read, and how the files of a migration come from it.   *)
THEOREM SnapshotInvariantHolds == Spec => []SnapshotInvariant
<1>1. QED
  BY InitialSnapshot, SnapshotStepKeeps, CommandInvariantHolds, PTL DEF Spec

(* However the bundle changes while a migration is planned, each planned   *)
(* change replaces the very text that it was computed from.                *)
THEOREM MigrationsAreFromSnapshot == Spec => []MigrationFromSnapshot
<1>1. command.name # "migrate" => MigrationFromSnapshot
  BY DEF MigrationFromSnapshot
<1>2. SnapshotInvariant => MigrationFromSnapshot
  BY <1>1 DEF SnapshotInvariant, MigrationInv
<1>3. QED
  BY <1>2, SnapshotInvariantHolds, PTL

-----------------------------------------------------------------------------
(* What was merged is merged already.                                      *)

Unmarked(blocks) == blocks \in Seq(ToSet(blocks)) /\ Start \notin ToSet(blocks) /\ End \notin ToSet(blocks)

(* What is between two markers, with them.                                 *)
Enclosed(blocks) ==
  /\ blocks \in Seq(ToSet(blocks)) /\ Len(blocks) >= 2
  /\ blocks[1] = Start /\ blocks[Len(blocks)] = End
  /\ \A i \in 2 .. Len(blocks) - 1 : blocks[i] \notin {Start, End}

LEMMA MarkersDiffer == Start # End
BY DEF Start, End

LEMMA OnlyPosition ==
  ASSUME NEW blocks, NEW mark, NEW i \in Nat, Positions(blocks, mark) = {i}
  PROVE  FirstOf(blocks, mark) = i
BY DEF FirstOf

(* Three sequences, one after the other.                                   *)
LEMMA Threefold ==
  ASSUME NEW S, NEW pre \in Seq(S), NEW mid \in Seq(S), NEW post \in Seq(S)
  PROVE  /\ Len(pre) \in Nat /\ Len(mid) \in Nat /\ Len(post) \in Nat
         /\ pre \o mid \o post \in Seq(S)
         /\ Len(pre \o mid \o post) = Len(pre) + Len(mid) + Len(post)
         /\ \A i \in 1 .. Len(pre) : (pre \o mid \o post)[i] = pre[i]
         /\ \A i \in 1 .. Len(mid) : (pre \o mid \o post)[Len(pre) + i] = mid[i]
         /\ \A i \in 1 .. Len(post) : (pre \o mid \o post)[Len(pre) + Len(mid) + i] = post[i]
<1> DEFINE two == pre \o mid
<1>1. Len(pre) \in Nat /\ Len(mid) \in Nat /\ Len(post) \in Nat
  BY LenProperties
<1>2. /\ two \in Seq(S) /\ Len(two) = Len(pre) + Len(mid)
      /\ \A i \in 1 .. Len(pre) + Len(mid) : two[i] = IF i <= Len(pre) THEN pre[i] ELSE mid[i - Len(pre)]
  BY ConcatProperties
<1> HIDE DEF two
<1>3. /\ two \o post \in Seq(S) /\ Len(two \o post) = Len(two) + Len(post)
      /\ \A i \in 1 .. Len(two) + Len(post) :
           (two \o post)[i] = IF i <= Len(two) THEN two[i] ELSE post[i - Len(two)]
  <2>1. two \in Seq(S) /\ post \in Seq(S)
    BY <1>2
  <2>2. QED
    BY <2>1, ConcatProperties
<1>4. \A i \in 1 .. Len(pre) : (two \o post)[i] = pre[i]
  BY <1>1, <1>2, <1>3
<1>5. \A i \in 1 .. Len(mid) : (two \o post)[Len(pre) + i] = mid[i]
  <2> SUFFICES ASSUME NEW i \in 1 .. Len(mid) PROVE (two \o post)[Len(pre) + i] = mid[i]
    OBVIOUS
  <2>1. /\ Len(pre) + i \in 1 .. Len(pre) + Len(mid) /\ ~(Len(pre) + i <= Len(pre))
        /\ Len(pre) + i \in 1 .. Len(two) + Len(post) /\ Len(pre) + i <= Len(two)
        /\ (Len(pre) + i) - Len(pre) = i
    BY <1>1, <1>2
  <2>2. QED
    BY <1>2, <1>3, <2>1
<1>6. \A i \in 1 .. Len(post) : (two \o post)[Len(pre) + Len(mid) + i] = post[i]
  <2> SUFFICES ASSUME NEW i \in 1 .. Len(post) PROVE (two \o post)[Len(pre) + Len(mid) + i] = post[i]
    OBVIOUS
  <2>1. /\ Len(pre) + Len(mid) + i \in 1 .. Len(two) + Len(post) /\ ~(Len(pre) + Len(mid) + i <= Len(two))
        /\ (Len(pre) + Len(mid) + i) - Len(two) = i
    BY <1>1, <1>2
  <2>2. QED
    BY <1>3, <2>1
<1>7. QED
  BY <1>1, <1>2, <1>3, <1>4, <1>5, <1>6 DEF two

(* A part of a sequence, which may be empty.                               *)
LEMMA PartOf ==
  ASSUME NEW S, NEW s \in Seq(S), NEW m \in Nat \ {0}, NEW n \in Nat, n <= Len(s), m <= n + 1
  PROVE  /\ SubSeq(s, m, n) \in Seq(S) /\ Len(SubSeq(s, m, n)) = n - m + 1
         /\ \A i \in 1 .. n - m + 1 : SubSeq(s, m, n)[i] = s[m + i - 1]
<1>1. Len(s) \in Nat
  BY LenProperties
<1>2. \A i \in m .. n : i \in 1 .. Len(s)
  BY <1>1
<1>3. \A i \in m .. n : s[i] \in S
  BY <1>2, ElementOfSeq
<1>4. m \in Int /\ n \in Int
  OBVIOUS
<1>5. /\ SubSeq(s, m, n) \in Seq(S) /\ Len(SubSeq(s, m, n)) = (IF m <= n THEN n - m + 1 ELSE 0)
      /\ \A i \in 1 .. n - m + 1 : SubSeq(s, m, n)[i] = s[m + i - 1]
  BY <1>3, <1>4, SubSeqProperties
<1>6. QED
  BY <1>5

(* A region with unmarked blocks around it is found again.                 *)
Found(body, pre, mid, post) ==
  /\ Len(pre) \in Nat /\ Len(mid) \in Nat
  /\ body \in Seq(ToSet(body))
  /\ Positions(body, Start) = {Len(pre) + 1} /\ Positions(body, End) = {Len(pre) + Len(mid)}
  /\ SubSeq(body, 1, Len(pre)) = pre
  /\ SubSeq(body, Len(pre) + Len(mid) + 1, Len(body)) = post

LEMMA RegionFound ==
  ASSUME NEW pre, NEW mid, NEW post, Unmarked(pre), Enclosed(mid), Unmarked(post),
         NEW body, body = pre \o mid \o post
  PROVE  Found(body, pre, mid, post)
<1> DEFINE S == ToSet(pre) \cup ToSet(mid) \cup ToSet(post)
           p == Len(pre)
           m == Len(mid)
           q == Len(post)
<1>1. pre \in Seq(S) /\ mid \in Seq(S) /\ post \in Seq(S)
  BY SequenceWithin DEF Unmarked, Enclosed
<1>2. /\ p \in Nat /\ m \in Nat /\ q \in Nat /\ body \in Seq(S) /\ Len(body) = p + m + q
      /\ \A i \in 1 .. p : body[i] = pre[i]
      /\ \A i \in 1 .. m : body[p + i] = mid[i]
      /\ \A i \in 1 .. q : body[p + m + i] = post[i]
  <2> DEFINE all == pre \o mid \o post
  <2>1. /\ p \in Nat /\ m \in Nat /\ q \in Nat /\ all \in Seq(S) /\ Len(all) = p + m + q
        /\ \A i \in 1 .. p : all[i] = pre[i]
        /\ \A i \in 1 .. m : all[p + i] = mid[i]
        /\ \A i \in 1 .. q : all[p + m + i] = post[i]
    <3> HIDE DEF S
    <3>1. QED
      BY <1>1, Threefold
  <2>2. body = all
    OBVIOUS
  <2> HIDE DEF all, S, p, m, q
  <2>3. QED
    BY <2>1, <2>2
<1>3. DOMAIN body = 1 .. p + m + q /\ body \in Seq(ToSet(body))
  <2>1. body \in Seq(S) /\ Len(body) = p + m + q
    BY <1>2
  <2> HIDE DEF S, p, m, q
  <2>2. QED
    BY <2>1, LenProperties, SequenceOf
<1>4. /\ \A i \in 1 .. p : pre[i] \notin {Start, End}
      /\ \A i \in 1 .. q : post[i] \notin {Start, End}
  <2>1. DOMAIN pre = 1 .. p /\ DOMAIN post = 1 .. q
    BY <1>1, LenProperties
  <2>2. QED
    BY <2>1 DEF Unmarked, ToSet
<1>5. m >= 2 /\ mid[1] = Start /\ mid[m] = End /\ \A i \in 2 .. m - 1 : mid[i] \notin {Start, End}
  BY DEF Enclosed
<1> HIDE DEF S, p, m, q
<1> DEFINE Sorted(i) == \/ i \in 1 .. p /\ body[i] \notin {Start, End}
                        \/ i = p + 1 /\ body[i] = Start
                        \/ i - p \in 2 .. m - 1 /\ body[i] \notin {Start, End}
                        \/ i = p + m /\ body[i] = End
                        \/ i - p - m \in 1 .. q /\ body[i] \notin {Start, End}
<1> HIDE DEF Sorted
<1>6. \A i \in 1 .. p + m + q : Sorted(i)
  <2> SUFFICES ASSUME NEW i \in 1 .. p + m + q PROVE Sorted(i)
    OBVIOUS
  <2>1. p \in Nat /\ m \in Nat /\ q \in Nat
    BY <1>2
  <2>2. i \in 1 .. p \/ i - p \in 1 .. m \/ i - p - m \in 1 .. q
    BY <2>1
  <2>3. CASE i \in 1 .. p
    <3>1. body[i] \notin {Start, End}
      BY <1>2, <1>4, <2>3
    <3>2. QED
      BY <2>3, <3>1, Zenon DEF Sorted
  <2>4. CASE i - p \in 1 .. m
    <3>1. p + (i - p) = i
      BY <2>1
    <3>2. body[i] = mid[i - p]
      BY <1>2, <2>4, <3>1
    <3>3. \/ i - p = 1 /\ i = p + 1
          \/ i - p \in 2 .. m - 1
          \/ i - p = m /\ i = p + m
      BY <2>1, <2>4
    <3>4. QED
      BY <1>5, <3>2, <3>3, Zenon DEF Sorted
  <2>5. CASE i - p - m \in 1 .. q
    <3> DEFINE k == i - p - m
    <3>1. k \in 1 .. q /\ p + m + k = i
      BY <2>1, <2>5
    <3> HIDE DEF k
    <3>2. body[i] \notin {Start, End}
      BY <1>2, <1>4, <3>1
    <3>3. QED
      BY <2>5, <3>2, Zenon DEF Sorted
  <2>6. QED
    BY <2>2, <2>3, <2>4, <2>5
<1>7. p + 1 \in DOMAIN body /\ p + m \in DOMAIN body /\ body[p + 1] = Start /\ body[p + m] = End
  <2>1. 1 \in 1 .. m /\ m \in 1 .. m
    BY <1>2, <1>5
  <2>2. body[p + 1] = mid[1] /\ body[p + m] = mid[m]
    BY <1>2, <2>1
  <2>3. p + 1 \in 1 .. p + m + q /\ p + m \in 1 .. p + m + q
    BY <1>2, <1>5
  <2>4. QED
    BY <1>3, <1>5, <2>2, <2>3
<1>8. Positions(body, Start) = {p + 1} /\ Positions(body, End) = {p + m}
  BY <1>3, <1>6, <1>7, MarkersDiffer DEF Positions, Sorted
<1>9. ASSUME NEW from \in Nat \ {0}, NEW n \in Nat, n <= Len(body), from <= n + 1,
             NEW part \in Seq(S), Len(part) = n - from + 1,
             \A i \in 1 .. Len(part) : body[from + i - 1] = part[i]
      PROVE  SubSeq(body, from, n) = part
  <2>1. /\ SubSeq(body, from, n) \in Seq(S) /\ Len(SubSeq(body, from, n)) = n - from + 1
        /\ \A i \in 1 .. n - from + 1 : SubSeq(body, from, n)[i] = body[from + i - 1]
    <3>1. body \in Seq(S) /\ from \in Nat \ {0} /\ n \in Nat /\ n <= Len(body) /\ from <= n + 1
      BY <1>2, <1>9
    <3>2. QED
      BY <3>1, PartOf
  <2>2. /\ Len(SubSeq(body, from, n)) = Len(part)
        /\ \A i \in 1 .. Len(SubSeq(body, from, n)) : SubSeq(body, from, n)[i] = part[i]
    BY <1>9, <2>1
  <2>3. QED
    BY <2>1, <2>2, SeqEqual
<1>10. SubSeq(body, 1, p) = pre
  <2>1. /\ 1 \in Nat \ {0} /\ p \in Nat /\ p <= Len(body) /\ 1 <= p + 1 /\ Len(pre) = p - 1 + 1
        /\ \A i \in 1 .. Len(pre) : body[1 + i - 1] = pre[i]
    BY <1>2 DEF p
  <2>2. QED
    BY <1>1, <1>9, <2>1
<1>11. SubSeq(body, p + m + 1, Len(body)) = post
  <2>1. /\ p + m + 1 \in Nat \ {0} /\ Len(body) \in Nat /\ Len(body) <= Len(body)
        /\ p + m + 1 <= Len(body) + 1 /\ Len(post) = Len(body) - (p + m + 1) + 1
    BY <1>2 DEF q
  <2>2. \A i \in 1 .. Len(post) : (p + m + 1) + i - 1 = p + m + i /\ i \in 1 .. q
    BY <1>2 DEF q
  <2>3. \A i \in 1 .. Len(post) : body[(p + m + 1) + i - 1] = post[i]
    BY <1>2, <2>2
  <2>4. QED
    BY <1>1, <1>9, <2>1, <2>3
<1>12. QED
  BY <1>2, <1>3, <1>8, <1>10, <1>11 DEF p, m, Found

(* A region with the rest of a document around it.                         *)
Around(rest, body, region) ==
  \E pre, post : Unmarked(pre) /\ Unmarked(post) /\ rest = pre \o post /\ body = pre \o region \o post

(* A document that has the region is left as it is.                        *)
LEMMA MergedAgain ==
  ASSUME NEW rendered, Enclosed(Region(rendered)), NEW document, IsText(document),
         NEW rest, Around(rest, document.body, Region(rendered))
  PROVE  MergeRegion(document, rendered) = document /\ Outside(document) = rest
<1>0. PICK pre, post : /\ Unmarked(pre) /\ Unmarked(post) /\ rest = pre \o post
                       /\ document.body = pre \o Region(rendered) \o post
  BY DEF Around
<1> DEFINE body == document.body
           mid == Region(rendered)
           s == Len(pre) + 1
           e == Len(pre) + Len(mid)
<1>1. /\ Len(pre) \in Nat /\ Len(mid) \in Nat
      /\ Positions(body, Start) = {s} /\ Positions(body, End) = {e}
      /\ SubSeq(body, 1, Len(pre)) = pre /\ SubSeq(body, e + 1, Len(body)) = post
  <2>1. Enclosed(mid) /\ Unmarked(pre) /\ Unmarked(post) /\ body = pre \o mid \o post
    BY <1>0
  <2> HIDE DEF mid, body
  <2>2. Found(body, pre, mid, post)
    BY <2>1, RegionFound
  <2>3. QED
    BY <2>2 DEF Found
<1>2. Len(mid) >= 2
  BY DEF Enclosed
<1>3. s \in Nat /\ e \in Nat /\ s < e /\ s - 1 = Len(pre)
  BY <1>1, <1>2
<1>4. /\ document = [front |-> document.front, body |-> body] /\ body = pre \o mid \o post
  BY <1>0 DEF IsText
<1> HIDE DEF s, e, mid, body
<1>5. FirstOf(body, Start) = s /\ FirstOf(body, End) = e
  BY <1>1, <1>3, OnlyPosition
<1>6. Cardinality(Positions(body, Start)) = 1 /\ Cardinality(Positions(body, End)) = 1
  BY <1>1, FS_Singleton
<1>7. Positions(body, Start) # {} /\ Positions(body, End) # {}
  BY <1>1
<1>8. SubSeq(body, 1, FirstOf(body, Start) - 1) = pre /\ SubSeq(body, FirstOf(body, End) + 1, Len(body)) = post
  BY <1>1, <1>3, <1>5
<1>9. Outside(document) = rest
  BY <1>0, <1>7, <1>8 DEF Outside, body
<1>10. MergeRegion(document, rendered) = [document EXCEPT !.body = pre \o mid \o post]
  <2>1. ~(FirstOf(body, Start) >= FirstOf(body, End))
    BY <1>3, <1>5
  <2>2. QED
    BY <1>6, <1>7, <1>8, <2>1 DEF MergeRegion, body, mid
<1>11. QED
  BY <1>4, <1>9, <1>10

(* A document with one region consists of it and of what is around it.     *)
LEMMA RegionParts ==
  ASSUME NEW document, MarkedOnce(document)
  PROVE  \E pre, post : /\ Unmarked(pre) /\ Unmarked(post) /\ Enclosed(Region(document))
                        /\ document.body = pre \o Region(document) \o post
                        /\ pre = SubSeq(document.body, 1, FirstOf(document.body, Start) - 1)
                        /\ post = SubSeq(document.body, FirstOf(document.body, End) + 1, Len(document.body))
<1> DEFINE body == document.body
           S == ToSet(body)
<1>1. PICK s, e \in DOMAIN body : s < e /\ Positions(body, Start) = {s} /\ Positions(body, End) = {e}
  BY DEF MarkedOnce
<1>2. body \in Seq(S)
  BY DEF MarkedOnce, IsText
<1> HIDE DEF body, S
<1>3. Len(body) \in Nat /\ DOMAIN body = 1 .. Len(body)
  BY <1>2, LenProperties
<1>4. s \in 1 .. Len(body) /\ e \in 1 .. Len(body) /\ s < e
  BY <1>1, <1>3
<1>5. FirstOf(body, Start) = s /\ FirstOf(body, End) = e
  BY <1>1, <1>4, OnlyPosition
<1>6. /\ body[s] = Start /\ body[e] = End
      /\ \A i \in 1 .. Len(body) : (body[i] = Start => i = s) /\ (body[i] = End => i = e)
  BY <1>1, <1>3 DEF Positions
<1> DEFINE pre == SubSeq(body, 1, s - 1)
           mid == SubSeq(body, s, e)
           post == SubSeq(body, e + 1, Len(body))
<1>7. /\ pre \in Seq(S) /\ Len(pre) = s - 1 /\ \A i \in 1 .. s - 1 : pre[i] = body[i]
  <2>1. /\ pre \in Seq(S) /\ Len(pre) = (s - 1) - 1 + 1
        /\ \A i \in 1 .. (s - 1) - 1 + 1 : pre[i] = body[1 + i - 1]
    <3>1. 1 \in Nat \ {0} /\ s - 1 \in Nat /\ s - 1 <= Len(body) /\ 1 <= (s - 1) + 1
      BY <1>3, <1>4
    <3>2. QED
      BY <1>2, <3>1, PartOf
  <2> HIDE DEF pre
  <2>2. (s - 1) - 1 + 1 = s - 1 /\ \A i \in 1 .. s - 1 : 1 + i - 1 = i
    BY <1>4
  <2>3. QED
    BY <2>1, <2>2
<1>8. /\ mid \in Seq(S) /\ Len(mid) = e - s + 1 /\ \A i \in 1 .. e - s + 1 : mid[i] = body[s + i - 1]
  <2>1. s \in Nat \ {0} /\ e \in Nat /\ e <= Len(body) /\ s <= e + 1
    BY <1>3, <1>4
  <2>2. QED
    BY <1>2, <2>1, PartOf
<1>9. /\ post \in Seq(S) /\ Len(post) = Len(body) - (e + 1) + 1
      /\ \A i \in 1 .. Len(body) - (e + 1) + 1 : post[i] = body[(e + 1) + i - 1]
  <2>1. e + 1 \in Nat \ {0} /\ Len(body) \in Nat /\ Len(body) <= Len(body) /\ e + 1 <= Len(body) + 1
    BY <1>3, <1>4
  <2>2. QED
    BY <1>2, <2>1, PartOf
<1>10. body = pre \o mid \o post
  <2>1. pre \o mid = SubSeq(body, 1, e)
    <3>1. 1 \in 1 .. Len(body) + 1 /\ s - 1 \in 1 - 1 .. Len(body) /\ e \in s - 1 .. Len(body) /\ (s - 1) + 1 = s
      BY <1>3, <1>4
    <3>2. SubSeq(body, 1, s - 1) \o SubSeq(body, (s - 1) + 1, e) = SubSeq(body, 1, e)
      BY <1>2, <3>1, ConcatAdjacentSubSeq
    <3>3. QED
      BY <3>1, <3>2
  <2>2. SubSeq(body, 1, e) \o post = SubSeq(body, 1, Len(body))
    <3>1. 1 \in 1 .. Len(body) + 1 /\ e \in 1 - 1 .. Len(body) /\ Len(body) \in e .. Len(body)
      BY <1>3, <1>4
    <3>2. QED
      BY <1>2, <3>1, ConcatAdjacentSubSeq
  <2>3. SubSeq(body, 1, Len(body)) = body
    BY <1>2, SubSeqFull
  <2>4. QED
    BY <2>1, <2>2, <2>3
<1> HIDE DEF pre, mid, post
<1>11. Unmarked(pre)
  <2>1. pre \in Seq(ToSet(pre)) /\ DOMAIN pre = 1 .. s - 1
    BY <1>7, SequenceOf, LenProperties
  <2>2. \A i \in 1 .. s - 1 : pre[i] \notin {Start, End}
    BY <1>3, <1>4, <1>6, <1>7
  <2>3. QED
    BY <2>1, <2>2 DEF Unmarked, ToSet
<1>12. Unmarked(post)
  <2>1. post \in Seq(ToSet(post)) /\ DOMAIN post = 1 .. Len(body) - (e + 1) + 1
    BY <1>9, SequenceOf, LenProperties
  <2>2. \A i \in 1 .. Len(body) - (e + 1) + 1 : post[i] \notin {Start, End}
    <3> SUFFICES ASSUME NEW i \in 1 .. Len(body) - (e + 1) + 1 PROVE post[i] \notin {Start, End}
      OBVIOUS
    <3>1. (e + 1) + i - 1 \in 1 .. Len(body) /\ (e + 1) + i - 1 > e
      BY <1>3, <1>4
    <3>2. (e + 1) + i - 1 # s /\ (e + 1) + i - 1 # e
      BY <1>4, <3>1
    <3>3. QED
      BY <1>6, <1>9, <3>1, <3>2
  <2>3. QED
    BY <2>1, <2>2 DEF Unmarked, ToSet
<1>13. Enclosed(mid)
  <2>1. mid \in Seq(ToSet(mid)) /\ Len(mid) >= 2
    BY <1>4, <1>8, SequenceOf
  <2>2. mid[1] = Start /\ mid[Len(mid)] = End
    <3>1. /\ 1 \in 1 .. e - s + 1 /\ e - s + 1 \in 1 .. e - s + 1 /\ s + 1 - 1 = s
          /\ s + (e - s + 1) - 1 = e
      BY <1>4
    <3>2. QED
      BY <1>6, <1>8, <3>1
  <2>3. ASSUME NEW i \in 2 .. Len(mid) - 1 PROVE mid[i] \notin {Start, End}
    <3>1. /\ i \in 1 .. e - s + 1 /\ s + i - 1 \in 1 .. Len(body) /\ s + i - 1 # s /\ s + i - 1 # e
      BY <1>3, <1>4, <1>8
    <3>2. QED
      BY <1>6, <1>8, <3>1
  <2>4. QED
    BY <2>1, <2>2, <2>3 DEF Enclosed
<1>14. Region(document) = mid
  BY <1>5 DEF Region, mid, body
<1>15. QED
  BY <1>5, <1>10, <1>11, <1>12, <1>13, <1>14 DEF pre, post, body

LEMMA OwnRegionMerged ==
  ASSUME NEW document, MarkedOnce(document) PROVE MergeRegion(document, document) = document
<1>1. PICK pre, post : /\ Unmarked(pre) /\ Unmarked(post) /\ Enclosed(Region(document))
                       /\ document.body = pre \o Region(document) \o post
  BY RegionParts
<1>2. Around(pre \o post, document.body, Region(document))
  BY <1>1, Zenon DEF Around
<1>3. IsText(document)
  BY DEF MarkedOnce
<1>4. QED
  BY <1>1, <1>2, <1>3, MergedAgain

(* What merging makes of a document, and that it leaves the rest alone.    *)
LEMMA MergeKeepsRest ==
  ASSUME NEW existing, IsText(existing), NEW rendered, MarkedOnce(rendered),
         MergeRegion(existing, rendered) # Malformed
  PROVE  /\ IsText(MergeRegion(existing, rendered))
         /\ MergeRegion(existing, rendered).front = existing.front
         /\ Around(Outside(existing), MergeRegion(existing, rendered).body, Region(rendered))
<1> DEFINE body == existing.body
           mid == Region(rendered)
           merged == MergeRegion(existing, rendered)
           starts == Positions(body, Start)
           ends == Positions(body, End)
           Kept == /\ IsText(merged) /\ merged.front = existing.front
                   /\ Around(Outside(existing), merged.body, mid)
<1>1. Enclosed(mid)
  BY RegionParts
<1>2. existing = [front |-> existing.front, body |-> body] /\ body \in Seq(ToSet(body))
  BY DEF IsText
<1>3. Len(body) \in Nat /\ DOMAIN body = 1 .. Len(body)
  BY <1>2, LenProperties
<1>4. ASSUME NEW pre, NEW post, Unmarked(pre), Unmarked(post), Outside(existing) = pre \o post,
             merged = [existing EXCEPT !.body = pre \o mid \o post]
      PROVE  Kept
  <2> HIDE DEF merged, mid
  <2>1. pre \o mid \o post \in Seq(ToSet(pre \o mid \o post))
    BY <1>1, <1>4, RegionFound DEF Found
  <2>2. merged.front = existing.front /\ merged.body = pre \o mid \o post
        /\ merged = [front |-> merged.front, body |-> merged.body]
    BY <1>2, <1>4
  <2>3. IsText(merged)
    BY <2>1, <2>2 DEF IsText
  <2>4. Around(Outside(existing), merged.body, mid)
    BY <1>4, <2>2, Zenon DEF Around
  <2>5. QED
    BY <2>2, <2>3, <2>4
<1>5. ASSUME starts = {} /\ ends = {} PROVE Kept
  <2>1. merged = [existing EXCEPT !.body = body \o mid]
    BY <1>5 DEF MergeRegion
  <2>2. Outside(existing) = body
    BY <1>5 DEF Outside
  <2>3. Unmarked(body) /\ Unmarked(<<>>)
    <3>1. \A i \in DOMAIN body : body[i] # Start /\ body[i] # End
      BY <1>5 DEF Positions
    <3>2. Start \notin ToSet(body) /\ End \notin ToSet(body)
      BY <3>1 DEF ToSet
    <3>3. ToSet(<<>>) = {} /\ <<>> \in Seq({})
      BY EmptySeq DEF ToSet
    <3>4. QED
      BY <1>2, <3>2, <3>3 DEF Unmarked
  <2>4. body \o <<>> = body
    BY <1>2, ConcatEmptySeq
  <2>5. body \o mid \o <<>> = body \o mid
    <3> DEFINE S == ToSet(body) \cup ToSet(mid)
    <3>1. body \in Seq(S) /\ mid \in Seq(S)
      BY <1>1, <1>2, SequenceWithin DEF Enclosed
    <3> HIDE DEF S, body, mid
    <3>2. body \o mid \in Seq(S)
      BY <3>1, ConcatProperties
    <3>3. QED
      BY <3>2, ConcatEmptySeq
  <2> HIDE DEF merged, body, mid, Kept
  <2>6. QED
    BY <1>4, <2>1, <2>2, <2>3, <2>4, <2>5
<1>6. ASSUME ~(starts = {} /\ ends = {}) PROVE Kept
  <2>1. /\ Cardinality(starts) = 1 /\ Cardinality(ends) = 1
        /\ ~(FirstOf(body, Start) >= FirstOf(body, End))
        /\ merged = [existing EXCEPT !.body = SubSeq(body, 1, FirstOf(body, Start) - 1) \o mid
                                                \o SubSeq(body, FirstOf(body, End) + 1, Len(body))]
    BY <1>6 DEF MergeRegion
  <2>2. starts \subseteq 1 .. Len(body) /\ ends \subseteq 1 .. Len(body)
    BY <1>3 DEF Positions
  <2>3. IsFiniteSet(starts) /\ IsFiniteSet(ends)
    <3>1. IsFiniteSet(1 .. Len(body))
      BY <1>3, FS_Interval
    <3> HIDE DEF starts, ends, body
    <3>2. QED
      BY <2>2, <3>1, FS_Subset
  <2> HIDE DEF starts, ends
  <2>4. PICK s, e : starts = {s} /\ ends = {e}
    <3>1. \A P : IsFiniteSet(P) => (Cardinality(P) = 1 <=> \E x : P = {x})
      BY FS_Singleton
    <3>2. (\E x : starts = {x}) /\ (\E x : ends = {x})
      BY <2>1, <2>3, <3>1
    <3>3. QED
      BY <3>2
  <2>5. s \in 1 .. Len(body) /\ e \in 1 .. Len(body)
    BY <2>2, <2>4
  <2>6. FirstOf(body, Start) = s /\ FirstOf(body, End) = e
    <3>1. s \in Nat /\ e \in Nat
      BY <2>5
    <3>2. QED
      BY <2>4, <3>1, OnlyPosition DEF starts, ends
  <2>7. MarkedOnce(existing)
    <3>1. s \in DOMAIN body /\ e \in DOMAIN body /\ s < e
      BY <1>3, <2>1, <2>5, <2>6
    <3>2. QED
      BY <2>4, <3>1 DEF MarkedOnce, starts, ends
  <2>8. PICK pre, post : /\ Unmarked(pre) /\ Unmarked(post)
                         /\ pre = SubSeq(body, 1, FirstOf(body, Start) - 1)
                         /\ post = SubSeq(body, FirstOf(body, End) + 1, Len(body))
    BY <2>7, RegionParts
  <2>9. Outside(existing) = pre \o post
    <3>1. starts # {}
      BY <2>4
    <3>2. QED
      BY <2>8, <3>1 DEF Outside, starts
  <2>10. merged = [existing EXCEPT !.body = pre \o mid \o post]
    BY <2>1, <2>8
  <2> HIDE DEF merged, mid, Kept
  <2>11. QED
    BY <1>4, <2>8, <2>9, <2>10
<1>7. QED
  BY <1>5, <1>6

-----------------------------------------------------------------------------
(* A plan of an index or of the agent files settles.                       *)

(* No title puts a marker into an index.                                   *)
TitlesUnmarked == \A directory, paths : IsFiniteSet(paths) => Unmarked(TitleMarks(directory, paths))

(* What is read and planned is a text; others only write texts.            *)
TextsInv ==
  /\ run.at \in Reading \cup Planning => \A f \in Files : IsText(bytes[f])
  /\ run.at = "lookAgain" => IsText(run.text)

(* A change after which the same plan is empty.                            *)
Settled(change) ==
  \A file \in {f \in RenderedFiles : f.path = change.path} :
    /\ Again(file, change) = change.content
    /\ command.name = "index" /\ file.path = <<IndexName>> /\ EnsureRootVersion => change.content.front = "0.2"
    /\ OwnsRegion(file.path) /\ change.expected # None => Outside(change.content) = Outside(change.expected)

ChangesInv ==
  command.name \in {"index", "agent"} =>
    /\ run.at \in Looking =>
         /\ run.todo \in Seq(ToSet(run.todo)) /\ ToSet(run.todo) \subseteq RenderedFiles
         /\ run.at # "look" => run.todo # <<>>
    /\ run.at \in Planning => \A change \in ToSet(run.plan) : Settled(change)

SettleInvariant == TextsInv /\ ChangesInv

(* A rendered index has one region.                                        *)
LEMMA IndexMarkedOnce ==
  ASSUME TitlesUnmarked, NEW directory, NEW paths, IsFiniteSet(paths)
  PROVE  MarkedOnce(RenderIndex(directory, paths))
<1> DEFINE entries == <<"entries", IndexEntries(directory, paths)>>
           marks == TitleMarks(directory, paths)
           front == IF directory = <<>> THEN "0.2" ELSE "absent"
           pre == <<Start, entries>>
           post == <<End>>
           body == pre \o marks \o post
           S == {Start, entries, End} \cup ToSet(marks)
           m == Len(marks)
<1>1. Unmarked(marks)
  BY DEF TitlesUnmarked
<1>2. entries # Start /\ entries # End
  BY DEF Start, End
<1>3. RenderIndex(directory, paths) = [front |-> front, body |-> body]
  BY DEF RenderIndex
<1> HIDE DEF entries, front, marks
<1>4. pre \in Seq(S) /\ post \in Seq(S) /\ Len(pre) = 2 /\ Len(post) = 1 /\ pre[1] = Start /\ pre[2] = entries
      /\ post[1] = End
  OBVIOUS
<1>5. marks \in Seq(S) /\ m \in Nat /\ DOMAIN marks = 1 .. m
  BY <1>1, SequenceWithin, LenProperties DEF Unmarked
<1>6. \A i \in 1 .. m : marks[i] \notin {Start, End}
  BY <1>1, <1>5 DEF Unmarked, ToSet
<1> HIDE DEF pre, post, S
<1>7. /\ body \in Seq(S) /\ Len(body) = 2 + m + 1
      /\ \A i \in 1 .. 2 : body[i] = pre[i]
      /\ \A i \in 1 .. m : body[2 + i] = marks[i]
      /\ \A i \in 1 .. 1 : body[2 + m + i] = post[i]
  <2>1. pre \in Seq(S) /\ marks \in Seq(S) /\ post \in Seq(S)
    BY <1>4, <1>5
  <2>2. /\ body \in Seq(S) /\ Len(body) = Len(pre) + m + Len(post)
        /\ \A i \in 1 .. Len(pre) : body[i] = pre[i]
        /\ \A i \in 1 .. m : body[Len(pre) + i] = marks[i]
        /\ \A i \in 1 .. Len(post) : body[Len(pre) + m + i] = post[i]
    BY <2>1, Threefold
  <2> HIDE DEF body, m
  <2>3. QED
    BY <1>4, <2>2
<1> HIDE DEF body, m
<1>8. body \in Seq(ToSet(body)) /\ DOMAIN body = 1 .. m + 3
  <2>1. body \in Seq(ToSet(body)) /\ DOMAIN body = 1 .. Len(body)
    BY <1>7, SequenceOf, LenProperties
  <2>2. 2 + m + 1 = m + 3
    BY <1>5
  <2>3. QED
    BY <1>7, <2>1, <2>2
<1>9. body[1] = Start /\ body[2] = entries /\ body[m + 3] = End
  <2>1. 1 \in 1 .. 2 /\ 2 \in 1 .. 2 /\ 1 \in 1 .. 1 /\ 2 + m + 1 = m + 3
    BY <1>5
  <2>2. QED
    BY <1>4, <1>7, <2>1
<1>10. \A i \in 3 .. m + 2 : body[i] \notin {Start, End}
  <2> SUFFICES ASSUME NEW i \in 3 .. m + 2 PROVE body[i] \notin {Start, End}
    OBVIOUS
  <2>1. i - 2 \in 1 .. m /\ 2 + (i - 2) = i
    BY <1>5
  <2>2. body[i] = marks[i - 2]
    BY <1>7, <2>1
  <2>3. QED
    BY <1>6, <2>1, <2>2
<1>11. \A i \in 1 .. m + 3 : i = 1 \/ i = 2 \/ i \in 3 .. m + 2 \/ i = m + 3
  BY <1>5
<1>12. Positions(body, Start) = {1} /\ Positions(body, End) = {m + 3}
  <2>1. 1 \in 1 .. m + 3 /\ m + 3 \in 1 .. m + 3
    BY <1>5
  <2>2. QED
    BY <1>2, <1>8, <1>9, <1>10, <1>11, <2>1, MarkersDiffer DEF Positions
<1>13. 1 \in DOMAIN body /\ m + 3 \in DOMAIN body /\ 1 < m + 3
  BY <1>5, <1>8
<1>14. QED
  BY <1>3, <1>8, <1>12, <1>13 DEF MarkedOnce, IsText

(* All names of a path but the last.                                       *)
LEMMA FrontOf ==
  ASSUME NEW p \in Seq(Names) PROVE Front(p) \in Seq(Names)
<1>1. Len(p) \in Nat
  BY LenProperties
<1>2. CASE Len(p) = 0
  <2>1. Len(p) - 1 < 1 /\ Len(p) - 1 \in Int
    BY <1>2
  <2>2. SubSeq(p, 1, Len(p) - 1) = <<>>
    BY <2>1, SubSeqEmpty
  <2>3. QED
    BY <2>2, EmptySeq DEF Front
<1>3. CASE Len(p) # 0
  <2>1. 1 \in Nat \ {0} /\ Len(p) - 1 \in Nat /\ Len(p) - 1 <= Len(p) /\ 1 <= (Len(p) - 1) + 1
    BY <1>1, <1>3
  <2>2. QED
    BY <2>1, PartOf DEF Front
<1>4. QED
  BY <1>2, <1>3

(* The indexes to render are finitely many, each with a directory.         *)
IndexOf(directory) == [path |-> Append(directory, IndexName), content |-> RenderIndex(directory, ConceptsRead)]

LEMMA IndexesRendered ==
  ASSUME CommandInvariant, DocumentsInv, PathsInv, command.name = "index"
  PROVE  /\ IsFiniteSet(ConceptsRead)
         /\ \E D \in SUBSET Seq(Names) : IsFiniteSet(D) /\ RenderedFiles \subseteq {IndexOf(d) : d \in D}
<1> DEFINE concepts == {e \in ToSet(run.documents) : IsConcept(e.path)}
           fronts == {Front(p) : p \in ConceptsRead}
           D == {<<>>} \cup fronts
<1>1. IsFiniteSet(ToSet(run.documents))
  BY FinitelyMany DEF DocumentsInv
<1>2. IsFiniteSet(concepts)
  BY <1>1, FS_Subset
<1>3. ConceptsRead = {d.path : d \in concepts}
  BY DEF ConceptsRead
<1> HIDE DEF concepts
<1>4. IsFiniteSet(ConceptsRead)
  <2> DEFINE f == [d \in concepts |-> d.path]
  <2>1. f \in [concepts -> {f[d] : d \in concepts}] /\ {f[d] : d \in concepts} = ConceptsRead
    BY <1>3
  <2> HIDE DEF f
  <2>2. QED
    BY <1>2, <2>1, ImageFinite
<1>5. ConceptsRead \subseteq Seq(Names)
  BY <1>3 DEF PathsInv, concepts
<1>6. IsFiniteSet(fronts)
  <2> DEFINE f == [p \in ConceptsRead |-> Front(p)]
  <2>1. f \in [ConceptsRead -> {f[p] : p \in ConceptsRead}] /\ {f[p] : p \in ConceptsRead} = fronts
    OBVIOUS
  <2> HIDE DEF f, fronts
  <2>2. QED
    BY <1>4, <2>1, ImageFinite
<1>7. fronts \subseteq Seq(Names)
  BY <1>5, FrontOf
<1>8. IsFiniteSet(D)
  <2>1. IsFiniteSet({<<>>})
    BY FS_Singleton
  <2> HIDE DEF fronts
  <2>2. QED
    BY <1>6, <2>1, FS_Union
<1>9. D \in SUBSET Seq(Names)
  BY <1>7, EmptySeq
<1>10. RenderedFiles \subseteq {IndexOf(d) : d \in D}
  BY DEF RenderedFiles, IndexFiles, IndexOf
<1>11. QED
  BY <1>4, <1>8, <1>9, <1>10

(* The files of a command are finitely many, each with a path.             *)
LEMMA RenderedPaths ==
  ASSUME CommandInvariant, DocumentsInv, PathsInv
  PROVE  IsFiniteSet(RenderedFiles) /\ \A f \in RenderedFiles : f.path \in Seq(Names)
<1>1. CASE command.name = "index"
  <2>1. PICK D \in SUBSET Seq(Names) : IsFiniteSet(D) /\ RenderedFiles \subseteq {IndexOf(d) : d \in D}
    BY <1>1, IndexesRendered
  <2>2. IsFiniteSet(RenderedFiles)
    <3> DEFINE f == [d \in D |-> IndexOf(d)]
               images == {IndexOf(d) : d \in D}
    <3>1. f \in [D -> {f[d] : d \in D}] /\ {f[d] : d \in D} = images
      OBVIOUS
    <3>2. IsFiniteSet(D) /\ RenderedFiles \subseteq images
      BY <2>1
    <3> HIDE DEF f, images
    <3>3. IsFiniteSet(images)
      BY <3>1, <3>2, ImageFinite
    <3>4. QED
      BY <3>2, <3>3, FS_Subset
  <2>3. \A d \in D : IndexOf(d).path \in Seq(Names)
    <3>1. \A d \in Seq(Names) : Append(d, IndexName) \in Seq(Names)
      BY KnownNames, AppendProperties
    <3>2. QED
      BY <2>1, <3>1 DEF IndexOf
  <2>4. QED
    BY <2>1, <2>2, <2>3
<1>2. CASE command.name = "migrate"
  <2> DEFINE read == {e \in ToSet(run.documents) : e.content \in DOMAIN Migrated}
  <2>1. RenderedFiles = {MigratedFile(d) : d \in read}
    BY <1>2 DEF RenderedFiles
  <2>2. IsFiniteSet(read)
    <3>1. IsFiniteSet(ToSet(run.documents))
      BY FinitelyMany DEF DocumentsInv
    <3>2. QED
      BY <3>1, FS_Subset
  <2>3. \A d \in read : MigratedFile(d).path \in Seq(Names)
    BY DEF PathsInv, MigratedFile
  <2> HIDE DEF read
  <2>4. IsFiniteSet(RenderedFiles)
    <3> DEFINE f == [d \in read |-> MigratedFile(d)]
    <3>1. f \in [read -> {f[d] : d \in read}] /\ {f[d] : d \in read} = RenderedFiles
      BY <2>1
    <3> HIDE DEF f
    <3>2. QED
      BY <2>2, <3>1, ImageFinite
  <2>5. QED
    BY <2>1, <2>3, <2>4
<1>3. CASE command.name \notin {"index", "migrate"}
  <2>1. RenderedFiles = {[path |-> p, content |-> Generated[p]] : p \in command.paths}
    BY <1>3 DEF RenderedFiles
  <2>2. IsFiniteSet(command.paths) /\ command.paths \subseteq Seq(Names)
    BY CommandsAssumption DEF CommandInvariant
  <2>3. IsFiniteSet(RenderedFiles)
    <3> DEFINE f == [p \in command.paths |-> [path |-> p, content |-> Generated[p]]]
    <3>1. f \in [command.paths -> {f[p] : p \in command.paths}] /\ {f[p] : p \in command.paths} = RenderedFiles
      BY <2>1
    <3> HIDE DEF f
    <3>2. QED
      BY <2>2, <3>1, ImageFinite
  <2>4. QED
    BY <2>1, <2>2, <2>3
<1>4. QED
  BY <1>1, <1>2, <1>3

(* The files of an index, or of the agents, are told apart by their paths. *)
LEMMA RenderedApart ==
  ASSUME CommandInvariant, DocumentsInv, PathsInv, TitlesUnmarked, command.name \in {"index", "agent"}
  PROVE  /\ IsFiniteSet(RenderedFiles)
         /\ \A f, g \in RenderedFiles : f.path = g.path => f = g
         /\ \A f \in RenderedFiles : OwnsRegion(f.path) => MarkedOnce(f.content)
         /\ command.name = "index" =>
              \A f \in RenderedFiles : f.path = <<IndexName>> => f.content.front = "0.2"
<1>1. CASE command.name = "index"
  <2>1. IsFiniteSet(ConceptsRead)
    BY <1>1, IndexesRendered
  <2>2. PICK D \in SUBSET Seq(Names) : IsFiniteSet(D) /\ RenderedFiles \subseteq {IndexOf(d) : d \in D}
    BY <1>1, IndexesRendered
  <2>3. IndexName \in Names
    BY RootsAssumption DEF Names
  <2>4. \A d, e \in D : IndexOf(d).path = IndexOf(e).path => d = e
    <3>1. \A d, e \in Seq(Names) : Append(d, IndexName) = Append(e, IndexName) => d = e
      BY <2>3, AppendInjective
    <3>2. QED
      BY <2>2, <3>1 DEF IndexOf
  <2>5. IsFiniteSet(RenderedFiles)
    BY RenderedPaths
  <2>6. \A f \in RenderedFiles : \E d \in D : f = IndexOf(d)
    BY <2>2
  <2>7. \A f \in RenderedFiles : MarkedOnce(f.content)
    <3>1. \A d \in D : MarkedOnce(IndexOf(d).content)
      BY <2>1, IndexMarkedOnce DEF IndexOf
    <3>2. QED
      BY <2>6, <3>1
  <2>8. \A f \in RenderedFiles : f.path = <<IndexName>> => f.content.front = "0.2"
    <3> SUFFICES ASSUME NEW f \in RenderedFiles, f.path = <<IndexName>> PROVE f.content.front = "0.2"
      OBVIOUS
    <3>1. PICK d \in D : f = IndexOf(d)
      BY <2>6
    <3>2. d \in Seq(Names) /\ Append(d, IndexName) = <<IndexName>>
      BY <2>2, <3>1 DEF IndexOf
    <3>3. <<>> \in Seq(Names) /\ Append(<<>>, IndexName) = <<IndexName>>
      BY EmptySeq
    <3>4. d = <<>>
      BY <2>3, <3>2, <3>3, AppendInjective
    <3>5. QED
      BY <3>1, <3>4 DEF IndexOf, RenderIndex
  <2>9. QED
    BY <2>4, <2>5, <2>6, <2>7, <2>8
<1>2. CASE command.name = "agent"
  <2>1. RenderedFiles = {[path |-> p, content |-> Generated[p]] : p \in command.paths}
    BY <1>2 DEF RenderedFiles
  <2>2. command \in Commands
    BY DEF CommandInvariant
  <2>3. IsFiniteSet(command.paths) /\ (<<AgentsName>> \in command.paths => MarkedOnce(Generated[<<AgentsName>>]))
    BY <1>2, <2>2, CommandsAssumption
  <2>4. IsFiniteSet(RenderedFiles)
    BY RenderedPaths
  <2>5. \A f \in RenderedFiles : f.path \in command.paths /\ f = [path |-> f.path, content |-> Generated[f.path]]
    BY <2>1
  <2>6. \A f \in RenderedFiles : OwnsRegion(f.path) => MarkedOnce(f.content)
    <3> SUFFICES ASSUME NEW f \in RenderedFiles, OwnsRegion(f.path) PROVE MarkedOnce(f.content)
      OBVIOUS
    <3>1. f.path = <<AgentsName>>
      BY <1>2 DEF OwnsRegion
    <3>2. f.path \in command.paths /\ f.content = Generated[f.path]
      BY <2>5
    <3>3. QED
      BY <2>3, <3>1, <3>2
  <2>7. QED
    BY <1>2, <2>4, <2>5, <2>6
<1>3. QED
  BY <1>1, <1>2

(* A document with the region that it would get settles.                   *)
LEMMA RegionSettles ==
  ASSUME NEW file, MarkedOnce(file.content), NEW existing, IsText(existing),
         NEW merged, merged = MergeRegion(existing, file.content), merged # Malformed,
         NEW content, IsText(content), content.body = merged.body
  PROVE  MergeRegion(content, file.content) = content /\ Outside(content) = Outside(existing)
<1>1. Around(Outside(existing), content.body, Region(file.content))
  BY MergeKeepsRest
<1>2. Enclosed(Region(file.content))
  BY RegionParts
<1>3. QED
  BY <1>1, <1>2, MergedAgain

(* What is planned for a file settles.                                     *)
LEMMA ContentSettles ==
  ASSUME CommandInvariant, DocumentsInv, PathsInv, TitlesUnmarked, command.name \in {"index", "agent"},
         NEW file \in RenderedFiles, NEW existing, existing = None \/ IsText(existing),
         NEW change, change.path = file.path, change.expected = existing,
         change.content = PlannedContent(file, existing), change.content # Malformed
  PROVE  Settled(change)
<1> DEFINE content == change.content
           Version == command.name = "index" /\ file.path = <<IndexName>> /\ EnsureRootVersion => content.front = "0.2"
           Rest0 == OwnsRegion(file.path) /\ existing # None => Outside(content) = Outside(existing)
<1>1. /\ \A f \in RenderedFiles : f.path = file.path => f = file
      /\ OwnsRegion(file.path) => MarkedOnce(file.content)
      /\ command.name = "index" /\ file.path = <<IndexName>> => file.content.front = "0.2"
  BY RenderedApart
<1>2. SUFFICES Again(file, change) = content /\ Version /\ Rest0
  BY <1>1 DEF Settled
<1> HIDE DEF content
<1>3. CASE existing = None
  <2>1. content = file.content
    BY <1>3 DEF PlannedContent, content
  <2>2. OwnsRegion(file.path) => MergeRegion(file.content, file.content) = file.content
    BY <1>1, OwnRegionMerged
  <2>3. Again(file, change) = content
    BY <2>1, <2>2 DEF Again, content
  <2>4. QED
    BY <1>1, <1>3, <2>1, <2>3
<1>4. CASE existing # None /\ command.name = "index" /\ command.mode = "all"
  <2> DEFINE merged == MergeRegion(existing, file.content)
  <2>1. content = IF file.path = <<IndexName>> /\ EnsureRootVersion /\ merged # Malformed
                  THEN InsertRootVersion(merged) ELSE merged
    BY <1>4 DEF PlannedContent, content
  <2> HIDE DEF merged
  <2>2. MarkedOnce(file.content) /\ OwnsRegion(file.path)
    BY <1>1, <1>4 DEF OwnsRegion
  <2>3. merged # Malformed /\ content # Malformed
    BY <2>1 DEF content
  <2>4. IsText(merged)
    BY <1>4, <2>2, <2>3, MergeKeepsRest DEF merged
  <2>5. IsText(content) /\ content.body = merged.body /\ Version
    <3>1. CASE file.path = <<IndexName>> /\ EnsureRootVersion
      <4>1. content = [merged EXCEPT !.front = "0.2"]
        BY <2>1, <2>3, <3>1 DEF InsertRootVersion
      <4>2. merged = [front |-> merged.front, body |-> merged.body] /\ merged.body \in Seq(ToSet(merged.body))
        BY <2>4 DEF IsText
      <4>3. content = [front |-> "0.2", body |-> merged.body]
        BY <4>1, <4>2
      <4>4. QED
        BY <4>2, <4>3 DEF IsText
    <3>2. CASE ~(file.path = <<IndexName>> /\ EnsureRootVersion)
      BY <2>1, <2>4, <3>2
    <3>3. QED
      BY <3>1, <3>2
  <2>6. MergeRegion(content, file.content) = content /\ Outside(content) = Outside(existing)
    BY <1>4, <2>2, <2>3, <2>5, RegionSettles DEF merged
  <2>7. Again(file, change) = content
    BY <1>4, <2>2, <2>6 DEF Again, content
  <2>8. QED
    BY <2>5, <2>6, <2>7
<1>5. CASE existing # None /\ command.name = "index" /\ command.mode # "all"
  <2>1. content = IF file.path = <<IndexName>> /\ EnsureRootVersion /\ existing # Malformed
                  THEN InsertRootVersion(existing) ELSE existing
    BY <1>5 DEF PlannedContent, content
  <2>2. content # Malformed
    BY DEF content
  <2>3. Again(file, change) = content
    BY <1>5 DEF Again, OwnsRegion, content
  <2>4. existing = [front |-> existing.front, body |-> existing.body]
    BY <1>5 DEF IsText
  <2>5. content.body = existing.body /\ Version
    <3>1. CASE file.path = <<IndexName>> /\ EnsureRootVersion
      <4>1. content = [existing EXCEPT !.front = "0.2"]
        BY <2>1, <2>2, <3>1 DEF InsertRootVersion
      <4>2. QED
        BY <2>4, <4>1
    <3>2. CASE ~(file.path = <<IndexName>> /\ EnsureRootVersion)
      BY <2>1, <3>2
    <3>3. QED
      BY <3>1, <3>2
  <2>6. Outside(content) = Outside(existing)
    BY <2>5 DEF Outside
  <2>7. QED
    BY <2>3, <2>5, <2>6
<1>6. CASE existing # None /\ command.name = "agent" /\ file.path = <<AgentsName>>
  <2>1. content = MergeRegion(existing, file.content) /\ content # Malformed
    BY <1>6 DEF PlannedContent, content
  <2>2. MarkedOnce(file.content) /\ OwnsRegion(file.path)
    BY <1>1, <1>6 DEF OwnsRegion
  <2>3. IsText(content)
    BY <1>6, <2>1, <2>2, MergeKeepsRest
  <2>4. MergeRegion(content, file.content) = content /\ Outside(content) = Outside(existing)
    BY <1>6, <2>1, <2>2, <2>3, RegionSettles
  <2>5. Again(file, change) = content
    BY <1>6, <2>2, <2>4 DEF Again, content
  <2>6. QED
    BY <1>6, <2>4, <2>5
<1>7. CASE existing # None /\ command.name = "agent" /\ file.path # <<AgentsName>>
  <2>1. content = file.content /\ ~OwnsRegion(file.path)
    BY <1>7 DEF PlannedContent, OwnsRegion, content
  <2>2. QED
    BY <1>7, <2>1 DEF Again, content
<1>8. QED
  BY <1>3, <1>4, <1>5, <1>6, <1>7

LEMMA RenderedKept ==
  ASSUME UNCHANGED command, run'.documents = run.documents
  PROVE  RenderedFiles' = RenderedFiles /\ \A change : Settled(change)' <=> Settled(change)
<1>1. ConceptsRead' = ConceptsRead /\ IndexesRead' = IndexesRead
  BY DEF ConceptsRead, IndexesRead
<1>2. EnsureRootVersion' <=> EnsureRootVersion
  BY DEF EnsureRootVersion
<1>3. \A d : MigratedFile(d)' = MigratedFile(d)
  BY DEF MigratedFile
<1>4. RenderedFiles' = RenderedFiles
  BY <1>1, <1>2, <1>3 DEF RenderedFiles
<1>5. \A path : OwnsRegion(path)' <=> OwnsRegion(path)
  BY DEF OwnsRegion
<1>6. \A file, change : Again(file, change)' = Again(file, change)
  BY <1>5 DEF Again
<1>7. ASSUME NEW change PROVE Settled(change)' <=> Settled(change)
  BY <1>2, <1>4, <1>5, <1>6 DEF Settled
<1>8. QED
  BY <1>4, <1>7

(* A step that reads nothing and plans nothing.                            *)
LEMMA SettleStays ==
  ASSUME CommandInvariant, SettleInvariant, UNCHANGED command,
         run'.documents = run.documents, run'.plan = run.plan,
         \/ run'.at \notin Reading \cup Planning
         \/ bytes' = bytes /\ run.at \in Reading /\ run'.at \in Reading \cup {"files"}
         \/ bytes' = bytes /\ run.at = "look" /\ run'.at = "decide"
         \/ bytes' = bytes /\ run.at = "look" /\ run'.at = "readTarget" /\ run'.todo = run.todo /\ run.todo # <<>>
  PROVE  SettleInvariant'
<1>1. TextsInv'
  BY DEF SettleInvariant, TextsInv, Reading, Planning
<1>2. ASSUME command.name \in {"index", "agent"}, run'.at \in Planning
      PROVE  \A change \in ToSet(run.plan) : Settled(change)
  <2>1. CASE run.at \in Planning
    BY <1>2, <2>1 DEF SettleInvariant, ChangesInv
  <2>2. CASE run.at \in Reading
    BY <2>2 DEF CommandInvariant, PlanInv, ToSet
  <2>3. QED
    BY <1>2, <2>1, <2>2 DEF Planning
<1>4. RenderedFiles' = RenderedFiles /\ \A change : Settled(change)' <=> Settled(change)
  BY RenderedKept
<1>5. ASSUME command.name \in {"index", "agent"}, run'.at \in Looking
      PROVE  /\ run'.todo \in Seq(ToSet(run'.todo)) /\ ToSet(run'.todo) \subseteq RenderedFiles
             /\ run'.todo # <<>>
  <2>1. run.at = "look" /\ run'.todo = run.todo /\ run.todo # <<>>
    BY <1>5 DEF Looking, Planning, Reading
  <2>2. QED
    BY <1>5, <2>1 DEF SettleInvariant, ChangesInv, Looking
<1>6. ChangesInv'
  BY <1>2, <1>4, <1>5 DEF ChangesInv
<1>7. QED
  BY <1>1, <1>6 DEF SettleInvariant

LEMMA FailedSettle ==
  ASSUME CommandInvariant, SettleInvariant, Fail PROVE SettleInvariant'
<1>1. run'.documents = run.documents /\ run'.plan = run.plan /\ run'.at = "done" /\ UNCHANGED command
  BY DEF Fail, Failed, Continue, Rest, CommandInvariant, RunFields
<1>2. QED
  BY <1>1, SettleStays DEF Reading, Planning


(* A file is planned, or is as it should be.                               *)
LEMMA FilePlanSettles ==
  ASSUME CommandInvariant, SnapshotInvariant, SettleInvariant, TitlesUnmarked, run.at \in Looking,
         command.name \in {"index", "agent"} => run.todo # <<>>,
         NEW node, NEW existing, existing = None \/ IsText(existing), PlanFile(Head(run.todo), node, existing)
  PROVE  SettleInvariant'
<1> DEFINE file == Head(run.todo)
           content == PlannedContent(file, existing)
           anchored == platform = "windows" /\ existing = None
           parent == IF anchored THEN ParentOf(file.path) ELSE Absent
           change == [root |-> run.anchor, path |-> file.path, content |-> content, expected |-> existing,
                      file |-> node, parent |-> parent,
                      locks |-> IF anchored /\ parent[1] = "dir" THEN LocksOf(file.path) ELSE {}]
           next == [run EXCEPT !.at = "look", !.todo = Tail(@), !.looked = Absent, !.text = None]
           longer == [next EXCEPT !.plan = Append(@, change)]
           Own == command.name \in {"index", "agent"}
<1>1. \/ Fail \/ Continue(next)
      \/ content # Malformed /\ SnapshotHolds(file, existing) /\ Continue(longer)
  BY Zenon DEF PlanFile
<1>2. change.content = content /\ change.expected = existing /\ change.path = file.path
  OBVIOUS
<1> HIDE DEF content, change
<1>3. next.at = "look" /\ next.plan = run.plan /\ next.documents = run.documents /\ next.todo = Tail(run.todo)
  BY DEF CommandInvariant, RunFields
<1>4. /\ longer.at = "look" /\ longer.plan = Append(run.plan, change)
      /\ longer.documents = run.documents /\ longer.todo = Tail(run.todo)
  BY <1>3 DEF CommandInvariant, RunFields
<1> HIDE DEF next, longer, file
<1>5. run.at \in Planning
  BY DEF Looking, Planning
<1>6. ASSUME Own
      PROVE  /\ run.todo \in Seq(ToSet(run.todo)) /\ ToSet(run.todo) \subseteq RenderedFiles /\ run.todo # <<>>
             /\ \A c \in ToSet(run.plan) : Settled(c)
  BY <1>5, <1>6 DEF SettleInvariant, ChangesInv
<1>7. ASSUME Own
      PROVE  /\ Tail(run.todo) \in Seq(ToSet(Tail(run.todo))) /\ ToSet(Tail(run.todo)) \subseteq RenderedFiles
             /\ file \in RenderedFiles
  <2>1. /\ Tail(run.todo) \in Seq(ToSet(Tail(run.todo))) /\ ToSet(Tail(run.todo)) \subseteq ToSet(run.todo)
        /\ file \in ToSet(run.todo)
    BY <1>6, <1>7, FirstTaken DEF file
  <2>2. QED
    BY <1>6, <1>7, <2>1
<1>8. ASSUME run'.documents = run.documents, run'.at = "look", run'.todo = Tail(run.todo),
             UNCHANGED <<command, bytes>>, Own => \A c \in ToSet(run'.plan) : Settled(c)
      PROVE  SettleInvariant'
  <2>1. TextsInv'
    BY <1>5, <1>8 DEF SettleInvariant, TextsInv
  <2>2. RenderedFiles' = RenderedFiles /\ \A c : Settled(c)' <=> Settled(c)
    BY <1>8, RenderedKept
  <2>3. ChangesInv'
    BY <1>7, <1>8, <2>2 DEF ChangesInv
  <2>4. QED
    BY <2>1, <2>3 DEF SettleInvariant
<1>9. CASE Continue(next)
  <2>1. run' = next /\ UNCHANGED <<command, bytes>>
    BY <1>9 DEF Continue, Rest
  <2>2. QED
    BY <1>3, <1>6, <1>8, <2>1
<1>10. CASE content # Malformed /\ SnapshotHolds(file, existing) /\ Continue(longer)
  <2>1. run' = longer /\ UNCHANGED <<command, bytes>>
    BY <1>10 DEF Continue, Rest
  <2>2. ToSet(run'.plan) = ToSet(run.plan) \cup {change}
    BY <1>4, <2>1, Appended DEF CommandInvariant, PlanInv
  <2>3. ASSUME Own PROVE Settled(change)
    <3>1. file \in RenderedFiles
      BY <1>7, <2>3
    <3>2. DocumentsInv /\ PathsInv
      BY DEF SnapshotInvariant
    <3>3. change.content = PlannedContent(file, existing) /\ change.content # Malformed
      BY <1>2, <1>10 DEF content
    <3>4. QED
      BY <1>2, <2>3, <3>1, <3>2, <3>3, ContentSettles
  <2>4. Own => \A c \in ToSet(run'.plan) : Settled(c)
    BY <1>6, <2>2, <2>3
  <2>5. QED
    BY <1>4, <1>8, <2>1, <2>4
<1>11. QED
  BY <1>1, <1>9, <1>10, FailedSettle

(* The files are rendered, each of them once.                              *)
LEMMA RenderedSettle ==
  ASSUME CommandInvariant, SnapshotInvariant, SettleInvariant, TitlesUnmarked, RenderFiles
  PROVE  SettleInvariant'
<1> DEFINE r == [run EXCEPT !.at = "look", !.todo = SetToSeq(RenderedFiles)]
<1>1. run' = r /\ UNCHANGED <<command, bytes>> /\ run.at = "files"
  BY DEF RenderFiles, At, Continue, Rest
<1>2. /\ r.at = "look" /\ r.plan = run.plan /\ r.documents = run.documents
      /\ r.todo = SetToSeq(RenderedFiles)
  BY DEF CommandInvariant, RunFields
<1> HIDE DEF r
<1>3. TextsInv'
  BY <1>1, <1>2 DEF SettleInvariant, TextsInv, Planning
<1>4. RenderedFiles' = RenderedFiles /\ \A c : Settled(c)' <=> Settled(c)
  BY <1>1, <1>2, RenderedKept
<1>5. ASSUME command.name \in {"index", "agent"}
      PROVE  run'.todo \in Seq(ToSet(run'.todo)) /\ ToSet(run'.todo) \subseteq RenderedFiles
  <2>1. IsFiniteSet(RenderedFiles)
    BY <1>5, RenderedApart DEF SnapshotInvariant, SettleInvariant
  <2>2. QED
    BY <1>1, <1>2, <2>1, SequenceFrom
<1>6. ASSUME command.name \in {"index", "agent"} PROVE \A c \in ToSet(run.plan) : Settled(c)
  BY <1>1, <1>6 DEF SettleInvariant, ChangesInv, Planning
<1>7. ChangesInv'
  BY <1>1, <1>2, <1>4, <1>5, <1>6 DEF ChangesInv
<1>8. QED
  BY <1>3, <1>7 DEF SettleInvariant

LEMMA TargetsSettle ==
  ASSUME CommandInvariant, SnapshotInvariant, SettleInvariant, TitlesUnmarked,
         LookAtTarget \/ ReadTarget \/ LookAgain
  PROVE  SettleInvariant'
<1>1. CASE LookAtTarget
  <2> DEFINE file == Head(run.todo)
             node == Lookup(root, file.path)
             r == [run EXCEPT !.at = "readTarget", !.looked = node]
  <2>1. run.at = "look" /\ run.todo # <<>>
    BY <1>1 DEF LookAtTarget, At
  <2>2. Fail \/ PlanFile(file, Absent, None) \/ Continue(r)
    BY <1>1, Zenon DEF LookAtTarget
  <2>3. r.at = "readTarget" /\ r.plan = run.plan /\ r.documents = run.documents /\ r.todo = run.todo
    BY DEF CommandInvariant, RunFields
  <2> HIDE DEF r
  <2>4. CASE Continue(r)
    <3>1. run' = r /\ UNCHANGED <<command, bytes>>
      BY <2>4 DEF Continue, Rest
    <3>2. QED
      BY <2>1, <2>3, <3>1, SettleStays
  <2>5. CASE PlanFile(file, Absent, None)
    BY <2>1, <2>5, FilePlanSettles DEF Looking
  <2>6. QED
    BY <2>2, <2>4, <2>5, FailedSettle
<1>2. CASE ReadTarget
  <2>1. run.at = "readTarget" /\ run.at \in Planning /\ run.at \in Looking
    BY <1>2 DEF ReadTarget, At, Planning, Looking
  <2>2. Fail \/ \E text : IsText(text) /\ Continue([run EXCEPT !.at = "lookAgain", !.text = text])
    <3>1. \/ \E f \in Files : Continue([run EXCEPT !.at = "lookAgain", !.text = bytes[f]])
          \/ \E text \in Written : Continue([run EXCEPT !.at = "lookAgain", !.text = text])
          \/ Fail
      BY <1>2, Zenon DEF ReadTarget
    <3>2. \A f \in Files : IsText(bytes[f])
      BY <2>1 DEF SettleInvariant, TextsInv
    <3>3. \A text \in Written : IsText(text)
      BY WrittenAssumption
    <3>4. QED
      BY <3>1, <3>2, <3>3, Zenon
  <2>3. ASSUME NEW text, IsText(text), Continue([run EXCEPT !.at = "lookAgain", !.text = text])
        PROVE  SettleInvariant'
    <3>1. /\ run'.at = "lookAgain" /\ run'.plan = run.plan /\ run'.documents = run.documents
          /\ run'.todo = run.todo /\ run'.text = text /\ UNCHANGED <<command, bytes>>
      BY <2>3 DEF Continue, Rest, CommandInvariant, RunFields
    <3>2. TextsInv'
      BY <2>1, <2>3, <3>1 DEF SettleInvariant, TextsInv
    <3>3. RenderedFiles' = RenderedFiles /\ \A c : Settled(c)' <=> Settled(c)
      BY <3>1, RenderedKept
    <3>4. ChangesInv'
      BY <2>1, <3>1, <3>3 DEF SettleInvariant, ChangesInv
    <3>5. QED
      BY <3>2, <3>4 DEF SettleInvariant
  <2>4. QED
    BY <2>2, <2>3, FailedSettle
<1>3. CASE LookAgain
  <2>1. run.at = "lookAgain" /\ run.at \in Looking
    BY <1>3 DEF LookAgain, At, Looking
  <2>2. Fail \/ PlanFile(Head(run.todo), run.looked, run.text)
    BY <1>3, Zenon DEF LookAgain
  <2>3. IsText(run.text) /\ (command.name \in {"index", "agent"} => run.todo # <<>>)
    BY <2>1 DEF SettleInvariant, TextsInv, ChangesInv
  <2>4. QED
    BY <2>1, <2>2, <2>3, FailedSettle, FilePlanSettles
<1>4. QED
  BY <1>1, <1>2, <1>3

(* While documents are read nothing is planned.                            *)
LEMMA DocumentsSettle ==
  ASSUME CommandInvariant, SettleInvariant, ReadEntry \/ ReadRootIndex PROVE SettleInvariant'
<1>1. CASE Fail
  BY <1>1, FailedSettle
<1>2. CASE ~Fail
  <2>1. UNCHANGED bytes /\ run.at \in Reading /\ run'.at \in {"read", "gate"}
    BY <1>2 DEF ReadEntry, ReadRootIndex, At, Goto, Continue, Reading, CommandInvariant, RunFields
  <2>2. TextsInv'
    BY <2>1 DEF SettleInvariant, TextsInv, Reading, Planning
  <2>3. ChangesInv'
    BY <2>1 DEF ChangesInv, Planning, Looking
  <2>4. QED
    BY <2>2, <2>3 DEF SettleInvariant
<1>3. QED
  BY <1>1, <1>2

(* The other steps change neither what was read nor what is planned.       *)
LEMMA GoesSettle ==
  ASSUME CommandInvariant, SettleInvariant, NEW step, Goto(step),
         \/ step \notin Reading \cup Planning
         \/ run.at \in Reading /\ step \in Reading
         \/ run.at = "look" /\ step = "decide"
  PROVE  SettleInvariant'
<1>1. run' = [run EXCEPT !.at = step] /\ UNCHANGED <<command, bytes>>
  BY DEF Goto, Continue, Rest
<1>2. run'.at = step /\ run'.documents = run.documents /\ run'.plan = run.plan
  BY <1>1 DEF CommandInvariant, RunFields
<1>3. QED
  BY <1>1, <1>2, SettleStays

LEMMA ReportSettles ==
  ASSUME CommandInvariant, SettleInvariant, Report \/ ReportFails PROVE SettleInvariant'
<1>1. run'.at = "done" /\ run'.documents = run.documents /\ run'.plan = run.plan /\ UNCHANGED command
  BY DEF Report, ReportFails, Failed, Continue, Rest, CommandInvariant, RunFields
<1>2. QED
  BY <1>1, SettleStays DEF Reading, Planning

LEMMA ReadingSettles ==
  ASSUME CommandInvariant, SettleInvariant, Begin \/ OpenBundle \/ BundleRead \/ Gate \/ CaptureRoot
  PROVE  SettleInvariant'
<1>1. /\ run.at \in {"start", "open", "read", "gate", "capture"}
      /\ \/ Fail
         \/ \E step \in {"rootIndex", "capture", "open", "report"} : Goto(step)
         \/ Continue([run EXCEPT !.at = "read", !.todo = Listing(root, <<>>), !.anchor = root])
         \/ \E step \in {"gate", "capture"} : Continue([run EXCEPT !.at = step, !.anchor = 0])
         \/ \E node, text : Continue([run EXCEPT !.at = "files", !.anchor = root, !.index = node, !.indexBytes = text])
  <2>1. CASE Begin
    BY <2>1 DEF Begin, At
  <2>2. CASE OpenBundle
    BY <2>2, Zenon DEF OpenBundle, At
  <2>3. CASE BundleRead
    BY <2>3, Zenon DEF BundleRead, At
  <2>4. CASE Gate
    BY <2>4, Zenon DEF Gate, At
  <2>5. CASE CaptureRoot
    BY <2>5, Zenon DEF CaptureRoot, At
  <2>6. QED
    BY <2>1, <2>2, <2>3, <2>4, <2>5
<1>2. run.at \in Reading
  BY <1>1 DEF Reading
<1>3. ASSUME NEW step \in {"rootIndex", "capture", "open", "report"}, Goto(step) PROVE SettleInvariant'
  BY <1>2, <1>3, GoesSettle DEF Reading, Planning
<1>4. ASSUME NEW r, Continue(r), r.documents = run.documents, r.plan = run.plan, r.at \in Reading \cup {"files"}
      PROVE  SettleInvariant'
  <2>1. run' = r /\ UNCHANGED <<command, bytes>>
    BY <1>4 DEF Continue, Rest
  <2>2. QED
    BY <1>2, <1>4, <2>1, SettleStays
<1>5. CASE Continue([run EXCEPT !.at = "read", !.todo = Listing(root, <<>>), !.anchor = root])
  <2> DEFINE r == [run EXCEPT !.at = "read", !.todo = Listing(root, <<>>), !.anchor = root]
  <2>1. r.documents = run.documents /\ r.plan = run.plan /\ r.at \in Reading \cup {"files"}
    BY DEF CommandInvariant, RunFields, Reading
  <2>2. QED
    BY <1>4, <1>5, <2>1
<1>6. ASSUME NEW step \in {"gate", "capture"}, Continue([run EXCEPT !.at = step, !.anchor = 0])
      PROVE  SettleInvariant'
  <2> DEFINE r == [run EXCEPT !.at = step, !.anchor = 0]
  <2>1. r.documents = run.documents /\ r.plan = run.plan /\ r.at \in Reading \cup {"files"}
    BY DEF CommandInvariant, RunFields, Reading
  <2>2. QED
    BY <1>4, <1>6, <2>1
<1>7. ASSUME NEW node, NEW text,
             Continue([run EXCEPT !.at = "files", !.anchor = root, !.index = node, !.indexBytes = text])
      PROVE  SettleInvariant'
  <2> DEFINE r == [run EXCEPT !.at = "files", !.anchor = root, !.index = node, !.indexBytes = text]
  <2>1. r.documents = run.documents /\ r.plan = run.plan /\ r.at \in Reading \cup {"files"}
    BY DEF CommandInvariant, RunFields, Reading
  <2>2. QED
    BY <1>4, <1>7, <2>1
<1>8. QED
  BY <1>1, <1>3, <1>5, <1>6, <1>7, FailedSettle

LEMMA DecisionsSettle ==
  ASSUME CommandInvariant, SettleInvariant,
         \/ Planned \/ Decide \/ ApplyPlan \/ GateAgain \/ AnchorRoot \/ ParentsOpen
         \/ WriteFails \/ PublishFails \/ Report \/ ReportFails \/ Crash
  PROVE  SettleInvariant'
<1>1. CASE Planned
  <2>1. run.at = "look" /\ (Goto("report") \/ Goto("decide"))
    BY <1>1 DEF Planned, At
  <2>2. QED
    BY <2>1, GoesSettle DEF Reading, Planning
<1>2. CASE Decide \/ ApplyPlan \/ GateAgain \/ AnchorRoot \/ ParentsOpen
  <2>1. Fail \/ Goto("report") \/ Goto("gateLook") \/ Goto("anchor") \/ Goto("preflight") \/ Goto("stage")
        \/ Continue([run EXCEPT !.at = "apply", !.applied = TRUE])
    BY <1>2, Zenon DEF Decide, ApplyPlan, GateAgain, AnchorRoot, ParentsOpen
  <2>2. CASE Continue([run EXCEPT !.at = "apply", !.applied = TRUE])
    <3>1. run'.at = "apply" /\ run'.documents = run.documents /\ run'.plan = run.plan /\ UNCHANGED command
      BY <2>2 DEF Continue, Rest, CommandInvariant, RunFields
    <3>2. QED
      BY <3>1, SettleStays DEF Reading, Planning
  <2>3. QED
    BY <2>1, <2>2, FailedSettle, GoesSettle DEF Reading, Planning
<1>3. CASE WriteFails \/ PublishFails \/ Crash
  <2>1. Fail \/ Goto("discard") \/ Goto("crashed")
    BY <1>3, Zenon DEF WriteFails, PublishFails, Abandon, Crash
  <2>2. QED
    BY <2>1, FailedSettle, GoesSettle DEF Reading, Planning
<1>4. QED
  BY <1>1, <1>2, <1>3, ReportSettles

LEMMA PublicationSettles ==
  ASSUME CommandInvariant, SettleInvariant,
         GateLook \/ GateRead \/ Preflight \/ OpenParent \/ Stage \/ WriteStaged \/ Publish \/ Discard
  PROVE  SettleInvariant'
<1> DEFINE Later == {"anchor", "gateRead", "gateAgain", "parents", "stage", "write", "publish", "report", "done"}
<1>1. run'.documents = run.documents /\ run'.plan = run.plan /\ UNCHANGED command /\ run'.at \in Later
  <2>1. CASE GateLook \/ GateRead
    BY <2>1 DEF GateLook, GateRead, At, Goto, Fail, Failed, Continue, Rest, CommandInvariant, RunFields
  <2>2. CASE Preflight
    BY <2>2 DEF Preflight, At, Fail, Failed, Continue, Rest, CommandInvariant, RunFields
  <2>3. CASE OpenParent
    BY <2>3 DEF OpenParent, At, Fail, Failed, Continue, Rest, CommandInvariant, RunFields
  <2>4. CASE Stage
    BY <2>4 DEF Stage, At, Fail, Failed, Continue, Rest, CommandInvariant, RunFields
  <2>5. CASE WriteStaged \/ Publish \/ Discard
    BY <2>5 DEF WriteStaged, Publish, Discard, Failed, Rest, CommandInvariant, RunFields
  <2>6. QED
    BY <2>1, <2>2, <2>3, <2>4, <2>5
<1>2. run'.at \notin Reading \cup Planning
  BY <1>1 DEF Reading, Planning
<1>3. QED
  BY <1>1, <1>2, SettleStays

(* Other programs write texts, and nothing of what the command knows.      *)
LEMMA OthersSettle ==
  ASSUME SettleInvariant, BundleInv, Edit \/ Replace \/ Unlink \/ MoveRoot \/ UNCHANGED vars
  PROVE  SettleInvariant'
<1>1. UNCHANGED <<command, run>>
  BY DEF Edit, Replace, Unlink, MoveRoot, Meddles, vars
<1>2. \A f \in Files : bytes'[f] = bytes[f] \/ bytes'[f] \in Written
  <2>1. bytes = [f \in Files |-> bytes[f]]
    BY DEF BundleInv
  <2>2. UNCHANGED bytes \/ \E f, text : text \in Written /\ bytes' = [bytes EXCEPT ![f] = text]
    <3>1. CASE Edit
      BY <3>1, Zenon DEF Edit
    <3>2. CASE Replace
      BY <3>2, Zenon DEF Replace
    <3>3. CASE Unlink \/ MoveRoot \/ UNCHANGED vars
      BY <3>3 DEF Unlink, MoveRoot, vars
    <3>4. QED
      BY <3>1, <3>2, <3>3
  <2>3. QED
    BY <2>1, <2>2
<1>3. \A text \in Written : IsText(text)
  BY WrittenAssumption
<1>4. TextsInv'
  BY <1>1, <1>2, <1>3 DEF SettleInvariant, TextsInv
<1>5. RenderedFiles' = RenderedFiles /\ \A c : Settled(c)' <=> Settled(c)
  BY <1>1, RenderedKept
<1>6. ChangesInv'
  BY <1>1, <1>5 DEF SettleInvariant, ChangesInv
<1>7. QED
  BY <1>4, <1>6 DEF SettleInvariant

LEMMA InitiallySettled == Init => SettleInvariant
<1> SUFFICES ASSUME Init PROVE SettleInvariant
  OBVIOUS
<1>1. run.at = "start" /\ run.documents = <<>> /\ run.plan = <<>> /\ ToSet(<<>>) = {}
  BY DEF Init, ToSet
<1>2. \A f \in Files : IsText(bytes[f])
  BY RootsAssumption DEF Init
<1>3. TextsInv /\ ChangesInv
  BY <1>1, <1>2 DEF TextsInv, ChangesInv, Looking, Planning
<1>4. QED
  BY <1>3 DEF SettleInvariant

LEMMA SettleStepKeeps ==
  ASSUME CommandInvariant, SnapshotInvariant, SettleInvariant, TitlesUnmarked, [Next]_vars
  PROVE  SettleInvariant'
<1>1. CASE Edit \/ Replace \/ Unlink \/ MoveRoot \/ UNCHANGED vars
  BY <1>1, OthersSettle DEF CommandInvariant
<1>2. CASE CommandStep
  BY <1>2, DocumentsSettle, ReadingSettles, RenderedSettle, TargetsSettle, DecisionsSettle, PublicationSettles, Zenon
     DEF CommandStep
<1>3. QED
  BY <1>1, <1>2, DecisionsSettle, Zenon DEF Next

(* The invariant behind a plan that settles: what is read is a text, what  *)
(* is rendered has one region, and every change made so far settles.       *)
THEOREM SettleInvariantHolds == Spec /\ TitlesUnmarked => []SettleInvariant
<1>1. TitlesUnmarked /\ [Next]_vars => TitlesUnmarked'
  BY DEF TitlesUnmarked
<1>2. CommandInvariant /\ SnapshotInvariant /\ SettleInvariant /\ TitlesUnmarked /\ [Next]_vars
        => SettleInvariant'
  BY SettleStepKeeps
<1>3. QED
  BY InitiallySettled, <1>1, <1>2, CommandInvariantHolds, SnapshotInvariantHolds, PTL DEF Spec

(* Planning again after an index or the agent files were written changes   *)
(* nothing, whatever a file held before, whatever its region was and       *)
(* whatever other programs wrote meanwhile; what lies outside the region   *)
(* is kept.  It needs titles without markers: one in a title would be a    *)
(* second one, and the next merge would refuse the file.                   *)
THEOREM PlansSettle == Spec /\ TitlesUnmarked => []PlanSettles
<1>1. CommandInvariant /\ SettleInvariant => PlanSettles
  <2> SUFFICES ASSUME CommandInvariant, SettleInvariant, run.at = "decide", command.name \in {"index", "agent"},
                      NEW i \in DOMAIN run.plan
               PROVE  Settled(run.plan[i])
    BY Zenon DEF PlanSettles, At, Settled
  <2>1. run.plan[i] \in ToSet(run.plan)
    BY DEF ToSet
  <2>2. QED
    BY <2>1 DEF SettleInvariant, ChangesInv, Planning
<1>2. QED
  BY <1>1, SettleInvariantHolds, CommandInvariantHolds, PTL

(* What a command plans comes from what it read, and settles.              *)
THEOREM PlansAreSound == Spec /\ TitlesUnmarked => []PlanSound
BY MigrationsAreFromSnapshot, PlansSettle, PTL DEF PlanSound

-----------------------------------------------------------------------------
(* Names that lead through the bundle.                                     *)

(* A nonempty set of numbers has a least one.                              *)
LEMMA LeastOf ==
  ASSUME NEW T \in SUBSET Nat, T # {}
  PROVE  \E x \in T : \A y \in T : x <= y
<1> DEFINE R == OpToRel(<, Nat)
<1>1. IsWellFoundedOn(R, Nat)
  BY NatLessThanWellFounded
<1>2. \A x, y \in Nat : <<x, y>> \in R <=> x < y
  BY DEF OpToRel
<1> HIDE DEF R
<1>3. PICK x \in T : \A y \in T : ~(<<y, x>> \in R)
  BY <1>1, WFMin
<1>4. ASSUME NEW y \in T PROVE x <= y
  <2>1. x \in Nat /\ y \in Nat
    OBVIOUS
  <2>2. ~(y < x)
    BY <1>2, <1>3, <2>1
  <2>3. QED
    BY <2>1, <2>2
<1>5. QED
  BY <1>4

(* The first n nodes of a walk.                                            *)
Trod(f, n, from, path) ==
  f = [k \in 0..n |-> IF k > 0 THEN Enter(f[k - 1], path[k]) ELSE IF from = 0 THEN <<"unsafe">> ELSE DirNode(from)]

LEMMA OneFurther ==
  ASSUME NEW n \in Nat, NEW from, NEW path, NEW f, Trod(f, n, from, path)
  PROVE  \E g : Trod(g, n + 1, from, path)
<1> DEFINE g == [k \in 0 .. n + 1 |-> IF k <= n THEN f[k] ELSE Enter(f[n], path[n + 1])]
           start == IF from = 0 THEN <<"unsafe">> ELSE DirNode(from)
           next == [k \in 0 .. n + 1 |-> IF k > 0 THEN Enter(g[k - 1], path[k]) ELSE start]
<1>1. \A k \in 0..n : f[k] = IF k > 0 THEN Enter(f[k - 1], path[k]) ELSE start
  BY DEF Trod
<1>2. \A k \in 0..n : g[k] = f[k]
  OBVIOUS
<1>3. g[n + 1] = Enter(f[n], path[n + 1])
  OBVIOUS
<1> HIDE DEF start
<1>4. ASSUME NEW k \in 0 .. n + 1 PROVE g[k] = IF k > 0 THEN Enter(g[k - 1], path[k]) ELSE start
  <2>1. CASE k = 0
    BY <1>1, <1>2, <2>1
  <2>2. CASE k \in 1..n
    <3>1. k - 1 \in 0..n /\ k \in 0..n /\ k > 0
      BY <2>2
    <3>2. g[k] = f[k] /\ g[k - 1] = f[k - 1] /\ f[k] = Enter(f[k - 1], path[k])
      BY <1>1, <1>2, <3>1
    <3>3. QED
      BY <3>1, <3>2
  <2>3. CASE k = n + 1
    <3>1. k - 1 = n /\ n \in 0..n /\ k > 0
      BY <2>3
    <3>2. g[n] = f[n]
      BY <1>2, <3>1
    <3>3. QED
      BY <1>3, <2>3, <3>1, <3>2
  <2>4. QED
    BY <2>1, <2>2, <2>3
<1>5. g = next
  BY <1>4
<1>6. Trod(g, n + 1, from, path)
  BY <1>5 DEF Trod, start
<1>7. QED
  BY <1>6

(* The definition of a walk describes one.                                 *)
LEMMA WalkIs ==
  ASSUME NEW from, NEW path, Len(path) \in Nat
  PROVE  Trod(Walk(from, path), Len(path), from, path)
<1> DEFINE T == {n \in Nat : ~\E f : Trod(f, n, from, path)}
<1>1. T = {}
  <2> SUFFICES ASSUME T # {} PROVE FALSE
    OBVIOUS
  <2>1. PICK n \in T : \A m \in T : n <= m
    <3>1. T \in SUBSET Nat
      OBVIOUS
    <3> HIDE DEF T
    <3>2. QED
      BY <3>1, LeastOf
  <2>2. n \in Nat /\ ~\E f : Trod(f, n, from, path)
    OBVIOUS
  <2>3. n # 0
    <3> DEFINE f == [k \in 0..0 |-> IF from = 0 THEN <<"unsafe">> ELSE DirNode(from)]
    <3>1. Trod(f, 0, from, path)
      BY DEF Trod
    <3>2. QED
      BY <2>2, <3>1
  <2>4. n - 1 \in Nat /\ ~(n <= n - 1) /\ (n - 1) + 1 = n
    BY <2>2, <2>3
  <2>5. \E f : Trod(f, n - 1, from, path)
    BY <2>1, <2>4
  <2>6. QED
    BY <2>2, <2>4, <2>5, OneFurther
<1>2. \E f : Trod(f, Len(path), from, path)
  BY <1>1
<1>3. Walk(from, path) = CHOOSE f : Trod(f, Len(path), from, path)
  BY DEF Walk, Trod
<1>4. QED
  BY <1>2, <1>3, Zenon

(* The directories that have a name in a tree.                             *)
Named(t) ==
  {<<e[1], e[2], t[e[1]][e[2]][2]>> : e \in {p \in Dirs \X Names : t[p[1]][p[2]][1] = "dir"}}

LEMMA EntriesAre == Entries = Named(tree) /\ Entries' = Named(tree')
BY DEF Entries, Named

LEMMA NamedIs ==
  ASSUME NEW t, Typed(t), NEW d \in Dirs, NEW n \in Names, NEW e
  PROVE  <<d, n, e>> \in Named(t) <=> e \in Dirs /\ t[d][n] = DirNode(e)
<1>1. t[d][n] \in Nodes
  BY DEF Typed
<1>2. t[d][n][1] = "dir" => \E c \in Dirs : t[d][n] = DirNode(c)
  BY <1>1 DEF Nodes, FileNode, DirNode, Absent, LinkNode
<1> DEFINE named == {p \in Dirs \X Names : t[p[1]][p[2]][1] = "dir"}
           entry(p) == <<p[1], p[2], t[p[1]][p[2]][2]>>
<1>3. Named(t) = {entry(p) : p \in named}
  BY DEF Named
<1>4. entry(<<d, n>>) = <<d, n, t[d][n][2]>>
  OBVIOUS
<1>5. <<d, n>> \in named <=> t[d][n][1] = "dir"
  OBVIOUS
<1>6. \A p \in named : entry(p)[1] = p[1] /\ entry(p)[2] = p[2] /\ p = <<p[1], p[2]>>
  OBVIOUS
<1> HIDE DEF named, entry
<1>7. <<d, n, e>> \in Named(t) <=> t[d][n][1] = "dir" /\ t[d][n][2] = e
  <2>1. ASSUME <<d, n, e>> \in Named(t) PROVE t[d][n][1] = "dir" /\ t[d][n][2] = e
    <3>1. PICK p \in named : <<d, n, e>> = entry(p)
      BY <1>3, <2>1
    <3>2. p = <<d, n>>
      BY <1>6, <3>1
    <3>3. QED
      BY <1>4, <1>5, <3>1, <3>2
  <2>2. ASSUME t[d][n][1] = "dir", t[d][n][2] = e PROVE <<d, n, e>> \in Named(t)
    BY <1>3, <1>4, <1>5, <2>2
  <2>3. QED
    BY <2>1, <2>2
<1>8. QED
  BY <1>2, <1>7 DEF DirNode

LEMMA EntryIs ==
  ASSUME Typed(tree), NEW d \in Dirs, NEW n \in Names, NEW e
  PROVE  <<d, n, e>> \in Entries <=> e \in Dirs /\ tree[d][n] = DirNode(e)
BY EntriesAre, NamedIs

(* Entries that are left alone.                                            *)
LEMMA NamedWithin ==
  ASSUME NEW t, Typed(t), NEW u, Typed(u),
         \A d, e \in Dirs, n \in Names : t[d][n] = DirNode(e) => u[d][n] = DirNode(e)
  PROVE  Named(t) \subseteq Named(u)
<1> SUFFICES ASSUME NEW x \in Named(t) PROVE x \in Named(u)
  OBVIOUS
<1>1. PICK d \in Dirs, n \in Names : x = <<d, n, x[3]>>
  BY DEF Named
<1>2. x[3] \in Dirs /\ t[d][n] = DirNode(x[3])
  BY <1>1, NamedIs
<1>3. QED
  BY <1>1, <1>2, NamedIs

(* A path that leads to a directory leads through directories.             *)
LEMMA WalkLeads ==
  ASSUME Typed(tree), NEW from \in Dirs, NEW path \in Seq(Names), Lookup(from, path)[1] = "dir"
  PROVE  \E way \in [1 .. Len(path) + 1 -> Dirs] :
           /\ way[1] = from /\ DirNode(way[Len(path) + 1]) = Lookup(from, path)
           /\ \A k \in 0..Len(path) : Walk(from, path)[k] = DirNode(way[k + 1])
           /\ \A i \in 1..Len(path) : <<way[i], path[i], way[i + 1]>> \in Entries
<1> DEFINE w == Walk(from, path)
           n == Len(path)
<1>1. n \in Nat /\ \A k \in 1..n : path[k] \in Names
  BY LenProperties
<1>2. w[0] = DirNode(from) /\ \A k \in 1..n : w[k] = Enter(w[k - 1], path[k])
  <2>1. Trod(w, n, from, path) /\ from # 0
    BY <1>1, WalkIs, RootsAssumption
  <2> HIDE DEF w
  <2>2. \A k \in 0..n : w[k] = IF k > 0 THEN Enter(w[k - 1], path[k]) ELSE DirNode(from)
    BY <1>1, <2>1 DEF Trod
  <2>3. QED
    BY <1>1, <2>2
<1>3. w[n] = Lookup(from, path) /\ w[n][1] = "dir"
  BY DEF Lookup
<1> HIDE DEF w, n
<1>4. ASSUME NEW k \in 0..n PROVE w[k][1] = "dir"
  <2> SUFFICES ASSUME w[k][1] # "dir" PROVE FALSE
    OBVIOUS
  <2> DEFINE T == {j \in k..n : w[j][1] = "dir"}
  <2>1. n \in T /\ T \in SUBSET Nat
    BY <1>1, <1>3
  <2>2. PICK m \in T : \A j \in T : m <= j
    <3> HIDE DEF T
    <3>1. QED
      BY <2>1, LeastOf
  <2>3. m \in 1..n /\ m - 1 \in k..n /\ ~(m <= m - 1) /\ w[m][1] = "dir"
    BY <1>1, <2>2
  <2>4. w[m - 1][1] # "dir"
    BY <2>2, <2>3
  <2>5. w[m] = Enter(w[m - 1], path[m])
    BY <1>2, <2>3
  <2>6. w[m] \in {Absent, <<"unsafe">>}
    BY <2>4, <2>5 DEF Enter
  <2>7. QED
    BY <2>3, <2>6 DEF Absent
<1>5. ASSUME NEW k \in 1..n, NEW d \in Dirs, w[k - 1] = DirNode(d)
      PROVE  w[k] = tree[d][path[k]] /\ \E e \in Dirs : w[k] = DirNode(e)
  <2>1. w[k] = tree[d][path[k]]
    BY <1>2, <1>5 DEF Enter, DirNode
  <2>2. w[k] \in Nodes /\ w[k][1] = "dir"
    BY <1>1, <1>4, <2>1 DEF Typed
  <2>3. QED
    BY <2>1, <2>2 DEF Nodes, FileNode, DirNode, Absent, LinkNode
<1>6. ASSUME NEW k \in 0..n PROVE \E d \in Dirs : w[k] = DirNode(d)
  <2> DEFINE T == {j \in 0..n : ~\E d \in Dirs : w[j] = DirNode(d)}
  <2> SUFFICES ASSUME T # {} PROVE FALSE
    OBVIOUS
  <2>1. T \in SUBSET Nat
    BY <1>1
  <2>2. PICK m \in T : \A j \in T : m <= j
    <3> HIDE DEF T
    <3>1. QED
      BY <2>1, LeastOf
  <2>3. m # 0
    BY <1>2, <2>2
  <2>4. m \in 1..n /\ m - 1 \in 0..n /\ ~(m <= m - 1)
    BY <1>1, <2>2, <2>3
  <2>5. \E d \in Dirs : w[m - 1] = DirNode(d)
    BY <2>2, <2>4
  <2>6. QED
    BY <1>5, <2>2, <2>4, <2>5
<1> DEFINE way == [i \in 1 .. n + 1 |-> CHOOSE d \in Dirs : w[i - 1] = DirNode(d)]
<1>7. \A k \in 0..n : way[k + 1] \in Dirs /\ w[k] = DirNode(way[k + 1])
  <2> SUFFICES ASSUME NEW k \in 0..n PROVE way[k + 1] \in Dirs /\ w[k] = DirNode(way[k + 1])
    OBVIOUS
  <2>1. k + 1 \in 1 .. n + 1 /\ (k + 1) - 1 = k
    BY <1>1
  <2>2. way[k + 1] = CHOOSE d \in Dirs : w[k] = DirNode(d)
    BY <2>1
  <2> HIDE DEF way
  <2>3. \E d \in Dirs : w[k] = DirNode(d)
    BY <1>6
  <2>4. QED
    BY <2>2, <2>3, Zenon
<1>8. way \in [1 .. n + 1 -> Dirs]
  <2>1. \A i \in 1 .. n + 1 : i - 1 \in 0..n /\ (i - 1) + 1 = i
    BY <1>1
  <2>2. \A i \in 1 .. n + 1 : way[i] \in Dirs
    BY <1>7, <2>1
  <2>3. QED
    BY <2>2
<1> HIDE DEF way
<1>9. way[1] = from /\ DirNode(way[n + 1]) = Lookup(from, path)
  <2>1. 0 \in 0..n /\ n \in 0..n /\ 0 + 1 = 1
    BY <1>1
  <2>2. w[0] = DirNode(way[1]) /\ w[n] = DirNode(way[n + 1])
    BY <1>7, <2>1
  <2>3. QED
    BY <1>2, <1>3, <2>2 DEF DirNode
<1>10. ASSUME NEW i \in 1..n PROVE <<way[i], path[i], way[i + 1]>> \in Entries
  <2>1. i - 1 \in 0..n /\ i \in 0..n /\ (i - 1) + 1 = i /\ path[i] \in Names
    BY <1>1
  <2>2. /\ way[i] \in Dirs /\ w[i - 1] = DirNode(way[i])
        /\ way[i + 1] \in Dirs /\ w[i] = DirNode(way[i + 1])
    BY <1>7, <2>1
  <2>3. tree[way[i]][path[i]] = DirNode(way[i + 1])
    BY <1>5, <2>2
  <2>4. QED
    BY <2>1, <2>2, <2>3, EntryIs
<1>11. QED
  BY <1>7, <1>8, <1>9, <1>10 DEF w, n

-----------------------------------------------------------------------------
(* What was seen while the plan was applied.                               *)

LEMMA SeenGrows ==
  ASSUME [Next]_vars
  PROVE  /\ seen.roots \subseteq seen'.roots /\ seen.entries \subseteq seen'.entries
         /\ run.at \in Applying /\ ~UNCHANGED vars => root \in seen'.roots /\ Entries \subseteq seen'.entries
<1>1. Watch \/ UNCHANGED vars
  <2>1. CommandStep => Watch
    BY DEF CommandStep, Begin, ReadRootIndex, OpenBundle, ReadEntry, BundleRead, Gate, CaptureRoot,
           RenderFiles, LookAtTarget, ReadTarget, LookAgain, Planned, Decide, ApplyPlan, GateLook,
           GateRead, GateAgain, AnchorRoot, Preflight, OpenParent, ParentsOpen, Stage, WriteStaged, WriteFails,
           Publish, PublishFails, Discard, Report, ReportFails, PlanFile, Abandon, Fail, Goto, Continue, Rest
  <2>2. Crash => Watch
    BY DEF Crash, Goto, Continue, Rest
  <2>3. Edit \/ Replace \/ Unlink \/ MoveRoot => Watch
    BY DEF Edit, Replace, Unlink, MoveRoot, Meddles
  <2>4. QED
    BY <2>1, <2>2, <2>3, Zenon DEF Next
<1>2. UNCHANGED vars => seen' = seen
  BY DEF vars
<1>3. ASSUME Watch
      PROVE  /\ seen.roots \subseteq seen'.roots /\ seen.entries \subseteq seen'.entries
             /\ run.at \in Applying => root \in seen'.roots /\ Entries \subseteq seen'.entries
  BY <1>3 DEF Watch
<1>4. QED
  BY <1>1, <1>2, <1>3, Zenon

LEMMA EntriesStay ==
  ASSUME CommandInvariant, CommandStep PROVE Entries \subseteq Entries'
<1>1. Typed(tree) /\ Typed(tree')
  BY CommandStepKeeps DEF CommandInvariant, BundleInv, Typed, Names
<1>2. ASSUME NEW d \in Dirs, NEW e \in Dirs, NEW n \in Names, tree[d][n] = DirNode(e)
      PROVE  tree'[d][n] = DirNode(e)
  BY <1>2, EntriesKept DEF DirNode, FileNode, Absent
<1>3. QED
  BY <1>1, <1>2, NamedWithin, EntriesAre

-----------------------------------------------------------------------------
(* The paths of a plan, and the root that it was made in.                  *)

(* The files to look at have paths in the bundle, and so have the changes  *)
(* that are planned of them, all below the root that is retained.          *)
FilesInv ==
  /\ run.at \in Looking =>
       /\ run.todo \in Seq(ToSet(run.todo)) /\ (run.at # "look" => run.todo # <<>>)
       /\ \A file \in ToSet(run.todo) : file.path \in Seq(Names)
  /\ \A i \in DOMAIN run.plan :
       /\ run.plan[i].path \in Seq(Names)
       /\ run.at \in Planning \cup Applying => run.plan[i].root = run.anchor

LEMMA FilesStay ==
  ASSUME CommandInvariant, FilesInv, run'.plan = run.plan,
         \/ run'.at \notin Planning \cup Applying
         \/ run.at \in Reading
         \/ run'.anchor = run.anchor /\ run.at \in Planning \cup Applying,
         \/ run'.at \notin Looking
         \/ /\ run.at \in Looking /\ run'.todo = run.todo
            /\ run.at # "look" \/ run.todo # <<>> \/ run'.at = "look"
  PROVE  FilesInv'
<1>1. run.at \in Reading => DOMAIN run.plan = {}
  BY DEF CommandInvariant, PlanInv
<1>2. QED
  BY <1>1 DEF FilesInv, Looking

(* The steps of a command that keep its plan.                              *)
LEMMA PlanIsKept ==
  ASSUME CommandInvariant, CommandStep \/ Crash,
         ~(RenderFiles \/ LookAtTarget \/ ReadTarget \/ LookAgain)
  PROVE  /\ run'.plan = run.plan /\ run'.at \notin Looking
         /\ \/ run'.at \notin Planning \cup Applying
            \/ run.at \in Reading /\ run'.anchor = root
            \/ run'.anchor = run.anchor /\ run.at \in Planning \cup Applying
<1> DEFINE Kept ==
             /\ run'.plan = run.plan /\ run'.at \notin Looking
             /\ \/ run'.at \notin Planning \cup Applying
                \/ run.at \in Reading /\ run'.anchor = root
                \/ run'.anchor = run.anchor /\ run.at \in Planning \cup Applying
<1>1. \A r : Continue(r) => run' = r
  BY DEF Continue
<1>2. Fail => Kept
  BY DEF Fail, Failed, Continue, CommandInvariant, RunFields, Looking, Planning, Applying, Gating, Writing, Staging
<1>3. CASE Begin \/ ReadRootIndex \/ OpenBundle
  BY <1>2, <1>3 DEF Begin, ReadRootIndex, OpenBundle, At, Goto, Continue, CommandInvariant, RunFields, Looking,
                    Planning, Applying, Gating, Writing, Staging
<1>4. CASE ReadEntry \/ BundleRead \/ Gate
  BY <1>2, <1>4 DEF ReadEntry, BundleRead, Gate, At, Goto, Continue, CommandInvariant, RunFields, Looking,
                    Planning, Applying, Gating, Writing, Staging
<1>5. CASE CaptureRoot
  BY <1>2, <1>5 DEF CaptureRoot, At, Continue, CommandInvariant, RunFields, Reading, Looking
<1>6. CASE Planned \/ Decide \/ ApplyPlan \/ GateLook
  BY <1>2, <1>6 DEF Planned, Decide, ApplyPlan, GateLook, At, Goto, Continue, CommandInvariant, RunFields,
                    Looking, Planning, Applying, Gating, Writing, Staging
<1>7. CASE GateRead \/ GateAgain \/ AnchorRoot \/ Preflight
  BY <1>2, <1>7 DEF GateRead, GateAgain, AnchorRoot, Preflight, At, Goto, Failed, Continue, CommandInvariant, RunFields,
                    Looking, Planning, Applying, Gating, Writing, Staging
<1>8. CASE OpenParent \/ ParentsOpen \/ Stage
  BY <1>2, <1>8 DEF OpenParent, ParentsOpen, Stage, At, Goto, Continue, CommandInvariant, RunFields,
                    Looking, Planning, Applying, Gating, Writing, Staging
<1>9. CASE WriteStaged \/ WriteFails \/ Publish \/ PublishFails
  BY <1>2, <1>9 DEF WriteStaged, WriteFails, Publish, PublishFails, Abandon, At, Goto, Continue, CommandInvariant, RunFields,
                    Looking, Planning, Applying, Gating, Writing, Staging
<1>10. CASE Discard \/ Report \/ ReportFails \/ Crash
  BY <1>2, <1>10 DEF Discard, Report, ReportFails, Crash, Failed, At, Goto, Continue, CommandInvariant, RunFields,
                     Looking, Planning, Applying, Gating, Writing, Staging
<1>11. QED
  BY <1>3, <1>4, <1>5, <1>6, <1>7, <1>8, <1>9, <1>10, Zenon DEF CommandStep

LEMMA InitialFiles == Init => FilesInv
BY DEF Init, FilesInv, Looking

LEMMA OthersKeepFiles ==
  ASSUME FilesInv, UNCHANGED run PROVE FilesInv'
BY DEF FilesInv

(* The change that is planned of a file has the path of the file.          *)
LEMMA FilePlanKeepsFiles ==
  ASSUME CommandInvariant, FilesInv, run.at \in Looking, run.todo # <<>>,
         NEW node, NEW existing, PlanFile(Head(run.todo), node, existing)
  PROVE  FilesInv'
<1> DEFINE file == Head(run.todo)
           content == PlannedContent(file, existing)
           anchored == platform = "windows" /\ existing = None
           parent == IF anchored THEN ParentOf(file.path) ELSE Absent
           change == [root |-> run.anchor, path |-> file.path, content |-> content, expected |-> existing,
                      file |-> node, parent |-> parent,
                      locks |-> IF anchored /\ parent[1] = "dir" THEN LocksOf(file.path) ELSE {}]
           next == [run EXCEPT !.at = "look", !.todo = Tail(@), !.looked = Absent, !.text = None]
           longer == [next EXCEPT !.plan = Append(@, change)]
<1>1. Fail \/ Continue(next) \/ Continue(longer)
  BY Zenon DEF PlanFile
<1>2. change.path = file.path /\ change.root = run.anchor
  OBVIOUS
<1> HIDE DEF change
<1>3. /\ next.at = "look" /\ next.plan = run.plan /\ next.todo = Tail(run.todo) /\ next.anchor = run.anchor
      /\ longer.at = "look" /\ longer.plan = Append(run.plan, change) /\ longer.todo = Tail(run.todo)
      /\ longer.anchor = run.anchor
  BY DEF CommandInvariant, RunFields
<1> HIDE DEF next, longer
<1>4. /\ Tail(run.todo) \in Seq(ToSet(Tail(run.todo))) /\ file.path \in Seq(Names)
      /\ \A f \in ToSet(Tail(run.todo)) : f.path \in Seq(Names)
  BY FirstTaken DEF FilesInv
<1>5. run.at \in Planning /\ "look" \in Planning /\ "look" \in Looking
  BY DEF Looking, Planning
<1>6. CASE Fail
  BY <1>6, FilesStay DEF Fail, Failed, Continue, CommandInvariant, RunFields, Looking, Planning, Applying, Gating, Writing, Staging
<1>7. CASE Continue(next)
  <2>1. run' = next
    BY <1>7 DEF Continue
  <2>2. QED
    BY <1>3, <1>4, <1>5, <2>1 DEF FilesInv
<1>8. CASE Continue(longer)
  <2>1. run' = longer
    BY <1>8 DEF Continue
  <2>2. ASSUME NEW i \in DOMAIN longer.plan
        PROVE  longer.plan[i].path \in Seq(Names) /\ longer.plan[i].root = run.anchor
    <3>1. longer.plan[i] = change \/ \E j \in DOMAIN run.plan : longer.plan[i] = run.plan[j]
      <4>1. longer.plan[i] \in ToSet(Append(run.plan, change))
        BY <1>3 DEF ToSet
      <4>2. ToSet(Append(run.plan, change)) = ToSet(run.plan) \cup {change}
        BY Appended DEF CommandInvariant, PlanInv
      <4>3. QED
        BY <4>1, <4>2 DEF ToSet
    <3>2. QED
      BY <1>2, <1>4, <1>5, <3>1 DEF FilesInv
  <2>3. QED
    BY <1>3, <1>4, <1>5, <2>1, <2>2 DEF FilesInv
<1>9. QED
  BY <1>1, <1>6, <1>7, <1>8

LEMMA FilesStepKeeps ==
  ASSUME CommandInvariant, SnapshotInvariant, FilesInv, [Next]_vars PROVE FilesInv'
<1>1. CASE UNCHANGED run
  BY <1>1, OthersKeepFiles
<1>2. CASE RenderFiles
  <2> DEFINE r == [run EXCEPT !.at = "look", !.todo = SetToSeq(RenderedFiles)]
  <2>1. run' = r /\ run.at = "files"
    BY <1>2 DEF RenderFiles, At, Continue
  <2>2. r.at = "look" /\ r.plan = run.plan /\ r.todo = SetToSeq(RenderedFiles) /\ r.anchor = run.anchor
    BY DEF CommandInvariant, RunFields
  <2> HIDE DEF r
  <2>3. /\ r.todo \in Seq(ToSet(r.todo)) /\ \A file \in ToSet(r.todo) : file.path \in Seq(Names)
    <3>1. IsFiniteSet(RenderedFiles) /\ \A f \in RenderedFiles : f.path \in Seq(Names)
      BY RenderedPaths DEF SnapshotInvariant
    <3>2. QED
      BY <2>2, <3>1, SequenceFrom
  <2>4. QED
    BY <2>1, <2>2, <2>3 DEF FilesInv, Planning
<1>3. CASE LookAtTarget
  <2> DEFINE file == Head(run.todo)
             node == Lookup(root, file.path)
             r == [run EXCEPT !.at = "readTarget", !.looked = node]
  <2>1. run.at = "look" /\ run.todo # <<>>
    BY <1>3 DEF LookAtTarget, At
  <2>2. Fail \/ PlanFile(file, Absent, None) \/ Continue(r)
    BY <1>3, Zenon DEF LookAtTarget
  <2>3. r.at = "readTarget" /\ r.plan = run.plan /\ r.anchor = run.anchor /\ r.todo = run.todo
    BY DEF CommandInvariant, RunFields
  <2> HIDE DEF r
  <2>4. CASE Continue(r)
    BY <2>1, <2>3, <2>4, FilesStay DEF Continue, Looking, Planning
  <2>5. CASE PlanFile(file, Absent, None)
    BY <2>1, <2>5, FilePlanKeepsFiles DEF Looking
  <2>6. CASE Fail
    BY <2>6, FilesStay DEF Fail, Failed, Continue, CommandInvariant, RunFields, Looking, Planning, Applying, Gating, Writing, Staging
  <2>7. QED
    BY <2>2, <2>4, <2>5, <2>6
<1>4. CASE ReadTarget
  <2>1. run.at = "readTarget" /\ run.todo # <<>>
    BY <1>4 DEF ReadTarget, At, FilesInv, Looking
  <2>2. Fail \/ \E text : Continue([run EXCEPT !.at = "lookAgain", !.text = text])
    BY <1>4, Zenon DEF ReadTarget
  <2>3. ASSUME NEW text, Continue([run EXCEPT !.at = "lookAgain", !.text = text]) PROVE FilesInv'
    <3>1. run'.at = "lookAgain" /\ run'.plan = run.plan /\ run'.anchor = run.anchor /\ run'.todo = run.todo
      BY <2>3 DEF Continue, CommandInvariant, RunFields
    <3>2. QED
      BY <2>1, <3>1, FilesStay DEF Looking, Planning
  <2>4. CASE Fail
    BY <2>4, FilesStay DEF Fail, Failed, Continue, CommandInvariant, RunFields, Looking, Planning, Applying, Gating, Writing, Staging
  <2>5. QED
    BY <2>2, <2>3, <2>4
<1>5. CASE LookAgain
  <2>1. run.at = "lookAgain" /\ run.todo # <<>>
    BY <1>5 DEF LookAgain, At, FilesInv, Looking
  <2>2. Fail \/ PlanFile(Head(run.todo), run.looked, run.text)
    BY <1>5, Zenon DEF LookAgain
  <2>3. CASE Fail
    BY <2>3, FilesStay DEF Fail, Failed, Continue, CommandInvariant, RunFields, Looking, Planning, Applying, Gating, Writing, Staging
  <2>4. QED
    BY <2>1, <2>2, <2>3, FilePlanKeepsFiles DEF Looking
<1>6. CASE (CommandStep \/ Crash) /\ ~(RenderFiles \/ LookAtTarget \/ ReadTarget \/ LookAgain)
  BY <1>6, PlanIsKept, FilesStay
<1>7. QED
  BY <1>1, <1>2, <1>3, <1>4, <1>5, <1>6 DEF Next, Edit, Replace, Unlink, MoveRoot, Meddles, vars

-----------------------------------------------------------------------------
(* On Windows: directories that are held.                                  *)

(* The names before the last one lead from the root to the parent that was *)
(* planned, through directories that are all held.                         *)
HeldWay(change) ==
  LET front == Front(change.path)
  IN \E way \in [1 .. Len(front) + 1 -> Dirs] :
       /\ way[1] = change.root /\ DirNode(way[Len(front) + 1]) = change.parent
       /\ \A i \in 1 .. Len(front) + 1 : way[i] \in change.locks
       /\ \A i \in 1 .. Len(front) : <<way[i], front[i], way[i + 1]>> \in Entries

HeldInv ==
  platform = "windows" /\ run.at \in Planning \cup Applying =>
    /\ root = run.anchor
    /\ \A i \in DOMAIN run.plan : run.plan[i].expected = None => HeldWay(run.plan[i])

LEMMA HeldStay ==
  ASSUME CommandInvariant, HeldInv, UNCHANGED <<platform, root>>, Entries \subseteq Entries', run'.plan = run.plan,
         \/ run'.at \notin Planning \cup Applying
         \/ run.at \in Reading /\ run'.anchor = root
         \/ run'.anchor = run.anchor /\ run.at \in Planning \cup Applying
  PROVE  HeldInv'
<1>1. run.at \in Reading => DOMAIN run.plan = {}
  BY DEF CommandInvariant, PlanInv
<1>2. \A change : HeldWay(change) => HeldWay(change)'
  BY DEF HeldWay
<1>3. QED
  BY <1>1, <1>2 DEF HeldInv

(* The root and the directories of a plan cannot be moved.                 *)
LEMMA PlanIsHeld ==
  ASSUME CommandInvariant, platform = "windows", run.at \in Planning \cup Applying
  PROVE  run.anchor \in HeldDirs /\ \A i \in DOMAIN run.plan : run.plan[i].locks \cap Dirs \subseteq HeldDirs
<1>1. run.anchor \in Dirs /\ 0 \notin Dirs
  BY RootsAssumption DEF CommandInvariant, IndexInv
<1>2. Running /\ ~At("report")
  BY DEF Running, At, Planning, Applying, Gating, Writing, Staging
<1>3. HeldDirs = ({run.anchor, run.parent} \cup UNION {run.plan[i].locks : i \in DOMAIN run.plan}
                    \cup (IF At("read") THEN {item.directory : item \in ToSet(run.todo)} ELSE {})) \ {0}
  BY <1>2 DEF HeldDirs
<1>4. QED
  BY <1>1, <1>3

LEMMA HeldEntryStays ==
  ASSUME CommandInvariant, NEW p \in Places, ~Held(tree[p[1]][p[2]]), NEW node \in Nodes,
         tree' = [tree EXCEPT ![p[1]][p[2]] = node],
         NEW d \in Dirs, NEW n \in Names, NEW e \in HeldDirs, <<d, n, e>> \in Entries
  PROVE  <<d, n, e>> \in Entries'
<1>1. Typed(tree)
  BY DEF CommandInvariant, BundleInv, Typed, Names
<1>2. /\ Typed(tree')
      /\ tree'[d][n] = IF d = p[1] /\ n = p[2] THEN node ELSE tree[d][n]
  <2>1. tree' = Put(tree, p[1], p[2], node)
    BY DEF Put
  <2>2. /\ Typed(Put(tree, p[1], p[2], node))
        /\ Put(tree, p[1], p[2], node)[d][n] = IF d = p[1] /\ n = p[2] THEN node ELSE tree[d][n]
    BY <1>1, EntryChange
  <2>3. QED
    BY <2>1, <2>2, Zenon
<1>3. e \in Dirs /\ tree[d][n] = DirNode(e)
  BY <1>1, EntryIs
<1>4. Held(tree[d][n])
  BY <1>3 DEF Held, DirNode
<1>5. tree'[d][n] = DirNode(e)
  BY <1>2, <1>3, <1>4
<1>6. QED
  BY <1>2, <1>3, <1>5, NamedIs, EntriesAre

LEMMA HeldWayStays ==
  ASSUME CommandInvariant, FilesInv, platform = "windows", run.at \in Planning \cup Applying, UNCHANGED run,
         NEW p \in Places, ~Held(tree[p[1]][p[2]]), NEW node \in Nodes,
         tree' = [tree EXCEPT ![p[1]][p[2]] = node],
         NEW i \in DOMAIN run.plan, HeldWay(run.plan[i])
  PROVE  HeldWay(run.plan[i])'
<1> DEFINE change == run.plan[i]
           front == Front(change.path)
<1>1. front \in Seq(Names)
  BY FrontOf DEF FilesInv
<1>2. PICK way \in [1 .. Len(front) + 1 -> Dirs] :
        /\ way[1] = change.root /\ DirNode(way[Len(front) + 1]) = change.parent
        /\ \A k \in 1 .. Len(front) + 1 : way[k] \in change.locks
        /\ \A k \in 1 .. Len(front) : <<way[k], front[k], way[k + 1]>> \in Entries
  BY DEF HeldWay
<1>3. \A k \in 1 .. Len(front) + 1 : way[k] \in HeldDirs
  BY <1>2, PlanIsHeld
<1>4. ASSUME NEW k \in 1 .. Len(front) PROVE <<way[k], front[k], way[k + 1]>> \in Entries'
  <2>1. Len(front) \in Nat /\ front[k] \in Names
    BY <1>1, LenProperties
  <2>2. k \in 1 .. Len(front) + 1 /\ k + 1 \in 1 .. Len(front) + 1
    BY <2>1
  <2>3. way[k] \in Dirs /\ way[k + 1] \in HeldDirs /\ <<way[k], front[k], way[k + 1]>> \in Entries
    BY <1>2, <1>3, <2>2
  <2> HIDE DEF front
  <2>4. QED
    BY <2>1, <2>3, HeldEntryStays
<1>5. QED
  BY <1>2, <1>4 DEF HeldWay

(* Other programs cannot cut the way to a planned file.                    *)
LEMMA OthersKeepHeld ==
  ASSUME CommandInvariant, FilesInv, HeldInv, Edit \/ Replace \/ Unlink \/ MoveRoot \/ UNCHANGED vars
  PROVE  HeldInv'
<1>1. UNCHANGED <<platform, run>>
  BY DEF Edit, Replace, Unlink, MoveRoot, Meddles, vars
<1> SUFFICES ASSUME platform = "windows", run.at \in Planning \cup Applying PROVE HeldInv'
  BY <1>1 DEF HeldInv
<1>2. root = run.anchor /\ \A i \in DOMAIN run.plan : run.plan[i].expected = None => HeldWay(run.plan[i])
  BY DEF HeldInv
<1>3. CASE UNCHANGED <<root, tree>>
  <2>1. \A change : HeldWay(change)' <=> HeldWay(change)
    BY <1>3 DEF HeldWay, Entries
  <2>2. QED
    BY <1>1, <1>2, <1>3, <2>1 DEF HeldInv
<1>4. CASE MoveRoot
  BY <1>2, <1>4, PlanIsHeld DEF MoveRoot
<1>5. ASSUME UNCHANGED root,
             \E p \in Places, node \in Nodes :
               ~Held(tree[p[1]][p[2]]) /\ tree' = [tree EXCEPT ![p[1]][p[2]] = node]
      PROVE  HeldInv'
  <2>1. PICK p \in Places, node \in Nodes :
          ~Held(tree[p[1]][p[2]]) /\ tree' = [tree EXCEPT ![p[1]][p[2]] = node]
    BY <1>5
  <2>2. ASSUME NEW i \in DOMAIN run.plan, run.plan[i].expected = None PROVE HeldWay(run.plan[i])'
    BY <1>1, <1>2, <2>1, <2>2, HeldWayStays
  <2>3. ASSUME NEW i \in DOMAIN run'.plan, run'.plan[i].expected = None PROVE HeldWay(run.plan[i])'
    BY <1>1, <2>2, <2>3
  <2>4. QED
    BY <1>1, <1>2, <1>5, <2>3 DEF HeldInv, HeldWay
<1>6. CASE Replace
  BY <1>5, <1>6, FreshFacts DEF Replace, Nodes
<1>7. CASE Unlink
  <2>1. {Absent, LinkNode} \subseteq Nodes
    BY DEF Nodes
  <2>2. QED
    BY <1>5, <1>7, <2>1 DEF Unlink
<1>8. QED
  BY <1>3, <1>4, <1>6, <1>7 DEF Edit, vars

(* A new file is planned when its parent is reached and held.              *)
LEMMA FilePlanIsHeld ==
  ASSUME CommandInvariant, FilesInv, HeldInv, run.at \in Looking, run.todo # <<>>,
         NEW node, NEW existing, PlanFile(Head(run.todo), node, existing)
  PROVE  HeldInv'
<1> DEFINE file == Head(run.todo)
           content == PlannedContent(file, existing)
           anchored == platform = "windows" /\ existing = None
           parent == IF anchored THEN ParentOf(file.path) ELSE Absent
           change == [root |-> run.anchor, path |-> file.path, content |-> content, expected |-> existing,
                      file |-> node, parent |-> parent,
                      locks |-> IF anchored /\ parent[1] = "dir" THEN LocksOf(file.path) ELSE {}]
           next == [run EXCEPT !.at = "look", !.todo = Tail(@), !.looked = Absent, !.text = None]
           longer == [next EXCEPT !.plan = Append(@, change)]
<1>1. Fail \/ Continue(next) \/ (Continue(longer) /\ (anchored => parent[1] = "dir"))
  BY Zenon DEF PlanFile
<1>2. /\ change.path = file.path /\ change.root = run.anchor /\ change.expected = existing
      /\ anchored => change.parent = ParentOf(file.path)
      /\ anchored /\ parent[1] = "dir" => change.locks = LocksOf(file.path)
  OBVIOUS
<1>3. anchored => parent = ParentOf(file.path)
  OBVIOUS
<1> HIDE DEF change, parent
<1>4. /\ next.at = "look" /\ next.plan = run.plan /\ next.anchor = run.anchor
      /\ longer.at = "look" /\ longer.plan = Append(run.plan, change) /\ longer.anchor = run.anchor
  BY DEF CommandInvariant, RunFields
<1> HIDE DEF next, longer
<1>5. run.at \in Planning /\ file.path \in Seq(Names)
  BY FirstTaken DEF FilesInv, Looking, Planning
<1>6. Entries' = Entries /\ UNCHANGED <<platform, root>>
  BY <1>1 DEF Fail, Continue, Rest, Entries
<1>7. CASE Fail
  BY <1>6, <1>7, HeldStay DEF Fail, Failed, Continue, CommandInvariant, RunFields, Planning, Applying, Gating, Writing, Staging
<1>8. CASE Continue(next)
  BY <1>4, <1>5, <1>6, <1>8, HeldStay DEF Continue
<1>9. CASE Continue(longer) /\ (anchored => parent[1] = "dir")
  <2>1. run' = longer
    BY <1>9 DEF Continue
  <2> SUFFICES ASSUME platform = "windows" PROVE HeldInv'
    BY <1>6 DEF HeldInv
  <2>2. root = run.anchor /\ \A i \in DOMAIN run.plan : run.plan[i].expected = None => HeldWay(run.plan[i])
    BY <1>5 DEF HeldInv
  <2>3. ASSUME existing = None PROVE HeldWay(change)
    <3> DEFINE front == Front(file.path)
    <3>1. Typed(tree) /\ root \in Dirs /\ front \in Seq(Names)
      BY <1>5, <2>2, FrontOf DEF CommandInvariant, BundleInv, IndexInv, Typed, Names
    <3>2. parent[1] = "dir" /\ parent = Lookup(root, front)
      BY <1>3, <1>9, <2>3 DEF ParentOf
    <3>3. PICK way \in [1 .. Len(front) + 1 -> Dirs] :
            /\ way[1] = root /\ DirNode(way[Len(front) + 1]) = Lookup(root, front)
            /\ \A k \in 0..Len(front) : Walk(root, front)[k] = DirNode(way[k + 1])
            /\ \A i \in 1..Len(front) : <<way[i], front[i], way[i + 1]>> \in Entries
      BY <3>1, <3>2, WalkLeads
    <3>4. change.locks = {Walk(root, front)[k][2] : k \in 0..Len(front)}
      BY <1>2, <2>3, <3>2 DEF LocksOf
    <3>5. ASSUME NEW i \in 1 .. Len(front) + 1 PROVE way[i] \in change.locks
      <4>1. Len(front) \in Nat
        BY <3>1, LenProperties
      <4>2. i - 1 \in 0..Len(front) /\ (i - 1) + 1 = i
        BY <4>1
      <4>3. Walk(root, front)[i - 1] = DirNode(way[i])
        BY <3>3, <4>2
      <4>4. Walk(root, front)[i - 1][2] = way[i]
        BY <4>3 DEF DirNode
      <4>5. QED
        BY <3>4, <4>2, <4>4
    <3>6. change.path = file.path /\ change.root = root /\ change.parent = Lookup(root, front)
      BY <1>2, <1>3, <2>2, <2>3, <3>2
    <3>7. QED
      BY <3>3, <3>5, <3>6, Zenon DEF HeldWay
  <2>4. ASSUME NEW i \in DOMAIN longer.plan, longer.plan[i].expected = None PROVE HeldWay(longer.plan[i])
    <3>1. longer.plan[i] = change \/ \E j \in DOMAIN run.plan : longer.plan[i] = run.plan[j]
      <4>1. longer.plan[i] \in ToSet(Append(run.plan, change))
        BY <1>4 DEF ToSet
      <4>2. ToSet(Append(run.plan, change)) = ToSet(run.plan) \cup {change}
        BY Appended DEF CommandInvariant, PlanInv
      <4>3. QED
        BY <4>1, <4>2 DEF ToSet
    <3>2. QED
      BY <1>2, <2>2, <2>3, <2>4, <3>1
  <2>5. \A c : HeldWay(c)' <=> HeldWay(c)
    BY <1>6 DEF HeldWay
  <2>6. QED
    BY <1>4, <1>6, <2>1, <2>2, <2>4, <2>5 DEF HeldInv
<1>10. QED
  BY <1>1, <1>7, <1>8, <1>9

LEMMA HeldStepKeeps ==
  ASSUME CommandInvariant, FilesInv, HeldInv, [Next]_vars PROVE HeldInv'
<1>1. CASE Edit \/ Replace \/ Unlink \/ MoveRoot \/ UNCHANGED vars
  BY <1>1, OthersKeepHeld
<1>2. ASSUME CommandStep \/ Crash
      PROVE  UNCHANGED <<platform, root>> /\ Entries \subseteq Entries'
  <2>1. CASE Crash
    BY <2>1 DEF Crash, Goto, Continue, Rest, Entries
  <2>2. CASE CommandStep
    <3>1. UNCHANGED <<platform, root>>
      BY <2>2 DEF CommandStep, Begin, ReadRootIndex, OpenBundle, ReadEntry, BundleRead, Gate, CaptureRoot,
         RenderFiles, LookAtTarget, ReadTarget, LookAgain, Planned, Decide, ApplyPlan, GateLook,
         GateRead, GateAgain, AnchorRoot, Preflight, OpenParent, ParentsOpen, Stage, WriteStaged, WriteFails,
         Publish, PublishFails, Discard, Report, ReportFails, PlanFile, Abandon, Fail, Goto, Continue, Rest
    <3>2. QED
      BY <2>2, <3>1, EntriesStay
  <2>3. QED
    BY <1>2, <2>1, <2>2
<1>3. CASE RenderFiles \/ ReadTarget
  <2>1. /\ run.at \in Planning /\ run'.plan = run.plan
        /\ run'.at \notin Planning \cup Applying \/ run'.anchor = run.anchor
    BY <1>3 DEF RenderFiles, ReadTarget, At, Fail, Failed, Continue, CommandInvariant, RunFields,
                Planning, Applying, Gating, Writing, Staging
  <2>2. QED
    BY <1>2, <1>3, <2>1, HeldStay DEF CommandStep
<1>4. CASE LookAtTarget \/ LookAgain
  <2> DEFINE r == [run EXCEPT !.at = "readTarget", !.looked = Lookup(root, Head(run.todo).path)]
  <2>1. run.at \in {"look", "lookAgain"} /\ run.todo # <<>>
    BY <1>4 DEF LookAtTarget, LookAgain, At, FilesInv, Looking
  <2>2. Fail \/ Continue(r) \/ \E node, existing : PlanFile(Head(run.todo), node, existing)
    BY <1>4, Zenon DEF LookAtTarget, LookAgain
  <2>3. CASE Fail \/ Continue(r)
    <3>1. /\ run'.plan = run.plan
          /\ run'.at \notin Planning \cup Applying \/ run'.anchor = run.anchor
      BY <2>3 DEF Fail, Failed, Continue, CommandInvariant, RunFields, Planning, Applying, Gating, Writing, Staging
    <3>2. QED
      BY <1>2, <1>4, <2>1, <3>1, HeldStay DEF CommandStep, Planning
  <2>4. QED
    BY <2>1, <2>2, <2>3, FilePlanIsHeld DEF Looking
<1>5. CASE (CommandStep \/ Crash) /\ ~(RenderFiles \/ LookAtTarget \/ ReadTarget \/ LookAgain)
  BY <1>2, <1>5, PlanIsKept, HeldStay
<1>6. QED
  BY <1>1, <1>3, <1>4, <1>5 DEF Next

-----------------------------------------------------------------------------
(* The way from the root to the directory of a new file.                   *)

(* Some names of front were followed, or their directories created, one    *)
(* after the other; todo are those that remain.                            *)
WalkedBy(anchor, parent, todo, front, entries) ==
  LET n == Len(front) - Len(todo)
  IN /\ todo \in Seq(Names) /\ n \in Nat
     /\ \A i \in 1 .. Len(todo) : todo[i] = front[n + i]
     /\ \E way \in [1 .. Len(front) + 1 -> Dirs] :
          /\ way[1] = anchor /\ way[n + 1] = parent
          /\ \A i \in 1..n : <<way[i], front[i], way[i + 1]>> \in entries

Walked == WalkedBy(run.anchor, run.parent, run.todo, Front(Change.path), seen.entries \cup Entries)

LEMMA WalkedFurther ==
  ASSUME NEW anchor, NEW parent, NEW todo, NEW front \in Seq(Names), NEW entries, NEW more,
         WalkedBy(anchor, parent, todo, front, entries), todo # <<>>, entries \subseteq more
  PROVE  /\ parent \in Dirs /\ Head(todo) \in Names
         /\ \A d \in Dirs : <<parent, Head(todo), d>> \in more => WalkedBy(anchor, d, Tail(todo), front, more)
<1> DEFINE n == Len(front) - Len(todo)
<1>1. PICK way \in [1 .. Len(front) + 1 -> Dirs] :
        /\ way[1] = anchor /\ way[n + 1] = parent
        /\ \A i \in 1..n : <<way[i], front[i], way[i + 1]>> \in entries
  BY DEF WalkedBy
<1>2. /\ todo \in Seq(Names) /\ n \in Nat /\ \A i \in 1 .. Len(todo) : todo[i] = front[n + i]
  BY DEF WalkedBy
<1>3. Len(front) \in Nat /\ Len(todo) \in Nat \ {0} /\ n = Len(front) - Len(todo)
  BY <1>2, LenProperties, EmptySeq
<1> HIDE DEF n
<1>4. /\ n + 1 \in 1..Len(front) /\ (n + 1) + 1 \in 1 .. Len(front) + 1 /\ n + 1 \in 1 .. Len(front) + 1
      /\ 1 \in 1 .. n + 1 /\ 1 \in 1 .. Len(todo)
  BY <1>2, <1>3
<1>5. Head(todo) = front[n + 1] /\ Head(todo) \in Names
  <2>1. Head(todo) = todo[1] /\ Head(todo) \in Names
    BY <1>2, HeadTailProperties
  <2>2. QED
    BY <1>2, <1>4, <2>1
<1>6. /\ Tail(todo) \in Seq(Names) /\ Len(Tail(todo)) = Len(todo) - 1
      /\ \A i \in 1 .. Len(Tail(todo)) : Tail(todo)[i] = todo[i + 1]
  BY <1>2, HeadTailProperties
<1>7. \A i \in 1 .. Len(Tail(todo)) : Tail(todo)[i] = front[(n + 1) + i]
  <2>1. TAKE i \in 1 .. Len(Tail(todo))
  <2>2. i + 1 \in 1 .. Len(todo) /\ n + (i + 1) = (n + 1) + i
    BY <1>2, <1>3, <1>6
  <2>3. QED
    BY <1>2, <1>6, <2>2
<1>8. Len(front) - Len(Tail(todo)) = n + 1 /\ n + 1 \in Nat
  BY <1>2, <1>3, <1>6
<1>9. ASSUME NEW d \in Dirs, <<parent, Head(todo), d>> \in more
      PROVE  WalkedBy(anchor, d, Tail(todo), front, more)
  <2> DEFINE longer == [way EXCEPT ![(n + 1) + 1] = d]
  <2>1. longer \in [1 .. Len(front) + 1 -> Dirs]
    OBVIOUS
  <2>2. \A i \in 1 .. n + 1 : longer[i] = way[i]
    BY <1>2, <1>3, <1>4
  <2>3. longer[(n + 1) + 1] = d
    BY <1>4
  <2> HIDE DEF longer
  <2>4. \A i \in 1 .. n + 1 : <<longer[i], front[i], longer[i + 1]>> \in more
    <3>1. TAKE i \in 1 .. n + 1
    <3>2. CASE i = n + 1
      <4>1. longer[n + 1] = parent
        BY <1>1, <1>2, <2>2
      <4>2. QED
        BY <1>5, <1>9, <2>3, <3>2, <4>1
    <3>3. CASE i # n + 1
      <4>1. i \in 1..n /\ i + 1 \in 1 .. n + 1
        BY <1>2, <3>3
      <4>2. QED
        BY <1>1, <2>2, <4>1
    <3>4. QED
      BY <3>2, <3>3
  <2>5. longer[1] = anchor
    BY <1>1, <1>4, <2>2
  <2> DEFINE m == n + 1
  <2>6. /\ Len(front) - Len(Tail(todo)) = m /\ m \in Nat /\ longer[m + 1] = d
        /\ \A i \in 1 .. Len(Tail(todo)) : Tail(todo)[i] = front[m + i]
        /\ \A i \in 1..m : <<longer[i], front[i], longer[i + 1]>> \in more
    BY <1>7, <1>8, <2>3, <2>4
  <2> HIDE DEF m
  <2>7. QED
    BY <1>6, <2>1, <2>5, <2>6 DEF WalkedBy
<1>10. parent \in Dirs
  BY <1>1, <1>4
<1>11. QED
  BY <1>5, <1>9, <1>10

AtParent == {"stage"} \cup Staging

ReachInv ==
  /\ run.at \in Writing \ {"anchor"} => run.anchor \in seen.roots
  /\ run.at = "parents" => platform = "unix" /\ Walked
  /\ run.at \in AtParent =>
       Reached(run.parent, Change) /\ (platform = "windows" => DirNode(run.parent) = Change.parent)
  /\ published # {} => Reached(run.parent, Change)

LEMMA ReachStays ==
  ASSUME ReachInv, UNCHANGED <<platform, published>>,
         seen.roots \subseteq seen'.roots, seen.entries \subseteq seen'.entries,
         run'.at \in Writing \ {"anchor"} => run.at \in Writing \ {"anchor"} /\ run'.anchor = run.anchor,
         run'.at # "parents",
         run'.at \in AtParent => run.at \in AtParent,
         run'.at \in AtParent \/ published # {} => run'.parent = run.parent /\ run'.plan = run.plan
  PROVE  ReachInv'
<1>1. run'.plan = run.plan => Change' = Change
  BY DEF Change
<1>2. \A d, c : Reached(d, c) => Reached(d, c)'
  BY DEF Reached, Leads
<1>3. Reached(run.parent, Change) /\ run'.parent = run.parent /\ run'.plan = run.plan => Reached(run.parent, Change)'
  BY <1>1, <1>2
<1>4. QED
  BY <1>1, <1>3 DEF ReachInv

(* The change that is carried out, below the root that is retained.        *)
LEMMA ChangeIs ==
  ASSUME CommandInvariant, FilesInv, run.at \in Writing
  PROVE  /\ 1 \in DOMAIN run.plan /\ Change.expected = None /\ Change.root = run.anchor /\ run.anchor \in Dirs
         /\ Change.path \in Seq(Names) /\ Front(Change.path) \in Seq(Names) /\ Len(Front(Change.path)) \in Nat
<1>1. run.at \in Applying \ {"apply"}
  BY DEF Applying, Writing, Staging
<1>2. 1 \in DOMAIN run.plan /\ Change.expected = None /\ run.anchor \in Dirs
  BY <1>1 DEF CommandInvariant, PlanInv, IndexInv, Change
<1>3. Change.root = run.anchor /\ Change.path \in Seq(Names)
  BY <1>1, <1>2 DEF FilesInv, Change
<1>4. QED
  BY <1>2, <1>3, FrontOf, LenProperties

LEMMA PreflightReaches ==
  ASSUME CommandInvariant, FilesInv, HeldInv, ReachInv, [Next]_vars, Preflight, ~Fail PROVE ReachInv'
<1> DEFINE front == Front(Change.path)
           parent == Lookup(run.anchor, front)
<1>1. run.at = "preflight" /\ run.at \in Writing /\ run.at \in Applying /\ UNCHANGED <<platform, published>>
  BY DEF Preflight, At, Applying, Writing, Continue, Rest, Fail
<1>2. /\ 1 \in DOMAIN run.plan /\ Change.expected = None /\ Change.root = run.anchor /\ run.anchor \in Dirs
      /\ front \in Seq(Names) /\ Len(front) \in Nat
  BY <1>1, ChangeIs
<1>3. \/ platform = "unix" /\ Continue([run EXCEPT !.at = "parents", !.parent = run.anchor, !.todo = front])
      \/ platform # "unix" /\ parent = Change.parent /\ Continue([run EXCEPT !.at = "stage", !.parent = parent[2]])
  BY Zenon DEF Preflight
<1>4. published = {}
  BY <1>1 DEF CommandInvariant, ResultInv
<1>5. /\ run.anchor \in seen.roots /\ seen.roots \subseteq seen'.roots
      /\ run'.at # run.at => Entries \subseteq seen'.entries
  BY <1>1, SeenGrows DEF ReachInv, Writing, vars
<1>6. CASE platform = "unix" /\ Continue([run EXCEPT !.at = "parents", !.parent = run.anchor, !.todo = front])
  <2>1. /\ run'.at = "parents" /\ run'.parent = run.anchor /\ run'.todo = front /\ run'.anchor = run.anchor
        /\ run'.plan = run.plan
    BY <1>6 DEF Continue, CommandInvariant, RunFields
  <2>2. Change' = Change
    BY <2>1 DEF Change
  <2>3. Walked'
    <3> DEFINE way == [i \in 1 .. Len(front) + 1 |-> run.anchor]
    <3>1. way \in [1 .. Len(front) + 1 -> Dirs] /\ way[1] = run.anchor
      BY <1>2
    <3>2. Len(front) - Len(front) = 0 /\ 0 + 1 = 1 /\ \A i \in 1..Len(front) : 0 + i = i
      BY <1>2
    <3> HIDE DEF way, front
    <3>3. Front(Change.path)' = front
      BY <2>2 DEF front
    <3>4. QED
      BY <1>2, <2>1, <3>1, <3>2, <3>3 DEF Walked, WalkedBy
  <2>4. QED
    BY <1>1, <1>4, <1>5, <1>6, <2>1, <2>3 DEF ReachInv, AtParent, Staging
<1>7. CASE platform # "unix" /\ parent = Change.parent /\ Continue([run EXCEPT !.at = "stage", !.parent = parent[2]])
  <2>1. /\ run'.at = "stage" /\ run'.parent = parent[2] /\ run'.anchor = run.anchor /\ run'.plan = run.plan
    BY <1>7 DEF Continue, CommandInvariant, RunFields
  <2>2. Change' = Change
    BY <2>1 DEF Change
  <2>3. platform = "windows" /\ Typed(tree)
    BY <1>7 DEF CommandInvariant, BundleInv, Typed, Names
  <2>4. \E d \in Dirs : Change.parent = DirNode(d)
    <3>1. HeldWay(Change)
      BY <1>1, <1>2, <2>3 DEF HeldInv, Change
    <3>2. PICK way \in [1 .. Len(front) + 1 -> Dirs] : DirNode(way[Len(front) + 1]) = Change.parent
      BY <3>1 DEF HeldWay
    <3>3. QED
      BY <1>2, <3>2
  <2>5. PICK d \in Dirs : parent = DirNode(d)
    BY <1>7, <2>4
  <2>6. parent[1] = "dir" /\ parent[2] = d
    BY <2>5 DEF DirNode
  <2>7. PICK way \in [1 .. Len(front) + 1 -> Dirs] :
          /\ way[1] = run.anchor /\ DirNode(way[Len(front) + 1]) = parent
          /\ \A i \in 1..Len(front) : <<way[i], front[i], way[i + 1]>> \in Entries
    BY <1>2, <2>3, <2>6, WalkLeads
  <2>8. way[Len(front) + 1] = d
    BY <2>5, <2>7 DEF DirNode
  <2>9. Leads(run.anchor, front, d, seen'.entries)
    <3>1. Entries \subseteq seen'.entries /\ DOMAIN front = 1..Len(front)
      BY <1>1, <1>2, <1>5, <2>1, LenProperties
    <3> HIDE DEF front, parent
    <3>2. QED
      BY <2>7, <2>8, <3>1 DEF Leads
  <2>10. Reached(run.parent, Change)'
    <3> HIDE DEF front, parent
    <3>1. Change'.root = run.anchor /\ Front(Change'.path) = front /\ run'.parent = d
      BY <1>2, <2>1, <2>2, <2>6 DEF front
    <3>2. QED
      BY <1>5, <2>9, <3>1 DEF Reached, Leads
  <2>11. DirNode(run'.parent) = Change'.parent
    BY <1>7, <2>1, <2>2, <2>5, <2>6
  <2>12. QED
    BY <1>1, <1>4, <1>5, <2>1, <2>10, <2>11 DEF ReachInv, AtParent, Staging
<1>8. QED
  BY <1>3, <1>6, <1>7

(* One name further, through a directory that is there or a new one.       *)
LEMMA OpenParentReaches ==
  ASSUME CommandInvariant, FilesInv, ReachInv, [Next]_vars, OpenParent, ~Fail PROVE ReachInv'
<1> DEFINE front == Front(Change.path)
           name == Head(run.todo)
           node == tree[run.parent][name]
<1>1. run.at = "parents" /\ run.at \in Writing \ {"anchor"} /\ run.at \in Applying /\ run.todo # <<>>
  BY DEF OpenParent, At, Applying, Writing
<1>2. \/ node[1] = "dir" /\ Continue([run EXCEPT !.parent = node[2], !.todo = Tail(@)])
      \/ /\ node = Absent /\ FreeDirs # {} /\ run' = [run EXCEPT !.parent = FreshDir, !.todo = Tail(@)]
         /\ tree' = [tree EXCEPT ![run.parent][name] = DirNode(FreshDir),
                                 ![FreshDir] = [m \in ToSet(Order) |-> Absent]]
         /\ UNCHANGED <<platform, published>>
  BY Zenon DEF OpenParent, Rest
<1>3. platform = "unix" /\ Walked /\ run.anchor \in seen.roots
  BY <1>1 DEF ReachInv
<1>4. front \in Seq(Names)
  BY <1>1, ChangeIs
<1>5. run.parent \in Dirs /\ name \in Names
  BY <1>1, <1>3, <1>4, WalkedFurther DEF Walked
<1>6. Typed(tree)
  BY DEF CommandInvariant, BundleInv, Typed, Names
<1>7. \E d \in Dirs : run' = [run EXCEPT !.parent = d, !.todo = Tail(@)] /\ <<run.parent, name, d>> \in Entries'
  <2>1. CASE node[1] = "dir" /\ Continue([run EXCEPT !.parent = node[2], !.todo = Tail(@)])
    <3>1. node \in Nodes
      BY <1>5, <1>6 DEF Typed
    <3>2. PICK d \in Dirs : node = DirNode(d)
      BY <2>1, <3>1 DEF Nodes, FileNode, DirNode, Absent, LinkNode
    <3>3. node[2] = d /\ run' = [run EXCEPT !.parent = d, !.todo = Tail(@)] /\ tree' = tree
      BY <2>1, <3>2 DEF DirNode, Continue
    <3>4. <<run.parent, name, d>> \in Entries
      BY <1>5, <1>6, <3>2, EntryIs
    <3>5. Entries' = Entries
      BY <3>3 DEF Entries
    <3>6. QED
      BY <3>3, <3>4, <3>5
  <2>2. CASE /\ node = Absent /\ FreeDirs # {} /\ run' = [run EXCEPT !.parent = FreshDir, !.todo = Tail(@)]
             /\ tree' = [tree EXCEPT ![run.parent][name] = DirNode(FreshDir),
                                     ![FreshDir] = [m \in ToSet(Order) |-> Absent]]
    <3>1. FreshDir \in Dirs /\ \A m \in Names : tree[FreshDir][m] = <<"free">>
      BY <2>2, FreshFacts
    <3>2. run.parent # FreshDir
      BY <1>5, <2>2, <3>1 DEF Absent
    <3>3. Typed(tree')
      BY <2>2, DirectoryCreated DEF CommandInvariant
    <3>4. tree'[run.parent][name] = DirNode(FreshDir)
      BY <1>5, <1>6, <2>2, <3>1, <3>2 DEF Typed
    <3>5. <<run.parent, name, FreshDir>> \in Named(tree')
      BY <1>5, <3>1, <3>3, <3>4, NamedIs
    <3>6. QED
      BY <2>2, <3>1, <3>5, EntriesAre
  <2>3. QED
    BY <1>2, <2>1, <2>2
<1>8. PICK d \in Dirs : run' = [run EXCEPT !.parent = d, !.todo = Tail(@)] /\ <<run.parent, name, d>> \in Entries'
  BY <1>7
<1>9. /\ run'.at = "parents" /\ run'.parent = d /\ run'.todo = Tail(run.todo) /\ run'.anchor = run.anchor
      /\ run'.plan = run.plan
  BY <1>1, <1>8 DEF CommandInvariant, RunFields
<1>10. Front(Change.path)' = front
  BY <1>9 DEF Change
<1>11. seen.roots \subseteq seen'.roots /\ seen.entries \cup Entries \subseteq seen'.entries
  <2>1. run'.todo # run.todo
    <3>1. run.todo \in Seq(Names)
      BY <1>3 DEF Walked, WalkedBy
    <3>2. Len(run.todo) \in Nat /\ Len(Tail(run.todo)) = Len(run.todo) - 1
      BY <1>1, <3>1, HeadTailProperties, LenProperties
    <3>3. Len(Tail(run.todo)) # Len(run.todo)
      BY <3>2
    <3>4. Tail(run.todo) # run.todo
      BY <3>3, Zenon
    <3>5. QED
      BY <1>9, <3>4, Zenon
  <2>2. ~UNCHANGED vars
    BY <2>1 DEF vars
  <2>3. QED
    BY <1>1, <2>2, SeenGrows
<1>12. Walked'
  <2> DEFINE more == seen'.entries \cup Entries'
  <2>1. seen.entries \cup Entries \subseteq more /\ <<run.parent, name, d>> \in more
    BY <1>8, <1>11
  <2>2. WalkedBy(run.anchor, d, Tail(run.todo), front, more)
    <3> HIDE DEF more, front
    <3>1. WalkedBy(run.anchor, run.parent, run.todo, front, seen.entries \cup Entries)
      BY <1>3 DEF Walked, front
    <3>2. QED
      BY <1>1, <1>4, <2>1, <3>1, WalkedFurther
  <2>3. QED
    BY <1>9, <1>10, <2>2 DEF Walked, WalkedBy
<1>13. published = {} /\ UNCHANGED <<platform, published>>
  BY <1>1, <1>2 DEF CommandInvariant, ResultInv, Continue, Rest
<1>14. QED
  BY <1>3, <1>9, <1>11, <1>12, <1>13 DEF ReachInv, AtParent, Staging

(* The steps that leave the way and its end as they are.                   *)
LEMMA WayIsKept ==
  ASSUME CommandInvariant, CommandStep \/ Crash,
         Fail \/ ~(AnchorRoot \/ Preflight \/ OpenParent \/ ParentsOpen \/ Publish)
  PROVE  /\ UNCHANGED <<platform, published>>
         /\ run'.at \in Writing \ {"anchor"} => run.at \in Writing \ {"anchor"} /\ run'.anchor = run.anchor
         /\ run'.at # "parents"
         /\ run'.at \in AtParent => run.at \in AtParent
         /\ run'.at \in AtParent \/ published # {} => run'.parent = run.parent /\ run'.plan = run.plan
<1> DEFINE Kept ==
             /\ UNCHANGED <<platform, published>>
             /\ run'.at \in Writing \ {"anchor"} => run.at \in Writing \ {"anchor"} /\ run'.anchor = run.anchor
             /\ run'.at # "parents"
             /\ run'.at \in AtParent => run.at \in AtParent
             /\ run'.at \in AtParent \/ published # {} => run'.parent = run.parent /\ run'.plan = run.plan
<1>1. DOMAIN run = RunFields /\ (published # {} => run.at \in {"report", "done", "crashed"})
  BY DEF CommandInvariant, ResultInv
<1>2. Fail => Kept
  BY <1>1 DEF Fail, Failed, Continue, Rest, RunFields, AtParent, Writing, Staging
<1>3. CASE Begin \/ ReadRootIndex \/ OpenBundle
  BY <1>1, <1>2, <1>3 DEF Begin, ReadRootIndex, OpenBundle, At, Goto, Continue, Rest, RunFields,
                          AtParent, Writing, Staging
<1>4. CASE ReadEntry \/ BundleRead \/ Gate
  BY <1>1, <1>2, <1>4 DEF ReadEntry, BundleRead, Gate, At, Goto, Continue, Rest, RunFields,
                          AtParent, Writing, Staging
<1>5. CASE CaptureRoot \/ RenderFiles
  BY <1>1, <1>2, <1>5 DEF CaptureRoot, RenderFiles, At, Continue, Rest, RunFields, AtParent, Writing, Staging
<1>6. ASSUME LookAtTarget \/ ReadTarget \/ LookAgain PROVE Kept
  <2>1. published = {}
    BY <1>1, <1>6 DEF LookAtTarget, ReadTarget, LookAgain, At
  <2>2. UNCHANGED <<platform, published>>
    BY <1>6 DEF LookAtTarget, ReadTarget, LookAgain, PlanFile, Fail, Continue, Rest
  <2>3. run'.at \in {"look", "readTarget", "lookAgain", "done"}
    <3>1. Fail => run'.at = "done"
      BY <1>1 DEF Fail, Failed, Continue, RunFields
    <3>2. ASSUME NEW file, NEW node, NEW existing, PlanFile(file, node, existing)
          PROVE  run'.at \in {"look", "done"}
      BY <1>1, <3>1, <3>2 DEF PlanFile, Continue, RunFields
    <3>3. \A node : Continue([run EXCEPT !.at = "readTarget", !.looked = node]) => run'.at = "readTarget"
      BY <1>1 DEF Continue, RunFields
    <3>4. \A text : Continue([run EXCEPT !.at = "lookAgain", !.text = text]) => run'.at = "lookAgain"
      BY <1>1 DEF Continue, RunFields
    <3>5. CASE LookAtTarget
      BY <3>1, <3>2, <3>3, <3>5, Zenon DEF LookAtTarget
    <3>6. CASE ReadTarget
      BY <3>1, <3>4, <3>6, Zenon DEF ReadTarget
    <3>7. CASE LookAgain
      BY <3>1, <3>2, <3>7, Zenon DEF LookAgain
    <3>8. QED
      BY <1>6, <3>5, <3>6, <3>7
  <2>4. QED
    BY <2>1, <2>2, <2>3 DEF Writing, AtParent, Staging
<1>7. CASE Planned \/ Decide \/ ApplyPlan \/ GateLook
  BY <1>1, <1>2, <1>7 DEF Planned, Decide, ApplyPlan, GateLook, At, Goto, Continue, Rest, RunFields,
                          AtParent, Writing, Staging
<1>8. CASE GateRead \/ GateAgain
  BY <1>1, <1>2, <1>8 DEF GateRead, GateAgain, At, Goto, Failed, Continue, Rest, RunFields,
                          AtParent, Writing, Staging
<1>9. CASE Stage \/ WriteStaged \/ WriteFails \/ PublishFails
  BY <1>1, <1>2, <1>9 DEF Stage, WriteStaged, WriteFails, PublishFails, Abandon, At, Goto, Continue, Rest, RunFields,
                          AtParent, Writing, Staging
<1>10. CASE Discard \/ Report \/ ReportFails \/ Crash
  BY <1>1, <1>2, <1>10 DEF Discard, Report, ReportFails, Crash, Failed, At, Goto, Continue, Rest, RunFields,
                           AtParent, Writing, Staging
<1>11. QED
  BY <1>2, <1>3, <1>4, <1>5, <1>6, <1>7, <1>8, <1>9, <1>10, Zenon DEF CommandStep

(* The requested path led to the root that was planned.                    *)
LEMMA AnchorReaches ==
  ASSUME CommandInvariant, ReachInv, [Next]_vars, AnchorRoot, ~Fail PROVE ReachInv'
<1>1. run.at = "anchor" /\ root = run.anchor /\ Goto("preflight")
  BY Zenon DEF AnchorRoot, At
<1>2. run'.at = "preflight" /\ run'.anchor = run.anchor /\ published' = published /\ published = {}
  BY <1>1 DEF Goto, Continue, CommandInvariant, RunFields, ResultInv
<1>3. root \in seen'.roots
  <2>1. ~UNCHANGED vars /\ run.at \in Applying
    BY <1>1, <1>2 DEF vars, Applying, Writing
  <2>2. QED
    BY <2>1, SeenGrows
<1>4. QED
  BY <1>1, <1>2, <1>3 DEF ReachInv, AtParent, Staging

(* All names were followed.                                                *)
LEMMA ParentsReached ==
  ASSUME CommandInvariant, FilesInv, ReachInv, [Next]_vars, ParentsOpen PROVE ReachInv'
<1> DEFINE front == Front(Change.path)
<1>1. run.at = "parents" /\ run.at \in Writing \ {"anchor"} /\ run.at \in Applying /\ run.todo = <<>>
  BY DEF ParentsOpen, At, Applying, Writing
<1>2. /\ run'.at = "stage" /\ run'.anchor = run.anchor /\ run'.parent = run.parent /\ run'.plan = run.plan
      /\ UNCHANGED <<platform, published>> /\ published = {}
  BY <1>1 DEF ParentsOpen, Goto, Continue, Rest, CommandInvariant, RunFields, ResultInv
<1>3. seen.roots \subseteq seen'.roots /\ seen.entries \cup Entries \subseteq seen'.entries
  <2>1. ~UNCHANGED vars
    BY <1>1, <1>2 DEF vars
  <2>2. QED
    BY <1>1, <2>1, SeenGrows
<1>4. platform = "unix" /\ Walked /\ run.anchor \in seen.roots
  BY <1>1 DEF ReachInv
<1>5. Change.root = run.anchor /\ front \in Seq(Names) /\ Len(front) \in Nat
  BY <1>1, ChangeIs
<1>6. Leads(run.anchor, front, run.parent, seen'.entries)
  <2>1. WalkedBy(run.anchor, run.parent, <<>>, front, seen.entries \cup Entries)
    BY <1>1, <1>4 DEF Walked
  <2> HIDE DEF front
  <2>2. Len(front) - Len(<<>>) = Len(front) /\ DOMAIN front = 1..Len(front)
    BY <1>5, EmptySeq
  <2>3. QED
    BY <1>3, <2>1, <2>2 DEF WalkedBy, Leads
<1>7. Reached(run.parent, Change)'
  <2>1. Change'.root = run.anchor /\ Front(Change'.path) = front /\ run'.parent = run.parent
    BY <1>2, <1>5 DEF Change
  <2> HIDE DEF front
  <2>2. QED
    BY <1>3, <1>4, <1>6, <2>1 DEF Reached, Leads
<1>8. QED
  BY <1>2, <1>3, <1>4, <1>7 DEF ReachInv, AtParent, Staging

LEMMA WalkedOn ==
  ASSUME NEW anchor, NEW parent, NEW todo, NEW front, NEW entries, NEW more,
         WalkedBy(anchor, parent, todo, front, entries), entries \subseteq more
  PROVE  WalkedBy(anchor, parent, todo, front, more)
BY DEF WalkedBy

(* What other programs do takes nothing from what was seen.                *)
LEMMA OthersKeepWay ==
  ASSUME ReachInv, [Next]_vars, UNCHANGED <<platform, run, published>> PROVE ReachInv'
<1>1. Change' = Change
  BY DEF Change
<1>2. seen.roots \subseteq seen'.roots /\ seen.entries \subseteq seen'.entries
  BY SeenGrows
<1>3. \A d, c : Reached(d, c) => Reached(d, c)'
  BY <1>2 DEF Reached, Leads
<1>4. ASSUME run.at = "parents" PROVE Walked'
  <2>1. run.at \in Applying
    BY <1>4 DEF Applying, Writing
  <2>2. seen.entries \cup Entries \subseteq seen'.entries \cup Entries'
    <3>1. CASE UNCHANGED vars
      BY <3>1 DEF vars, Entries
    <3>2. CASE ~UNCHANGED vars
      BY <1>2, <2>1, <3>2, SeenGrows
    <3>3. QED
      BY <3>1, <3>2
  <2>3. WalkedBy(run.anchor, run.parent, run.todo, Front(Change.path), seen'.entries \cup Entries')
    BY <1>4, <2>2, WalkedOn DEF ReachInv, Walked
  <2>4. QED
    BY <1>1, <2>3 DEF Walked, WalkedBy
<1>5. QED
  BY <1>1, <1>2, <1>3, <1>4 DEF ReachInv

(* The entry that is created lies where the way led.                       *)
LEMMA PublishReaches ==
  ASSUME CommandInvariant, ReachInv, [Next]_vars, Publish PROVE ReachInv'
<1>1. run.at = "publish" /\ run.at \in AtParent
  BY DEF Publish, At, AtParent, Staging
<1>2. run'.at = "report" /\ run'.parent = run.parent /\ run'.plan = run.plan
  BY DEF Publish, CommandInvariant, RunFields
<1>3. Reached(run.parent, Change)
  BY <1>1 DEF ReachInv
<1>4. seen.roots \subseteq seen'.roots /\ seen.entries \subseteq seen'.entries
  BY SeenGrows
<1>5. Reached(run.parent, Change)'
  BY <1>2, <1>3, <1>4 DEF Reached, Leads, Change
<1>6. QED
  BY <1>2, <1>5 DEF ReachInv, AtParent, Staging, Writing

LEMMA ReachStepKeeps ==
  ASSUME CommandInvariant, FilesInv, HeldInv, ReachInv, [Next]_vars PROVE ReachInv'
<1>1. CASE Edit \/ Replace \/ Unlink \/ MoveRoot \/ UNCHANGED vars
  <2>1. UNCHANGED <<platform, run, published>>
    BY <1>1 DEF Edit, Replace, Unlink, MoveRoot, Meddles, vars
  <2>2. QED
    BY <2>1, OthersKeepWay
<1>2. CASE CommandStep \/ Crash
  <2>1. CASE Fail \/ ~(AnchorRoot \/ Preflight \/ OpenParent \/ ParentsOpen \/ Publish)
    <3>1. seen.roots \subseteq seen'.roots /\ seen.entries \subseteq seen'.entries
      BY SeenGrows
    <3>2. QED
      BY <1>2, <2>1, <3>1, WayIsKept, ReachStays
  <2>2. CASE ~Fail /\ (AnchorRoot \/ Preflight \/ OpenParent \/ ParentsOpen \/ Publish)
    BY <2>2, AnchorReaches, PreflightReaches, OpenParentReaches, ParentsReached, PublishReaches
  <2>3. QED
    BY <2>1, <2>2
<1>3. QED
  BY <1>1, <1>2 DEF Next

(* The files of the plan lie below the root that was planned in, and what  *)
(* is published lies where their names led.                                *)
WayInvariant == FilesInv /\ HeldInv /\ ReachInv

(* They do, whatever other programs do meanwhile (plan_files and           *)
(* apply_plan in workspace.rs).                                            *)
THEOREM WayInvariantHolds == Spec => []WayInvariant
<1>1. Init => WayInvariant
  <2>1. Init => HeldInv /\ ReachInv
    BY DEF Init, HeldInv, ReachInv, Planning, Applying, Gating, Writing, Staging, AtParent
  <2>2. QED
    BY <2>1, InitialFiles DEF WayInvariant
<1>2. CommandInvariant /\ SnapshotInvariant /\ WayInvariant /\ [Next]_vars => WayInvariant'
  BY FilesStepKeeps, HeldStepKeeps, ReachStepKeeps DEF WayInvariant
<1>3. QED
  BY <1>1, <1>2, CommandInvariantHolds, SnapshotInvariantHolds, PTL DEF Spec

-----------------------------------------------------------------------------
(* What the invariants say together.                                       *)

(* What a command publishes is the one new file that was planned, in a     *)
(* directory to which the names of its path led while the plan was applied *)
(* and it was let through by the version gate.                             *)
THEOREM PublishesAsPlanned == Spec => []PublishedAsPlanned
<1>1. CommandInvariant /\ WayInvariant => PublishedAsPlanned
  <2>1. SUFFICES ASSUME CommandInvariant, WayInvariant, NEW p \in published
                 PROVE  /\ Cardinality(published) = 1 /\ Change.expected = None
                        /\ p[2] = Leaf /\ Reached(p[1], Change)
                        /\ gated = run.indexBytes
                        /\ run.indexBytes # None =>
                             ~VersionRefused({[path |-> <<IndexName>>, content |-> run.indexBytes]})
    BY Zenon DEF PublishedAsPlanned
  <2>2. /\ published = {<<run.parent, Leaf, run.staged>>} /\ Change.expected = None /\ GateHeld
    BY <2>1 DEF CommandInvariant, ResultInv
  <2>3. Cardinality(published) = 1
    BY <2>2, FS_Singleton
  <2>4. p[1] = run.parent /\ p[2] = Leaf
    BY <2>1, <2>2
  <2>5. Reached(p[1], Change)
    BY <2>1, <2>4 DEF WayInvariant, ReachInv
  <2>6. QED
    BY <2>2, <2>3, <2>4, <2>5, Zenon DEF GateHeld
<1>2. QED
  BY <1>1, CommandInvariantHolds, WayInvariantHolds, PTL

(* The exit code and the report agree with what was published, however the *)
(* command ends: an error without a report of success, a report of success *)
(* only of files that lie where the plan says.                             *)
THEOREM ExitIsTruthful == Spec => []ExitTruthful
<1>1. ASSUME CommandInvariant, WayInvariant, run.at = "done", run.exit # 2
      PROVE  /\ run.output = "whole"
             /\ run.applied <=> published # {}
             /\ run.applied =>
                  /\ command.flag # "check"
                  /\ \A i \in DOMAIN run.plan : \E p \in published :
                       p[2] = Last(run.plan[i].path) /\ Reached(p[1], run.plan[i])
             /\ command.flag = "apply" /\ run.plan # <<>> => run.applied
             /\ command.flag = "check" => (run.exit = 1 <=> NeedsAttention)
             /\ run.exit = 1 => command.flag = "check" \/ command.name = "validate"
  <2>1. run.output = "whole" /\ run.exit = ExitCode /\ Announced
    BY <1>1 DEF CommandInvariant, ResultInv
  <2>2. /\ run.applied \in BOOLEAN /\ (published # {} => run.applied) /\ (run.applied => published # {})
        /\ run.applied => command.flag # "check"
        /\ command.flag = "apply" /\ run.plan # <<>> => run.applied
    BY <1>1, <2>1 DEF CommandInvariant, ResultInv, Announced
  <2>3. ASSUME run.applied, NEW i \in DOMAIN run.plan
        PROVE  \E p \in published : p[2] = Last(run.plan[i].path) /\ Reached(p[1], run.plan[i])
    <3>1. published = {<<run.parent, Leaf, run.staged>>} /\ DOMAIN run.plan = {1}
      BY <1>1, <2>2, <2>3 DEF CommandInvariant, ResultInv
    <3>2. run.plan[i] = Change /\ Leaf = Last(Change.path)
      BY <2>3, <3>1 DEF Change, Leaf
    <3>3. Reached(run.parent, Change)
      BY <1>1, <3>1 DEF WayInvariant, ReachInv
    <3>4. <<run.parent, Leaf, run.staged>> \in published
      BY <3>1
    <3>5. QED
      BY <3>2, <3>3, <3>4
  <2>4. command.flag = "check" => (run.exit = 1 <=> NeedsAttention)
    <3>1. command.flag = "check" => command.name # "validate"
      BY <1>1, CommandsAssumption DEF CommandInvariant
    <3>2. QED
      BY <2>1, <3>1 DEF ExitCode
  <2>5. run.exit = 1 => command.flag = "check" \/ command.name = "validate"
    BY <2>1 DEF ExitCode
  <2>6. QED
    BY <2>1, <2>2, <2>3, <2>4, <2>5
<1>2. CommandInvariant /\ WayInvariant => ExitTruthful
  <2>1. CommandInvariant /\ run.at = "done" /\ run.exit = 2 =>
          run.output # "whole" /\ (published # {} => run.output = "cut")
    BY DEF CommandInvariant, ResultInv
  <2>2. QED
    BY <1>1, <2>1, Zenon DEF ExitTruthful, At
<1>3. QED
  BY <1>2, CommandInvariantHolds, WayInvariantHolds, PTL

(* Whatever others do, no command replaces or removes what it did not      *)
(* create, and what it publishes is whole from the first moment on.        *)
THEOREM FilesAreSafe == Spec => FilesSafe
<1>1. ASSUME CommandInvariant, [Next]_vars
      PROVE  [CommandStep =>
                /\ \A d \in Dirs, n \in ToSet(Order) :
                     tree[d][n] \notin {Absent, <<"free">>, FileNode(run.staged)} => tree'[d][n] = tree[d][n]
                /\ \A f \in Files \ {run.staged} : bytes[f] # None => bytes'[f] = bytes[f]
                /\ command.flag = "check" => UNCHANGED <<tree, bytes>>]_vars
  <2>1. ASSUME CommandStep, NEW d \in Dirs, NEW n \in ToSet(Order),
               tree[d][n] \notin {Absent, <<"free">>, FileNode(run.staged)}
        PROVE  tree'[d][n] = tree[d][n]
    BY <1>1, <2>1, EntriesKept DEF Names
  <2>2. ASSUME CommandStep, NEW f \in Files \ {run.staged}, bytes[f] # None PROVE bytes'[f] = bytes[f]
    BY <1>1, <2>2, BytesKept
  <2>3. ASSUME CommandStep, command.flag = "check" PROVE UNCHANGED <<tree, bytes>>
    BY <1>1, <2>3, CheckWritesNothing
  <2>4. QED
    BY <2>1, <2>2, <2>3, Zenon
<1>2. ASSUME CommandInvariant, WayInvariant, [Next]_vars
      PROVE  [\A p \in published' \ published :
                /\ bytes[p[3]] = Change.content
                /\ platform = "windows" => Leads(root, Front(Change.path), p[1], Entries)]_vars
  <2>1. ASSUME Publish, NEW p \in published' \ published
        PROVE  /\ bytes[p[3]] = Change.content
               /\ platform = "windows" => Leads(root, Front(Change.path), p[1], Entries)
    <3>1. run.at = "publish" /\ published' = published \cup {<<run.parent, Leaf, run.staged>>}
      BY <2>1 DEF Publish, At
    <3>2. p[1] = run.parent /\ p[3] = run.staged
      BY <2>1, <3>1
    <3>3. bytes[run.staged] = Change.content
      BY <1>2, <3>1 DEF CommandInvariant, StagedInv
    <3>4. ASSUME platform = "windows" PROVE Leads(root, Front(Change.path), run.parent, Entries)
      <4> DEFINE front == Front(Change.path)
      <4>1. run.at \in Writing /\ run.at \in Applying /\ run.at \in AtParent
        BY <3>1 DEF Applying, Writing, Staging, AtParent
      <4>2. /\ 1 \in DOMAIN run.plan /\ Change.expected = None /\ Change.root = run.anchor
            /\ front \in Seq(Names) /\ Len(front) \in Nat
        BY <1>2, <4>1, ChangeIs DEF WayInvariant
      <4>3. root = Change.root /\ HeldWay(Change) /\ DirNode(run.parent) = Change.parent
        BY <1>2, <3>4, <4>1, <4>2 DEF WayInvariant, HeldInv, ReachInv, Change
      <4>4. PICK way \in [1 .. Len(front) + 1 -> Dirs] :
              /\ way[1] = root /\ DirNode(way[Len(front) + 1]) = Change.parent
              /\ \A i \in 1 .. Len(front) : <<way[i], front[i], way[i + 1]>> \in Entries
        BY <4>3, Zenon DEF HeldWay
      <4>5. way[Len(front) + 1] = run.parent
        BY <4>3, <4>4 DEF DirNode
      <4>6. DOMAIN front = 1..Len(front)
        BY <4>2
      <4> HIDE DEF front
      <4>7. Leads(root, front, run.parent, Entries)
        BY <4>4, <4>5, <4>6 DEF Leads
      <4>8. QED
        BY <4>7 DEF front
    <3>5. QED
      BY <3>2, <3>3, <3>4
  <2>2. CASE ~Publish
    <3>1. published' = published
      BY <1>2, <2>2 DEF Next, vars, Crash, Edit, Replace, Unlink, MoveRoot, Meddles, CommandStep, Begin,
         ReadRootIndex, OpenBundle, ReadEntry, BundleRead, Gate, CaptureRoot,
         RenderFiles, LookAtTarget, ReadTarget, LookAgain, Planned, Decide, ApplyPlan, GateLook,
         GateRead, GateAgain, AnchorRoot, Preflight, OpenParent, ParentsOpen, Stage, WriteStaged, WriteFails,
         PublishFails, Discard, Report, ReportFails, PlanFile, Abandon, Fail, Goto, Continue
    <3>2. QED
      BY <3>1
  <2>3. QED
    BY <2>1, <2>2
<1>3. QED
  BY CommandInvariantHolds, WayInvariantHolds, <1>1, <1>2, PTL DEF Spec, FilesSafe, NothingLost, PublishedWhole

===============================================================================
