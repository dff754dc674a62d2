-------------------------- MODULE WindowsPublication --------------------------
(***************************************************************************)
(* How the okf command publishes a bundle into a directory that does not   *)
(* exist on Windows (crates/okf-cli/src/workspace.rs,                      *)
(* apply_missing_root_plan_windows).  Unlike Unix (RootPublication) there  *)
(* is no coordination file: all commands below one ancestor stage in one   *)
(* directory of a fixed name, handles deny others to write or to remove    *)
(* what they hold, and nothing is cleaned up after a failure.              *)
(*                                                                         *)
(* The ancestor itself is held since planning by a handle that denies its  *)
(* removal, so its path leads to it throughout.                            *)
(***************************************************************************)
EXTENDS Integers, FiniteSets

CONSTANTS
  Publishers,    \* runs of the command
  Names,         \* names in the ancestor
  Requested,     \* the missing name that each publisher requests
  Staging,       \* windows_root_staging_name, 00000000.000
  Other,         \* whoever is not a publisher
  Leaves,        \* files in each plan
  MaxMeddling    \* bound: what other programs do

VARIABLES
  entries,    \* what each name of the ancestor holds
  leaves,     \* the files in the staged tree of each publisher
  written,    \* how many of them the publisher has created
  stage,      \* where each publisher is
  report,     \* what its command reported in the end
  published,  \* ghost: the publishers whose rename succeeded
  late,       \* ghost: files changed once their handles were released
  meddling    \* counts what MaxMeddling bounds

vars == <<entries, leaves, written, stage, report, published, late, meddling>>

AllNames == Names \cup {Staging}

ASSUME LeavesAssumption == Leaves \in Nat
ASSUME RequestedAssumption == Requested \in [Publishers -> AllNames]

Nothing == [kind |-> "none", of |-> Other]
Foreign == [kind |-> "foreign", of |-> Other]
Tree(p) == [kind |-> "tree", of |-> p]

Init ==
  /\ entries = [n \in AllNames |-> Nothing]
  /\ leaves = [p \in Publishers |-> [k \in 1..Leaves |-> "absent"]]
  /\ written = [p \in Publishers |-> 0]
  /\ stage = [p \in Publishers |-> "planned"]
  /\ report = [p \in Publishers |-> "none"]
  /\ published = {} /\ late = {}
  /\ meddling = 0

Advance(p, from, to) == stage[p] = from /\ stage' = [stage EXCEPT ![p] = to]

Quiet == UNCHANGED <<leaves, written, report, published, late, meddling>>

(* Mutant of Distinct: a root may be requested by the name of the staging. *)
AnyName(p) == TRUE

(* windows_reservation_name_matches_requested, up to case, and to dots and *)
(* blanks at the end.                                                      *)
Distinct(p) == Requested[p] # Staging

(* Both names are free when the command begins to write.                   *)
Preflight(p) ==
  /\ Advance(p, "planned", "preflighted")
  /\ Distinct(p)
  /\ entries[Requested[p]] = Nothing /\ entries[Staging] = Nothing
  /\ UNCHANGED entries /\ Quiet

(* Mutant of Reserve: FILE_OPEN_IF, what exists is opened.                 *)
ReserveOrOpen(p) ==
  /\ Advance(p, "preflighted", "staging")
  /\ entries' = [entries EXCEPT ![Staging] = Tree(p)]
  /\ Quiet

(* NtCreateFile with FILE_CREATE makes the directory and returns a handle  *)
(* that denies its removal: its identity is still that of its name after.  *)
Reserve(p) ==
  /\ Advance(p, "preflighted", "staging")
  /\ entries[Staging] = Nothing
  /\ entries' = [entries EXCEPT ![Staging] = Tree(p)]
  /\ Quiet

(* create_new, which fails where another program was first; the handle is  *)
(* kept and denies writes and removal.                                     *)
WriteLeaf(p) ==
  /\ stage[p] = "staging" /\ written[p] < Leaves
  /\ leaves[p][written[p] + 1] = "absent"
  /\ leaves' = [leaves EXCEPT ![p][written[p] + 1] = "planned"]
  /\ written' = [written EXCEPT ![p] = @ + 1]
  /\ UNCHANGED <<entries, stage, report, published, late, meddling>>

(* verify_windows_staged_leaf_bindings, and the staging directory again.   *)
VerifyStaging(p) ==
  /\ Advance(p, "staging", "verified")
  /\ written[p] = Leaves
  /\ \A k \in 1..Leaves : leaves[p][k] = "planned"
  /\ entries[Staging] = Tree(p)
  /\ UNCHANGED entries /\ Quiet

(* A directory can be renamed only when nothing below it is open.          *)
ReleaseHandles(p) ==
  /\ Advance(p, "verified", "released")
  /\ UNCHANGED entries /\ Quiet

(* rename_windows_handle: by the handle, replacing nothing.                *)
PublishRoot(p) ==
  /\ Advance(p, "released", "done")
  /\ entries[Requested[p]] = Nothing
  /\ entries' = [entries EXCEPT ![Staging] = Nothing, ![Requested[p]] = Tree(p)]
  /\ report' = [report EXCEPT ![p] = "applied"]
  /\ published' = published \cup {p}
  /\ UNCHANGED <<leaves, written, late, meddling>>

(* Any check or call before the rename fails, or the rename itself: the    *)
(* staging directory stays where it is.                                    *)
Fail(p) ==
  /\ stage[p] \notin {"done", "crashed"}
  /\ stage' = [stage EXCEPT ![p] = "done"]
  /\ report' = [report EXCEPT ![p] = "failed"]
  /\ UNCHANGED <<entries, leaves, written, published, late, meddling>>

Crash(p) ==
  /\ stage[p] \notin {"planned", "done", "crashed"}
  /\ stage' = [stage EXCEPT ![p] = "crashed"]
  /\ UNCHANGED entries /\ Quiet

PublisherStep(p) ==
  \/ Preflight(p) \/ Reserve(p) \/ WriteLeaf(p) \/ VerifyStaging(p)
  \/ ReleaseHandles(p) \/ PublishRoot(p) \/ Fail(p) \/ Crash(p)

-------------------------------------------------------------------------------
(* Other programs, which the handles of a publisher at work keep away.     *)

HoldsTree(p) == stage[p] \in {"staging", "verified", "released"}

(* Mutant of HoldsLeaf: the files are shared for writing.                  *)
SharesLeaf(p, k) == FALSE

HoldsLeaf(p, k) == stage[p] \in {"staging", "verified"} /\ k <= written[p]

Meddle == meddling < MaxMeddling /\ meddling' = meddling + 1

Create(n) ==
  /\ Meddle
  /\ entries[n] = Nothing
  /\ entries' = [entries EXCEPT ![n] = Foreign]
  /\ UNCHANGED <<leaves, written, stage, report, published, late>>

Remove(n) ==
  /\ Meddle
  /\ entries[n] # Nothing
  /\ \A p \in Publishers : ~(HoldsTree(p) /\ entries[n] = Tree(p))
  /\ entries' = [entries EXCEPT ![n] = Nothing]
  /\ UNCHANGED <<leaves, written, stage, report, published, late>>

(* A file is changed, or is there before the publisher creates its own.    *)
ChangeLeaf(p, k) ==
  /\ Meddle
  /\ stage[p] \in {"staging", "verified", "released"}
  /\ ~HoldsLeaf(p, k)
  /\ leaves' = [leaves EXCEPT ![p][k] = "changed"]
  /\ late' = IF stage[p] = "released" THEN late \cup {<<p, k>>} ELSE late
  /\ UNCHANGED <<entries, written, stage, report, published>>

Next ==
  \/ \E p \in Publishers : PublisherStep(p)
  \/ \E n \in AllNames : Create(n) \/ Remove(n)
  \/ \E p \in Publishers, k \in 1..Leaves : ChangeLeaf(p, k)

Spec == Init /\ [][Next]_vars

-------------------------------------------------------------------------------
(* Properties *)

(* FR-104 on Windows: a requested name never shows a part of a plan, and   *)
(* what it shows was changed at most in the window between the release of  *)
(* the handles and the rename, which the documentation excludes.           *)
RequestedWhole ==
  \A p \in Publishers :
    entries[Requested[p]] = Tree(p) =>
      /\ p \in published
      /\ \A k \in 1..Leaves : leaves[p][k] = "planned" \/ <<p, k>> \in late

(* A command replaces nothing, removes nothing but its own staging, and    *)
(* whatever remains of another command keeps it from staging at all.       *)
ResidueRespected ==
  \A p \in Publishers, n \in AllNames :
    PublisherStep(p) /\ entries'[n] # entries[n] =>
      \/ entries[n] = Nothing
      \/ entries[n] = Tree(p) /\ n = Staging /\ p \in published'

(* Both: a requested name shows a whole plan or nothing of it, and what    *)
(* others left is respected.                                               *)
PublicationSafe == [][RequestedWhole' /\ ResidueRespected]_vars

(* The promise of every platform.  The staging name is no root, because a  *)
(* command that requests it is refused, and a file that was changed in the *)
(* excluded window counts as planned.                                      *)
Roots == AllNames \ {Staging}

Whole(p) == \A k \in 1..Leaves : leaves[p][k] = "planned" \/ <<p, k>> \in late

Shown(n) ==
  IF entries[n] = Nothing THEN <<"free">>
  ELSE IF \E p \in Publishers : entries[n] = Tree(p)
    THEN <<IF Whole(entries[n].of) THEN "root" ELSE "part", entries[n].of>>
  ELSE <<"taken">>

Answered(p) ==
  CASE report[p] = "none" -> "none"
    [] report[p] = "applied" -> "published"
    [] report[p] = "failed" -> "nothing"

Promise == INSTANCE NoReplacePublication
             WITH Names <- Roots, root <- [n \in Roots |-> Shown(n)], led <- TRUE,
                  answer <- [p \in Publishers |-> Answered(p)]

(* FR-104 on Windows: the root appears in one step, whole, where nothing   *)
(* was, and a command that says it failed has published nothing and will   *)
(* not.                                                                    *)
ImplementsNoReplace == Promise!AbstractSpec
===============================================================================
