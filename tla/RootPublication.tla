---------------------------- MODULE RootPublication ----------------------------
(***************************************************************************)
(* How the okf command publishes a bundle into a directory that does not   *)
(* exist (crates/okf-cli/src/workspace.rs, apply_missing_root_plan_anchored *)
(* on Linux and macOS): several processes below the same existing ancestor *)
(* reserve one coordination entry, build a private staging tree and rename *)
(* it to the requested name, while they may crash at any moment and other  *)
(* programs create, remove and change what they find in the ancestor.      *)
(*                                                                         *)
(* The ancestor is a function from names to the object found there.  The   *)
(* identity of an object is its kind and the process that created it: each *)
(* process is one run of the command, so it creates at most one of a kind. *)
(* The random staging name of a process is the process itself.             *)
(***************************************************************************)
EXTENDS Integers, FiniteSets

CONSTANTS
  Publishers,    \* runs of the command, and the names of their staging trees
  Names,         \* names that may be requested as first missing component
  Requested,     \* the name that each publisher requests
  Coordination,  \* anchor_coordination_name: one name for the whole ancestor
  Other,         \* whoever is not a publisher
  Leaves,        \* files in each plan
  MaxMeddling    \* bound: what other programs do in the ancestor

ASSUME NamesAssumption ==
  /\ Requested \in [Publishers -> Names]
  /\ Coordination \notin Names \cup Publishers
  /\ Names \cap Publishers = {}
  /\ Other \notin Publishers
ASSUME BoundsAssumption == Leaves \in Nat \ {0} /\ MaxMeddling \in Nat

VARIABLES
  entries,    \* what each name of the retained ancestor holds
  anchored,   \* the planned pathname still leads to that ancestor
  leaves,     \* the files in the staged tree of each publisher
  written,    \* how many of them the publisher has created
  stage,      \* where each publisher is
  error,      \* the primary error of each publisher
  report,     \* what its command reported in the end
  published,  \* ghost: the publishers whose rename succeeded
  cleared,    \* ghost: another program removed a coordination entry
  meddling    \* counts what MaxMeddling bounds

vars == <<entries, anchored, leaves, written, stage, error, report, published,
          cleared, meddling>>

AllNames == Names \cup Publishers \cup {Coordination}

Nothing == [kind |-> "none", of |-> Other]
Foreign == [kind |-> "foreign", of |-> Other]
Reservation(p) == [kind |-> "reservation", of |-> p]
Tree(p) == [kind |-> "tree", of |-> p]

Object == [kind : {"none", "foreign", "reservation", "tree"}, of : Publishers \cup {Other}]

Stages == {"planned", "reserved", "named", "preflighted", "staging", "verified",
           "renamed", "inspecting", "cleaning", "done", "crashed"}

(* Every variable holds a value the processes can bring about.             *)
TypeOK ==
  /\ entries \in [AllNames -> Object]
  /\ anchored \in BOOLEAN /\ cleared \in BOOLEAN
  /\ leaves \in [Publishers -> [1..Leaves -> {"absent", "planned", "changed"}]]
  /\ written \in [Publishers -> 0..Leaves]
  /\ stage \in [Publishers -> Stages]
  /\ error \in [Publishers -> {"none", "unpublished", "unverified"}]
  /\ report \in [Publishers -> {"none", "applied", "failed", "failedResidue", "publishedResidue"}]
  /\ \A p \in Publishers : report[p] # "none" <=> stage[p] = "done"
  /\ published \subseteq Publishers
  /\ meddling \in 0..MaxMeddling

Init ==
  /\ entries = [n \in AllNames |-> Nothing]
  /\ anchored = TRUE /\ cleared = FALSE
  /\ leaves = [p \in Publishers |-> [k \in 1..Leaves |-> "absent"]]
  /\ written = [p \in Publishers |-> 0]
  /\ stage = [p \in Publishers |-> "planned"]
  /\ error = [p \in Publishers |-> "none"]
  /\ report = [p \in Publishers |-> "none"]
  /\ published = {}
  /\ meddling = 0

-------------------------------------------------------------------------------
(* Where a publisher goes next, and what it reports *)

Advance(p, from, to) ==
  /\ stage[p] = from
  /\ stage' = [stage EXCEPT ![p] = to]

Untouched == UNCHANGED <<anchored, cleared, meddling>>

(* An early return with an error, whatever the operating system said.      *)
Returns(p, to, what) ==
  /\ stage' = [stage EXCEPT ![p] = to]
  /\ error' = [error EXCEPT ![p] = what]
  /\ UNCHANGED <<written, report, published>>
  /\ Untouched

Reports(p, what) ==
  /\ stage' = [stage EXCEPT ![p] = "done"]
  /\ report' = [report EXCEPT ![p] = what]
  /\ UNCHANGED <<leaves, written, error, published>>
  /\ Untouched

Quiet == UNCHANGED <<leaves, written, error, report, published>>

Put(name, object) == entries' = [entries EXCEPT ![name] = object]

-------------------------------------------------------------------------------
(* Reservation *)

(* reserve_unix_missing_root_coordination: openat with CREATE and EXCL.    *)
Reserve(p) ==
  /\ Advance(p, "planned", "reserved")
  /\ entries[Coordination] = Nothing
  /\ Put(Coordination, Reservation(p))
  /\ Quiet /\ Untouched

(* Mutant of Refused: the command ends without a word.                     *)
RefusedQuietly(p) ==
  /\ stage[p] = "planned"
  /\ Returns(p, "done", "unpublished")
  /\ UNCHANGED <<entries, leaves>>

(* The plan is refused, or the entry exists already.                       *)
Refused(p) ==
  /\ Advance(p, "planned", "done")
  /\ error' = [error EXCEPT ![p] = "unpublished"]
  /\ report' = [report EXCEPT ![p] = "failed"]
  /\ UNCHANGED <<entries, leaves, written, published>>
  /\ Untouched

(* fresh_unix_root_staging_name.                                           *)
NameStaging(p) ==
  /\ Advance(p, "reserved", "named")
  /\ Quiet /\ Untouched
  /\ UNCHANGED entries

(* The operating system has no randomness: nothing was staged.             *)
NameFails(p) ==
  /\ stage[p] = "reserved"
  /\ Returns(p, "cleaning", "unpublished")
  /\ UNCHANGED <<entries, leaves>>

-------------------------------------------------------------------------------
(* Staging and publication *)

Preflight(p) ==
  /\ Advance(p, "named", "preflighted")
  /\ anchored
  /\ entries[Requested[p]] = Nothing
  /\ entries[p] = Nothing
  /\ Quiet /\ Untouched
  /\ UNCHANGED entries

(* mkdirat, openat and the identity of what was opened.                    *)
MakeStaging(p) ==
  /\ Advance(p, "preflighted", "staging")
  /\ entries[p] = Nothing
  /\ Put(p, Tree(p))
  /\ Quiet /\ Untouched

(* The directory was made and cannot be opened or filled.                  *)
MakeStagingFails(p) ==
  /\ stage[p] = "preflighted"
  /\ entries[p] = Nothing
  /\ Put(p, Tree(p))
  /\ Returns(p, "inspecting", "unpublished")
  /\ UNCHANGED leaves

CreateLeaf(p) ==
  /\ stage[p] = "staging"
  /\ written[p] < Leaves
  /\ leaves[p][written[p] + 1] = "absent"
  /\ leaves' = [leaves EXCEPT ![p][written[p] + 1] = "planned"]
  /\ UNCHANGED entries

(* apply_anchored_change, and its first verify_unix_staged_leaf.  The files
   are created below the open handle, wherever the tree has been moved to. *)
WriteLeaf(p) ==
  /\ CreateLeaf(p)
  /\ written' = [written EXCEPT ![p] = @ + 1]
  /\ UNCHANGED <<stage, error, report, published>>
  /\ Untouched

WriteLeafFails(p) == CreateLeaf(p) /\ Returns(p, "inspecting", "unpublished")

(* Mutant of Verified: the bytes of the leaves are not read again.         *)
VerifiedTree(p) == entries[p] = Tree(p) /\ anchored

Verified(p) ==
  /\ \A k \in 1..Leaves : leaves[p][k] = "planned"
  /\ entries[p] = Tree(p)
  /\ anchored

(* The hook has run: every leaf, the staging tree and the ancestor are
   compared with what was created and planned.                             *)
VerifyStaging(p) ==
  /\ Advance(p, "staging", "verified")
  /\ written[p] = Leaves
  /\ Verified(p)
  /\ Quiet /\ Untouched
  /\ UNCHANGED entries

(* renameat with NOREPLACE.                                                *)
PublishRoot(p) ==
  /\ Advance(p, "verified", "renamed")
  /\ entries[Requested[p]] = Nothing
  /\ entries' = [entries EXCEPT ![Requested[p]] = entries[p], ![p] = Nothing]
  /\ published' = published \cup {p}
  /\ UNCHANGED <<leaves, written, error, report>>
  /\ Untouched

(* A check before the rename, the rename itself or a call fails.           *)
StagingFails(p) ==
  /\ stage[p] \in {"named", "preflighted", "staging", "verified"}
  /\ Returns(p, "inspecting", "unpublished")
  /\ UNCHANGED <<entries, leaves>>

VerifyPublished(p) ==
  /\ Advance(p, "renamed", "inspecting")
  /\ entries[Requested[p]] = Tree(p)
  /\ Quiet /\ Untouched
  /\ UNCHANGED entries

(* The published root cannot be opened, or is another object already.      *)
VerifyPublishedFails(p) ==
  /\ stage[p] = "renamed"
  /\ Returns(p, "inspecting", "unverified")
  /\ UNCHANGED <<entries, leaves>>

-------------------------------------------------------------------------------
(* The end of the command: residue and the coordination entry *)

(* Mutant of Outcome: the primary error is lost on the way.                *)
AnyOutcome(p, fine) == IF fine THEN "applied" ELSE "failedResidue"

(* What is reported; fine says that nothing had to be left in place.       *)
Outcome(p, fine) ==
  IF error[p] = "none"
    THEN IF fine THEN "applied" ELSE "publishedResidue"
    ELSE IF fine THEN "failed" ELSE "failedResidue"

(* Mutant of StagingGone: the coordination entry is removed in any case.   *)
StagingIgnored(p) == TRUE

StagingGone(p) == entries[p] = Nothing

(* unix_anchored_entry_exists says that the staging name is free.          *)
InspectStaging(p) ==
  /\ Advance(p, "inspecting", "cleaning")
  /\ StagingGone(p)
  /\ Quiet /\ Untouched
  /\ UNCHANGED entries

(* Something is at the staging name: the coordination entry stays, so that
   no later command adds a second tree.                                    *)
LeaveInPlace(p) ==
  /\ stage[p] = "inspecting"
  /\ ~StagingGone(p)
  /\ Reports(p, IF error[p] = "none" THEN Outcome(p, FALSE) ELSE "failed")
  /\ UNCHANGED entries

InspectFails(p) ==
  /\ stage[p] = "inspecting"
  /\ Reports(p, Outcome(p, FALSE))
  /\ UNCHANGED entries

(* Mutant of OwnReservation: what is found is removed unseen.              *)
AnyReservation(p) == entries[Coordination] # Nothing

OwnReservation(p) == entries[Coordination] = Reservation(p)

(* remove_unix_coordination: compare the identity, then unlink.            *)
RemoveCoordination(p) ==
  /\ stage[p] = "cleaning"
  /\ OwnReservation(p)
  /\ Put(Coordination, Nothing)
  /\ Reports(p, Outcome(p, TRUE))

(* The entry is another one, or is gone, or cannot be removed.             *)
RemovalFails(p) ==
  /\ stage[p] = "cleaning"
  /\ Reports(p, Outcome(p, FALSE))
  /\ UNCHANGED entries

(* The process dies: no guard runs.                                        *)
Crash(p) ==
  /\ stage[p] \notin {"planned", "done", "crashed"}
  /\ stage' = [stage EXCEPT ![p] = "crashed"]
  /\ Quiet /\ Untouched
  /\ UNCHANGED entries

PublisherStep(p) ==
  \/ Reserve(p) \/ Refused(p)
  \/ NameStaging(p) \/ NameFails(p)
  \/ Preflight(p)
  \/ MakeStaging(p) \/ MakeStagingFails(p)
  \/ WriteLeaf(p) \/ WriteLeafFails(p)
  \/ VerifyStaging(p)
  \/ PublishRoot(p)
  \/ StagingFails(p)
  \/ VerifyPublished(p) \/ VerifyPublishedFails(p)
  \/ InspectStaging(p) \/ LeaveInPlace(p) \/ InspectFails(p)
  \/ RemoveCoordination(p) \/ RemovalFails(p)
  \/ Crash(p)

-------------------------------------------------------------------------------
(* Other programs.  The documentation excludes four windows from its
   guarantee: from mkdirat to openat of the staging directory, and from the
   last verification of the staged files, of the staging name or of the
   ancestor to the rename, nothing here changes them; and the comparison of
   the coordination entry and its unlink are one step.                     *)

Meddle == meddling < MaxMeddling /\ meddling' = meddling + 1

Unwatched(n) == n \in Publishers => stage[n] # "verified"

Create(n) ==
  /\ Meddle
  /\ entries[n] = Nothing
  /\ Put(n, Foreign)
  /\ UNCHANGED <<anchored, leaves, written, stage, error, report, published, cleared>>

Remove(n) ==
  /\ Meddle
  /\ entries[n] # Nothing
  /\ Unwatched(n)
  /\ Put(n, Nothing)
  /\ cleared' = (cleared \/ n = Coordination)
  /\ UNCHANGED <<anchored, leaves, written, stage, error, report, published>>

ChangeLeaf(p, k) ==
  /\ Meddle
  /\ stage[p] = "staging"
  /\ leaves' = [leaves EXCEPT ![p][k] = "changed"]
  /\ UNCHANGED <<entries, anchored, written, stage, error, report, published, cleared>>

(* The ancestor is renamed, or replaced by another directory, or put back. *)
MoveAnchor ==
  /\ Meddle
  /\ \A p \in Publishers : Unwatched(p)
  /\ anchored' = ~anchored
  /\ UNCHANGED <<entries, leaves, written, stage, error, report, published, cleared>>

Next ==
  \/ \E p \in Publishers : PublisherStep(p)
  \/ \E n \in AllNames : Create(n) \/ Remove(n)
  \/ \E p \in Publishers, k \in 1..Leaves : ChangeLeaf(p, k)
  \/ MoveAnchor

Spec == Init /\ [][Next]_vars

-------------------------------------------------------------------------------
(* Properties *)

(* A command never removes or replaces what it did not create: not the root
   of another program, nor the reservation or the staging tree of another
   command, whether that one is at work or has crashed.                    *)
OthersKept ==
  \A p \in Publishers, n \in AllNames :
    PublisherStep(p) /\ entries[n] # Nothing /\ entries'[n] # entries[n] =>
      entries[n].of = p

(* A staging tree that is left in the ancestor, by a command at work, a
   failed or a crashed one, is covered by the reservation of that command,
   unless another program removed a reservation: a retry fails closed and
   no second tree accumulates.                                             *)
StagingIsReserved ==
  ~cleared => \A p \in Publishers :
    entries[p] = Tree(p) => entries[Coordination] = Reservation(p)

(* A command that ends and leaves its reservation says so, or leaves it for
   what is still at its staging name.                                      *)
ResidueKnown ==
  \A p \in Publishers :
    stage[p] # "done" /\ stage'[p] = "done" /\ entries'[Coordination] = Reservation(p) =>
      \/ report'[p] \in {"failedResidue", "publishedResidue"}
      \/ entries'[p] # Nothing

(* Both: what a command cleans up is its own, and what it leaves is known. *)
ResidueHandled == [][OthersKept /\ ResidueKnown]_vars

(* What a command reports is what it did: it says that the root was
   published only when its rename succeeded, and that no target was
   published only when it did not; a full success leaves neither its staging
   tree nor its reservation.                                               *)
ReportsTrue ==
  \A p \in Publishers :
    /\ report[p] \in {"applied", "publishedResidue"} => p \in published
    /\ error[p] = "unpublished" => p \notin published
    /\ report[p] = "applied" => /\ entries[p] # Tree(p)
                                /\ entries[Coordination] # Reservation(p)

(* What is promised on every platform.  A root is whole when each of its   *)
(* files is as planned; once it is published, nobody is kept from changing *)
(* it, which is not part of the model.                                     *)
Whole(p) == \A k \in 1..Leaves : leaves[p][k] = "planned"

Shown(n) ==
  IF entries[n] = Nothing THEN <<"free">>
  ELSE IF \E p \in Publishers : entries[n] = Tree(p)
    THEN <<IF Whole(entries[n].of) THEN "root" ELSE "part", entries[n].of>>
  ELSE <<"taken">>

Answered(p) ==
  CASE report[p] = "none" -> "none"
    [] report[p] \in {"applied", "publishedResidue"} -> "published"
    [] report[p] \in {"failed", "failedResidue"} -> IF error[p] = "unverified" THEN "unverified" ELSE "nothing"

Promise == INSTANCE NoReplacePublication
             WITH root <- [n \in Names |-> Shown(n)], led <- anchored,
                  answer <- [p \in Publishers |-> Answered(p)]

(* FR-104: a requested name never shows a part of a plan.  What a command  *)
(* puts there is its whole root in one step, the name was free and is the  *)
(* planned one, and the answer neither claims nor denies wrongly.          *)
ImplementsNoReplace == Promise!AbstractSpec

(* The inductive invariant behind these properties.                        *)

Treeless == {"planned", "reserved", "named", "preflighted", "cleaning"}
BeforeRename == {"planned", "reserved", "named", "preflighted", "staging", "verified"}
Holding == {"reserved", "named", "preflighted", "staging", "verified", "renamed",
            "inspecting", "cleaning"}

(* Nothing of a publisher is found before it has been created or once it is
   gone, and a tree is at its staging name or where it was published.      *)
TreesInv == \A n \in AllNames, p \in Publishers :
              entries[n] = Tree(p) => n = p \/ n = Requested[p]

PlacementInv == \A p \in Publishers :
  /\ stage[p] \in Treeless => entries[p] # Tree(p)
  /\ stage[p] = "planned" => entries[Coordination] # Reservation(p)
  /\ p \in published => entries[p] # Tree(p)

(* While no other program removed a reservation, whoever holds it finds it. *)
HoldingInv ==
  ~cleared => \A p \in Publishers :
    stage[p] \in Holding => entries[Coordination] = Reservation(p)

(* What is at a requested name got there by its rename.                    *)
ShownInv == \A n \in Names, p \in Publishers : entries[n] = Tree(p) => p \in published

(* From the last check to the rename, what was checked stays as it is.     *)
VerifiedInv == \A p \in Publishers : stage[p] = "verified" => Verified(p)

(* What is known of the outcome at each stage.                             *)
OutcomeInv ==
  \A p \in Publishers :
    /\ stage[p] \in BeforeRename => error[p] = "none" /\ p \notin published
    /\ stage[p] = "renamed" => p \in published
    /\ stage[p] \in {"inspecting", "cleaning"} /\ error[p] = "none" => p \in published
    /\ error[p] = "unverified" => p \in published
    /\ report[p] \in {"failed", "failedResidue"} => error[p] # "none"

PublicationInvariant ==
  /\ TreesInv /\ PlacementInv /\ ShownInv /\ HoldingInv /\ StagingIsReserved
  /\ VerifiedInv /\ OutcomeInv /\ ReportsTrue

===============================================================================
