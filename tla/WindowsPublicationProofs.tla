----------------------- MODULE WindowsPublicationProofs -----------------------
(***************************************************************************)
(* PublicationSafe of WindowsPublication, for any number of commands,      *)
(* names and files and any amount of interference, and that it implements  *)
(* NoReplacePublication.                                                   *)
(***************************************************************************)
EXTENDS WindowsPublication, TLAPS

Trees == {Tree(p) : p \in Publishers}

Stages == {"planned", "preflighted", "staging", "verified", "released", "done", "crashed"}

TypeInv ==
  /\ entries \in [AllNames -> {Nothing, Foreign} \cup Trees]
  /\ leaves \in [Publishers -> [1..Leaves -> {"absent", "planned", "changed"}]]
  /\ written \in [Publishers -> 0..Leaves]
  /\ stage \in [Publishers -> Stages]
  /\ report \in [Publishers -> {"none", "applied", "failed"}]
  /\ published \subseteq Publishers

Finished(p, k) == leaves[p][k] = "planned" \/ <<p, k>> \in late

(* A publisher that stages has another name to publish than the staging.   *)
DistinctInv ==
  \A p \in Publishers :
    stage[p] = "preflighted" \/ HoldsTree(p) => Distinct(p)

(* A tree is at the staging name, or where its rename put it.              *)
PlaceInv ==
  \A p \in Publishers, n \in AllNames :
    entries[n] = Tree(p) =>
      \/ n = Staging /\ Distinct(p)
      \/ n = Requested[p] /\ p \in published

(* Whoever has published is done.                                          *)
StageInv ==
  \A p \in Publishers : p \in published => stage[p] = "done"

(* The handle of the staging directory keeps it at its name.               *)
HoldingInv ==
  \A p \in Publishers : HoldsTree(p) => entries[Staging] = Tree(p)

(* What was verified stays as it was while handles are held; afterwards it *)
(* changes in the excluded window only.                                    *)
LeavesInv ==
  \A p \in Publishers :
    /\ stage[p] = "verified" =>
         written[p] = Leaves /\ \A k \in 1..Leaves : leaves[p][k] = "planned"
    /\ stage[p] = "released" \/ p \in published =>
         \A k \in 1..Leaves : Finished(p, k)

(* A report is the end of a command, and denies what did not happen.       *)
ReportInv ==
  \A p \in Publishers :
    /\ report[p] # "none" <=> stage[p] = "done"
    /\ report[p] = "failed" => p \notin published

WindowsInvariant ==
  TypeInv /\ ReportInv /\ DistinctInv /\ PlaceInv /\ StageInv /\ HoldingInv /\ LeavesInv

(* One tree is told from another, and from what is no tree.                *)
LEMMA TreesDiffer ==
  ASSUME NEW p \in Publishers, NEW q \in Publishers
  PROVE  /\ Tree(p) # Nothing /\ Tree(p) # Foreign
         /\ Tree(p) = Tree(q) => p = q
BY DEF Tree, Nothing, Foreign

(* Initially nothing is there and nobody has begun.                        *)
LEMMA InitialWindows == Init => WindowsInvariant
BY LeavesAssumption, RequestedAssumption, TreesDiffer
   DEF Init, WindowsInvariant, TypeInv, ReportInv, Stages, DistinctInv, PlaceInv, StageInv, HoldingInv,
       LeavesInv, HoldsTree

(* A step of one publisher keeps the invariant.                            *)
LEMMA PublisherKeeps ==
  ASSUME WindowsInvariant, NEW p \in Publishers, PublisherStep(p)
  PROVE  WindowsInvariant'
<1> USE LeavesAssumption, RequestedAssumption, TreesDiffer
<1> USE DEF WindowsInvariant, TypeInv, ReportInv, Stages, DistinctInv, PlaceInv, StageInv, HoldingInv,
            LeavesInv, HoldsTree, Distinct, Finished, Advance, Quiet, Trees, AllNames
<1>1. CASE Preflight(p)
  BY <1>1 DEF Preflight
<1>2. CASE Reserve(p)
  BY <1>2 DEF Reserve
<1>3. CASE WriteLeaf(p)
  BY <1>3 DEF WriteLeaf
<1>4. CASE VerifyStaging(p)
  BY <1>4 DEF VerifyStaging
<1>5. CASE ReleaseHandles(p)
  BY <1>5 DEF ReleaseHandles
<1>6. CASE PublishRoot(p)
  BY <1>6 DEF PublishRoot
<1>7. CASE Fail(p)
  BY <1>7 DEF Fail
<1>8. CASE Crash(p)
  BY <1>8 DEF Crash
<1>9. QED
  BY <1>1, <1>2, <1>3, <1>4, <1>5, <1>6, <1>7, <1>8 DEF PublisherStep

(* Other programs keep it, whatever the handles let them do.               *)
LEMMA OthersKeep ==
  ASSUME WindowsInvariant,
         \/ \E n \in AllNames : Create(n) \/ Remove(n)
         \/ \E p \in Publishers, k \in 1..Leaves : ChangeLeaf(p, k)
  PROVE  WindowsInvariant'
<1> USE LeavesAssumption, RequestedAssumption, TreesDiffer
<1> USE DEF WindowsInvariant, TypeInv, ReportInv, Stages, DistinctInv, PlaceInv, StageInv, HoldingInv,
            LeavesInv, HoldsTree, Distinct, Finished, Meddle, Trees
<1>1. ASSUME NEW n \in AllNames, Create(n) PROVE WindowsInvariant'
  BY <1>1 DEF Create
<1>2. ASSUME NEW n \in AllNames, Remove(n) PROVE WindowsInvariant'
  BY <1>2 DEF Remove
<1>3. ASSUME NEW p \in Publishers, NEW k \in 1..Leaves, ChangeLeaf(p, k)
      PROVE  WindowsInvariant'
  BY <1>3 DEF ChangeLeaf, HoldsLeaf
<1>4. QED
  BY <1>1, <1>2, <1>3

(* The invariant holds in every reachable state.                           *)
THEOREM WindowsInvariantHolds == Spec => []WindowsInvariant
<1>1. WindowsInvariant /\ UNCHANGED vars => WindowsInvariant'
  BY DEF WindowsInvariant, TypeInv, ReportInv, DistinctInv, PlaceInv, StageInv, HoldingInv, LeavesInv,
         HoldsTree, Distinct, Finished, vars
<1>2. WindowsInvariant /\ [Next]_vars => WindowsInvariant'
  BY <1>1, PublisherKeeps, OthersKeep DEF Next
<1>3. QED
  BY InitialWindows, <1>2, PTL DEF Spec

(* A command on Windows publishes the whole staged tree or nothing, and    *)
(* neither replaces nor removes what is not its own.                       *)
THEOREM WindowsPublicationIsSafe == Spec => PublicationSafe
<1>1. WindowsInvariant => RequestedWhole
  BY RequestedAssumption DEF WindowsInvariant, PlaceInv, LeavesInv, RequestedWhole, Distinct, Finished
<1>2. ASSUME WindowsInvariant, NEW p \in Publishers, NEW n \in AllNames,
             PublisherStep(p), entries'[n] # entries[n]
      PROVE  \/ entries[n] = Nothing
             \/ entries[n] = Tree(p) /\ n = Staging /\ p \in published'
  <2>1. CASE Reserve(p)
    BY <1>2, <2>1 DEF Reserve, WindowsInvariant, TypeInv
  <2>2. CASE PublishRoot(p)
    BY <1>2, <2>2 DEF PublishRoot, Advance, WindowsInvariant, TypeInv, HoldingInv, HoldsTree
  <2>3. QED
    BY <1>2, <2>1, <2>2
       DEF PublisherStep, Preflight, WriteLeaf, VerifyStaging, ReleaseHandles, Fail, Crash
<1>3. WindowsInvariant /\ [Next]_vars => [ResidueRespected]_vars
  BY <1>2 DEF ResidueRespected
<1>4. QED
  BY WindowsInvariantHolds, <1>1, <1>3, PTL DEF Spec, PublicationSafe

-------------------------------------------------------------------------------
(* The promise of every platform.                                          *)

(* A name shows the same as long as its entry and the tree there stay.     *)
LEMMA ShownStays ==
  ASSUME WindowsInvariant, NEW n \in Roots, entries'[n] = entries[n],
         \A q \in published : leaves'[q] = leaves[q], late \subseteq late',
         \A q \in published, k \in 1..Leaves : <<q, k>> \in late' => <<q, k>> \in late
  PROVE  Shown(n)' = Shown(n)
<1>1. CASE \E q \in Publishers : entries[n] = Tree(q)
  <2>1. PICK q \in Publishers : entries[n] = Tree(q)
    BY <1>1
  <2>2. q \in published /\ entries[n].of = q /\ entries'[n] = Tree(q)
    BY <2>1 DEF WindowsInvariant, PlaceInv, Roots, Tree
  <2>3. Whole(q)' <=> Whole(q)
    BY <2>2 DEF Whole
  <2>4. QED
    BY <2>1, <2>2, <2>3 DEF Shown
<1>2. CASE ~ \E q \in Publishers : entries[n] = Tree(q)
  BY <1>2 DEF Shown
<1>3. QED
  BY <1>1, <1>2

(* What a step leaves at the names of roots, and what of the files.        *)
FilesStay ==
  /\ \A q \in published : leaves'[q] = leaves[q]
  /\ late \subseteq late'
  /\ \A q \in published, k \in 1..Leaves : <<q, k>> \in late' => <<q, k>> \in late

LEMMA AllShownStay ==
  ASSUME WindowsInvariant, FilesStay, \A n \in Roots : entries'[n] = entries[n]
  PROVE  [n \in Roots |-> Shown(n)]' = [n \in Roots |-> Shown(n)]
<1>1. \A n \in Roots : Shown(n)' = Shown(n)
  BY ShownStays DEF FilesStay
<1>2. QED
  BY <1>1

LEMMA OneShownChanges ==
  ASSUME WindowsInvariant, FilesStay, NEW m \in Roots,
         \A n \in Roots \ {m} : entries'[n] = entries[n]
  PROVE  [n \in Roots |-> Shown(n)]' = [[n \in Roots |-> Shown(n)] EXCEPT ![m] = Shown(m)']
<1>1. \A n \in Roots \ {m} : Shown(n)' = Shown(n)
  BY ShownStays DEF FilesStay
<1>2. QED
  BY <1>1

(* The rename is the publication and its answer.                           *)
LEMMA RenamePublishes ==
  ASSUME WindowsInvariant, WindowsInvariant', NEW p \in Publishers, PublishRoot(p)
  PROVE  Promise!Publish(p)
<1>1. /\ stage[p] = "released" /\ entries[Requested[p]] = Nothing
      /\ published' = published \cup {p} /\ UNCHANGED <<leaves, late>>
      /\ report' = [report EXCEPT ![p] = "applied"]
  BY DEF PublishRoot, Advance
<1>2. Requested[p] \in Roots /\ p \notin published /\ report[p] = "none" /\ Whole(p)
  BY <1>1, RequestedAssumption
     DEF Roots, WindowsInvariant, DistinctInv, HoldsTree, Distinct, StageInv, ReportInv, LeavesInv,
         Finished, Whole
<1>3. /\ entries'[Requested[p]] = Tree(p)
      /\ \A n \in Roots \ {Requested[p]} : entries'[n] = entries[n]
  BY <1>2 DEF PublishRoot, WindowsInvariant, TypeInv, Roots
<1>4. [n \in Roots |-> Shown(n)]' = [[n \in Roots |-> Shown(n)] EXCEPT ![Requested[p]] = Shown(Requested[p])']
  BY <1>1, <1>2, <1>3, OneShownChanges DEF FilesStay
<1>5. Shown(Requested[p])' = Promise!Root(p)
  <2>1. Whole(p)' /\ Tree(p).of = p
    BY <1>1, <1>2 DEF Whole, Tree
  <2>2. QED
    BY <1>3, <2>1, TreesDiffer DEF Shown, Promise!Root
<1>6. Shown(Requested[p]) = Promise!Free
  BY <1>1 DEF Shown, Promise!Free
<1>7. [q \in Publishers |-> Answered(q)]' = [[q \in Publishers |-> Answered(q)] EXCEPT ![p] = "published"]
  BY <1>1 DEF Answered, WindowsInvariant, TypeInv
<1>8. Answered(p) = "none"
  BY <1>2 DEF Answered
<1>9. QED
  BY <1>1, <1>2, <1>4, <1>5, <1>6, <1>7, <1>8 DEF Promise!Publish

(* A failure is an answer, and what is left at the staging name no root.   *)
LEMMA FailAnswers ==
  ASSUME WindowsInvariant, NEW p \in Publishers, Fail(p)
  PROVE  Promise!Answer(p)
<1>1. /\ stage[p] # "done" /\ report' = [report EXCEPT ![p] = "failed"]
      /\ UNCHANGED <<entries, leaves, published, late>>
  BY DEF Fail
<1>2. p \notin published /\ report[p] = "none"
  BY <1>1 DEF WindowsInvariant, StageInv, ReportInv
<1>3. [n \in Roots |-> Shown(n)]' = [n \in Roots |-> Shown(n)]
  BY <1>1, AllShownStay DEF FilesStay
<1>4. [q \in Publishers |-> Answered(q)]' = [[q \in Publishers |-> Answered(q)] EXCEPT ![p] = "nothing"]
  BY <1>1 DEF Answered, WindowsInvariant, TypeInv
<1>5. Answered(p) = "none"
  BY <1>2 DEF Answered
<1>6. QED
  BY <1>1, <1>2, <1>3, <1>4, <1>5 DEF Promise!Answer

(* The other steps of a command are not seen.                              *)
LEMMA StepStutters ==
  ASSUME WindowsInvariant, NEW p \in Publishers,
         \/ Preflight(p) \/ Reserve(p) \/ WriteLeaf(p) \/ VerifyStaging(p)
         \/ ReleaseHandles(p) \/ Crash(p)
  PROVE  UNCHANGED Promise!abstractVars
<1>1. UNCHANGED <<report, published, late>>
  BY DEF Preflight, Reserve, WriteLeaf, VerifyStaging, ReleaseHandles, Crash, Quiet
<1>2. \A q \in published : leaves'[q] = leaves[q]
  <2>1. CASE WriteLeaf(p)
    BY <2>1 DEF WriteLeaf, WindowsInvariant, TypeInv, StageInv
  <2>2. CASE ~WriteLeaf(p)
    BY <2>2 DEF Preflight, Reserve, VerifyStaging, ReleaseHandles, Crash, Quiet
  <2>3. QED
    BY <2>1, <2>2
<1>3. \A n \in Roots : entries'[n] = entries[n]
  BY DEF Preflight, Reserve, WriteLeaf, VerifyStaging, ReleaseHandles, Crash, WindowsInvariant,
         TypeInv, Roots
<1>4. [n \in Roots |-> Shown(n)]' = [n \in Roots |-> Shown(n)]
  BY <1>1, <1>2, <1>3, AllShownStay DEF FilesStay
<1>5. QED
  BY <1>1, <1>4 DEF Promise!abstractVars, Answered

(* Other programs do what the abstract specification lets them do.         *)
LEMMA OthersImplement ==
  ASSUME WindowsInvariant,
         \/ \E n \in AllNames : Create(n) \/ Remove(n)
         \/ \E p \in Publishers, k \in 1..Leaves : ChangeLeaf(p, k)
  PROVE  [Promise!AbstractNext]_(Promise!abstractVars)
<1>1. ASSUME UNCHANGED report
      PROVE  [q \in Publishers |-> Answered(q)]' = [q \in Publishers |-> Answered(q)]
  BY <1>1 DEF Answered
<1>2. ASSUME NEW n \in AllNames, Create(n) \/ Remove(n)
      PROVE  [Promise!AbstractNext]_(Promise!abstractVars)
  <2>1. /\ UNCHANGED <<leaves, report, published, late>>
        /\ \A m \in Roots \ {n} : entries'[m] = entries[m]
    BY <1>2 DEF Create, Remove, WindowsInvariant, TypeInv, Roots
  <2>2. FilesStay
    BY <2>1 DEF FilesStay
  <2>3. CASE n \notin Roots
    BY <1>1, <2>1, <2>2, <2>3, AllShownStay DEF Promise!abstractVars
  <2>4. CASE n \in Roots
    <3>1. [m \in Roots |-> Shown(m)]' = [[m \in Roots |-> Shown(m)] EXCEPT ![n] = Shown(n)']
      BY <2>1, <2>2, <2>4, OneShownChanges
    <3>2. CASE Create(n)
      <4>1. entries[n] = Nothing /\ entries'[n] = Foreign
        BY <3>2 DEF Create, WindowsInvariant, TypeInv
      <4>2. Shown(n) = Promise!Free
        BY <4>1 DEF Shown, Promise!Free
      <4>3. Foreign # Nothing /\ ~ \E q \in Publishers : Foreign = Tree(q)
        BY DEF Foreign, Nothing, Tree
      <4>4. Shown(n)' = Promise!Taken
        BY <4>1, <4>3 DEF Shown, Promise!Taken, Tree, Nothing
      <4>5. Promise!Take(n)
        BY <1>1, <2>1, <2>4, <3>1, <4>2, <4>4 DEF Promise!Take
      <4>6. QED
        BY <2>4, <4>5 DEF Promise!AbstractNext
    <3>3. CASE Remove(n)
      <4>1. entries[n] # Nothing /\ entries'[n] = Nothing
        BY <3>3 DEF Remove, WindowsInvariant, TypeInv
      <4>2. Shown(n) # Promise!Free
        BY <4>1 DEF Shown, Promise!Free
      <4>3. Shown(n)' = Promise!Free
        BY <4>1 DEF Shown, Promise!Free, Nothing
      <4>4. Promise!Vacate(n)
        BY <1>1, <2>1, <2>4, <3>1, <4>2, <4>3 DEF Promise!Vacate
      <4>5. QED
        BY <2>4, <4>4 DEF Promise!AbstractNext
    <3>4. QED
      BY <1>2, <3>2, <3>3
  <2>5. QED
    BY <2>3, <2>4
<1>3. ASSUME NEW p \in Publishers, NEW k \in 1..Leaves, ChangeLeaf(p, k)
      PROVE  UNCHANGED Promise!abstractVars
  <2>1. /\ UNCHANGED <<entries, report, published>>
        /\ \A q \in Publishers \ {p} : leaves'[q] = leaves[q]
        /\ p \notin published
        /\ late' = late \/ late' = late \cup {<<p, k>>}
    BY <1>3 DEF ChangeLeaf, WindowsInvariant, TypeInv, StageInv
  <2>2. FilesStay
    BY <2>1 DEF FilesStay, WindowsInvariant, TypeInv
  <2>3. QED
    BY <1>1, <2>1, <2>2, AllShownStay DEF Promise!abstractVars
<1>4. QED
  BY <1>2, <1>3

(* Step by step, the publication of a root on Windows is the abstract one, *)
(* up to the window in which its files are released (FR-104).              *)
THEOREM WindowsImplementsNoReplace == Spec => ImplementsNoReplace
<1>1. Init => Promise!AbstractInit
  BY DEF Init, Promise!AbstractInit, Roots, Shown, Answered, Promise!Free
<1>2. WindowsInvariant /\ WindowsInvariant' /\ [Next]_vars =>
        [Promise!AbstractNext]_(Promise!abstractVars)
  <2> SUFFICES ASSUME WindowsInvariant, WindowsInvariant', [Next]_vars
               PROVE  [Promise!AbstractNext]_(Promise!abstractVars)
    OBVIOUS
  <2>1. ASSUME NEW p \in Publishers, PublisherStep(p)
        PROVE  [Promise!AbstractNext]_(Promise!abstractVars)
    <3>1. UNCHANGED Promise!abstractVars \/ Promise!Answer(p) \/ Promise!Publish(p)
      BY <2>1, StepStutters, FailAnswers, RenamePublishes DEF PublisherStep
    <3>2. QED
      BY <3>1 DEF Promise!AbstractNext
  <2>2. CASE UNCHANGED vars
    BY <2>2 DEF vars, Promise!abstractVars, Shown, Whole, Answered
  <2>3. QED
    BY <2>1, <2>2, OthersImplement DEF Next
<1>3. QED
  BY <1>1, <1>2, WindowsInvariantHolds, PTL DEF Spec, ImplementsNoReplace, Promise!AbstractSpec
===============================================================================
