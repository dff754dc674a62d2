------------------------ MODULE RootPublicationProofs ------------------------
(***************************************************************************)
(* Theorems about RootPublication for any number of commands, names and    *)
(* files and any amount of meddling.  PublicationInvariant is inductive:   *)
(* StagingIsReserved alone is not, because it does not say that a command  *)
(* which removes its reservation has no tree left at its staging name      *)
(* (PlacementInv), nor that the entry it finds cannot be one that covers   *)
(* the tree of another command (HoldingInv).                               *)
(***************************************************************************)
EXTENDS RootPublication, TLAPS

(* The objects that the proofs tell apart.                                 *)
LEMMA ObjectFacts ==
  /\ Nothing \in Object /\ Foreign \in Object
  /\ \A p \in Publishers :
       /\ Tree(p) \in Object /\ Reservation(p) \in Object
       /\ Tree(p).of = p /\ Reservation(p).of = p
       /\ Tree(p) # Nothing /\ Tree(p) # Foreign
       /\ Reservation(p) # Nothing /\ Reservation(p) # Foreign
       /\ \A q \in Publishers : /\ Tree(p) # Reservation(q)
                                /\ Tree(p) = Tree(q) => p = q
                                /\ Reservation(p) = Reservation(q) => p = q
  BY DEF Nothing, Foreign, Tree, Reservation, Object

LEMMA NameFacts ==
  /\ Coordination \in AllNames /\ Coordination \notin Publishers
  /\ \A n \in Names : n \in AllNames /\ n # Coordination /\ n \notin Publishers
  /\ \A p \in Publishers : /\ p \in AllNames /\ p \notin Names
                           /\ Requested[p] \in Names /\ Requested[p] \in AllNames
                           /\ Requested[p] # p /\ Requested[p] # Coordination
                           /\ p # Coordination
                           /\ \A q \in Publishers : Requested[p] # q
  BY NamesAssumption DEF AllNames

(* A counter below its bound may count one more.                           *)
LEMMA OneMore ==
  ASSUME NEW n \in Nat, NEW m \in 0..n, m < n
  PROVE  m + 1 \in 0..n /\ m + 1 \in 1..n
  OBVIOUS

(* A step of a publisher keeps every variable in its type.                 *)
LEMMA StepType ==
  ASSUME TypeOK, NEW p \in Publishers, PublisherStep(p)
  PROVE  TypeOK'
  <1> USE ObjectFacts, NameFacts DEF TypeOK, Stages, Advance, Returns, Reports, Quiet, Untouched, Put
  <1>1. CASE Reserve(p)
    BY <1>1 DEF Reserve
  <1>2. CASE Refused(p)
    BY <1>2 DEF Refused
  <1>3. CASE NameStaging(p)
    BY <1>3 DEF NameStaging
  <1>4. CASE NameFails(p)
    BY <1>4 DEF NameFails
  <1>5. CASE Preflight(p)
    BY <1>5 DEF Preflight
  <1>6. CASE MakeStaging(p)
    BY <1>6 DEF MakeStaging
  <1>7. CASE MakeStagingFails(p)
    BY <1>7 DEF MakeStagingFails
  <1>8. CASE WriteLeaf(p)
    <2>1. written[p] + 1 \in 0..Leaves /\ written[p] + 1 \in 1..Leaves
      <3>1. /\ written[p] \in 0..Leaves /\ written[p] < Leaves /\ Leaves \in Nat
        BY BoundsAssumption, <1>8 DEF WriteLeaf, CreateLeaf
      <3> QED
        BY <3>1, OneMore
    <2>2. written' \in [Publishers -> 0..Leaves]
      BY <1>8, <2>1 DEF WriteLeaf
    <2>3. leaves' \in [Publishers -> [1..Leaves -> {"absent", "planned", "changed"}]]
      BY <1>8, <2>1 DEF WriteLeaf, CreateLeaf
    <2> QED
      BY <1>8, <2>2, <2>3 DEF WriteLeaf, CreateLeaf
  <1>9. CASE WriteLeafFails(p)
    BY BoundsAssumption, <1>9 DEF WriteLeafFails, CreateLeaf
  <1>10. CASE VerifyStaging(p)
    BY <1>10 DEF VerifyStaging
  <1>11. CASE PublishRoot(p)
    BY <1>11 DEF PublishRoot
  <1>12. CASE StagingFails(p)
    BY <1>12 DEF StagingFails
  <1>13. CASE VerifyPublished(p)
    BY <1>13 DEF VerifyPublished
  <1>14. CASE VerifyPublishedFails(p)
    BY <1>14 DEF VerifyPublishedFails
  <1>15. CASE InspectStaging(p)
    BY <1>15 DEF InspectStaging
  <1>16. CASE LeaveInPlace(p)
    BY <1>16 DEF LeaveInPlace, Outcome
  <1>17. CASE InspectFails(p)
    BY <1>17 DEF InspectFails, Outcome
  <1>18. CASE RemoveCoordination(p)
    BY <1>18 DEF RemoveCoordination, Outcome
  <1>19. CASE RemovalFails(p)
    BY <1>19 DEF RemovalFails, Outcome
  <1>20. CASE Crash(p)
    BY <1>20 DEF Crash
  <1> QED
    BY <1>1, <1>2, <1>3, <1>4, <1>5, <1>6, <1>7, <1>8, <1>9, <1>10, <1>11, <1>12,
       <1>13, <1>14, <1>15, <1>16, <1>17, <1>18, <1>19, <1>20 DEF PublisherStep

(* So does whatever another program does.                                  *)
LEMMA MeddlingType ==
  ASSUME TypeOK,
         \/ \E n \in AllNames : Create(n) \/ Remove(n)
         \/ \E p \in Publishers, k \in 1..Leaves : ChangeLeaf(p, k)
         \/ MoveAnchor
  PROVE  TypeOK'
  <1> USE ObjectFacts DEF TypeOK, Put
  <1>1. ASSUME Meddle PROVE meddling' \in 0..MaxMeddling
    <2>1. /\ meddling \in 0..MaxMeddling /\ meddling < MaxMeddling /\ MaxMeddling \in Nat
          /\ meddling' = meddling + 1
      BY <1>1, BoundsAssumption DEF Meddle
    <2> QED
      BY <2>1, OneMore
  <1>2. ASSUME NEW n \in AllNames, Create(n) PROVE TypeOK'
    BY <1>1, <1>2 DEF Create
  <1>3. ASSUME NEW n \in AllNames, Remove(n) PROVE TypeOK'
    <2>1. cleared' \in BOOLEAN
      BY <1>3, Zenon DEF Remove
    <2> QED
      BY <1>1, <1>3, <2>1 DEF Remove
  <1>4. ASSUME NEW p \in Publishers, NEW k \in 1..Leaves, ChangeLeaf(p, k) PROVE TypeOK'
    BY <1>1, <1>4 DEF ChangeLeaf
  <1>5. CASE MoveAnchor
    <2>1. anchored' \in BOOLEAN
      BY <1>5, Zenon DEF MoveAnchor
    <2> QED
      BY <1>1, <1>5, <2>1 DEF MoveAnchor
  <1> QED
    BY <1>2, <1>3, <1>4, <1>5

(* The type invariant, for any processes, names, plans and meddling.       *)
THEOREM TypeCorrect == Spec => []TypeOK
  <1>1. Init => TypeOK
    <2> SUFFICES ASSUME Init PROVE TypeOK
      OBVIOUS
    <2>1. entries \in [AllNames -> Object]
      BY ObjectFacts DEF Init
    <2>2. written \in [Publishers -> 0..Leaves] /\ meddling \in 0..MaxMeddling
      BY BoundsAssumption DEF Init
    <2>3. leaves \in [Publishers -> [1..Leaves -> {"absent", "planned", "changed"}]]
      BY DEF Init
    <2> QED
      BY <2>1, <2>2, <2>3 DEF Init, TypeOK, Stages
  <1>2. TypeOK /\ [Next]_vars => TypeOK'
    <2> SUFFICES ASSUME TypeOK, [Next]_vars PROVE TypeOK'
      OBVIOUS
    <2>1. ASSUME NEW p \in Publishers, PublisherStep(p) PROVE TypeOK'
      BY <2>1, StepType
    <2>2. CASE UNCHANGED vars
      BY <2>2 DEF vars, TypeOK
    <2> QED
      BY <2>1, <2>2, MeddlingType DEF Next
  <1> QED
    BY <1>1, <1>2, PTL DEF Spec

(* What a step of p leaves alone.                                          *)
LEMMA StepFrame ==
  ASSUME TypeOK, NEW p \in Publishers, PublisherStep(p)
  PROVE  /\ \A q \in Publishers \ {p} :
              /\ stage'[q] = stage[q] /\ error'[q] = error[q]
              /\ report'[q] = report[q] /\ leaves'[q] = leaves[q]
              /\ q \in published' <=> q \in published
         /\ UNCHANGED <<anchored, cleared>>
  BY DEF PublisherStep, TypeOK, Advance, Returns, Reports, Quiet, Untouched, Reserve, Refused,
     NameStaging, NameFails, Preflight, MakeStaging, MakeStagingFails, CreateLeaf, WriteLeaf,
     WriteLeafFails, VerifyStaging, PublishRoot, StagingFails, VerifyPublished,
     VerifyPublishedFails, InspectStaging, LeaveInPlace, InspectFails, RemoveCoordination,
     RemovalFails, Crash

(* What a step that leaves the ancestor alone has to keep of its publisher. *)
Fits(p) ==
  /\ UNCHANGED <<entries, published>>
  /\ stage'[p] # "planned"
  /\ stage'[p] \in Treeless => stage[p] \in Treeless \/ entries[p] # Tree(p)
  /\ stage'[p] \in Holding => stage[p] \in Holding
  /\ stage'[p] = "verified" => Verified(p)'
  /\ stage'[p] \in BeforeRename => error'[p] = "none" /\ p \notin published
  /\ stage'[p] = "renamed" => p \in published
  /\ stage'[p] \in {"inspecting", "cleaning"} /\ error'[p] = "none" => p \in published
  /\ error'[p] = "unverified" => p \in published
  /\ report'[p] \in {"failed", "failedResidue"} => error'[p] # "none"
  /\ report'[p] \in {"applied", "publishedResidue"} => p \in published
  /\ error'[p] = "unpublished" => p \notin published
  /\ report'[p] = "applied" => /\ entries[p] # Tree(p)
                                /\ entries[Coordination] # Reservation(p)

LEMMA StillStep ==
  ASSUME TypeOK, TypeOK', PublicationInvariant, NEW p \in Publishers, PublisherStep(p), Fits(p)
  PROVE  PublicationInvariant'
  <1> USE DEF PublicationInvariant, Fits
  <1>1. /\ \A q \in Publishers \ {p} :
              /\ stage'[q] = stage[q] /\ error'[q] = error[q]
              /\ report'[q] = report[q] /\ leaves'[q] = leaves[q]
        /\ UNCHANGED <<anchored, cleared>>
    BY StepFrame
  <1>2. TreesInv'
    BY DEF TreesInv
  <1>3. PlacementInv' /\ ShownInv'
    BY <1>1 DEF PlacementInv, ShownInv
  <1>4. HoldingInv'
    BY <1>1 DEF HoldingInv
  <1>5. StagingIsReserved'
    BY <1>1 DEF StagingIsReserved
  <1>6. VerifiedInv'
    BY <1>1 DEF VerifiedInv, Verified
  <1>7. OutcomeInv'
    BY <1>1 DEF OutcomeInv
  <1>8. ReportsTrue'
    BY <1>1 DEF ReportsTrue
  <1> QED
    BY <1>2, <1>3, <1>4, <1>5, <1>6, <1>7, <1>8

(* What the invariant says of one publisher before it moves.               *)
Standing(p) ==
  /\ stage[p] \in Treeless => entries[p] # Tree(p)
  /\ stage[p] \in BeforeRename => error[p] = "none" /\ p \notin published
  /\ stage[p] = "renamed" => p \in published
  /\ stage[p] \in {"inspecting", "cleaning"} /\ error[p] = "none" => p \in published
  /\ error[p] \in {"none", "unpublished", "unverified"}
  /\ error[p] = "unpublished" => p \notin published
  /\ error[p] = "unverified" => p \in published
  /\ stage[p] # "done" => report[p] = "none"

LEMMA Stands ==
  ASSUME TypeOK, PublicationInvariant, NEW p \in Publishers
  PROVE  Standing(p)
  <1>1. /\ error[p] \in {"none", "unpublished", "unverified"}
        /\ stage[p] # "done" => report[p] = "none"
    BY DEF TypeOK
  <1> QED
    BY <1>1 DEF Standing, PublicationInvariant, PlacementInv, OutcomeInv, ReportsTrue

(* A step that moves its publisher and leaves the ancestor alone.          *)
Moves(p, to) == stage'[p] = to /\ UNCHANGED <<entries, published>>

LEMMA StillMove ==
  ASSUME TypeOK, NEW p \in Publishers, NEW to,
         stage' = [stage EXCEPT ![p] = to], UNCHANGED <<entries, published>>
  PROVE  Moves(p, to)
  BY DEF Moves, TypeOK

LEMMA StillReturn ==
  ASSUME TypeOK, NEW p \in Publishers, NEW to, NEW what, Returns(p, to, what), UNCHANGED entries
  PROVE  Moves(p, to) /\ error'[p] = what /\ report'[p] = report[p]
  BY DEF Moves, TypeOK, Returns

LEMMA StillReport ==
  ASSUME TypeOK, NEW p \in Publishers, NEW what, Reports(p, what), UNCHANGED entries
  PROVE  Moves(p, "done") /\ error'[p] = error[p] /\ report'[p] = what
  BY DEF Moves, TypeOK, Reports

(* The steps that only move the publisher on.                              *)
LEMMA StillSteps ==
  ASSUME TypeOK, TypeOK', PublicationInvariant, NEW p \in Publishers,
         \/ Refused(p) \/ NameStaging(p) \/ NameFails(p) \/ Preflight(p)
         \/ WriteLeaf(p) \/ WriteLeafFails(p) \/ VerifyStaging(p) \/ StagingFails(p)
         \/ VerifyPublished(p) \/ VerifyPublishedFails(p) \/ InspectStaging(p) \/ LeaveInPlace(p)
         \/ InspectFails(p) \/ RemovalFails(p) \/ Crash(p)
  PROVE  PublicationInvariant'
  <1>0. PublisherStep(p)
    BY DEF PublisherStep
  <1>a. Standing(p)
    BY Stands
  <1> SUFFICES Fits(p)
    BY <1>0, StillStep
  <1>1. CASE Refused(p)
    <2>1. /\ Moves(p, "done") /\ stage[p] = "planned"
          /\ error'[p] = "unpublished" /\ report'[p] = "failed"
      BY <1>1, StillMove DEF Refused, Advance, TypeOK
    <2> QED
      BY <1>a, <2>1 DEF Standing, Moves, Fits, Treeless, BeforeRename, Holding
  <1>2. CASE NameStaging(p)
    <2>1. /\ Moves(p, "named") /\ stage[p] = "reserved"
          /\ UNCHANGED <<error, report>>
      BY <1>2, StillMove DEF NameStaging, Advance, Quiet, Untouched
    <2> QED
      BY <1>a, <2>1 DEF Standing, Moves, Fits, Treeless, BeforeRename, Holding
  <1>3. CASE NameFails(p)
    <2>1. /\ Moves(p, "cleaning") /\ stage[p] = "reserved"
          /\ error'[p] = "unpublished" /\ report'[p] = report[p]
      BY <1>3, StillReturn DEF NameFails
    <2> QED
      BY <1>a, <2>1 DEF Standing, Moves, Fits, Treeless, BeforeRename, Holding
  <1>4. CASE Preflight(p)
    <2>1. /\ Moves(p, "preflighted") /\ stage[p] = "named"
          /\ UNCHANGED <<error, report>>
      BY <1>4, StillMove DEF Preflight, Advance, Quiet, Untouched
    <2> QED
      BY <1>a, <2>1 DEF Standing, Moves, Fits, Treeless, BeforeRename, Holding
  <1>5. CASE WriteLeaf(p)
    <2>1. stage[p] = "staging" /\ UNCHANGED <<stage, entries, error, report, published>>
      BY <1>5 DEF WriteLeaf, CreateLeaf
    <2> QED
      BY <1>a, <2>1 DEF Standing, Moves, Fits, Treeless, BeforeRename, Holding
  <1>6. CASE WriteLeafFails(p)
    <2>1. /\ Moves(p, "inspecting") /\ stage[p] = "staging"
          /\ error'[p] = "unpublished" /\ report'[p] = report[p]
      BY <1>6, StillReturn DEF WriteLeafFails, CreateLeaf
    <2> QED
      BY <1>a, <2>1 DEF Standing, Moves, Fits, Treeless, BeforeRename, Holding
  <1>7. CASE VerifyStaging(p)
    <2>1. /\ Moves(p, "verified") /\ stage[p] = "staging"
          /\ UNCHANGED <<error, report>>
      BY <1>7, StillMove DEF VerifyStaging, Advance, Quiet, Untouched
    <2>2. Verified(p)'
      BY <1>7 DEF VerifyStaging, Verified, Quiet, Untouched
    <2> QED
      BY <1>a, <2>1, <2>2 DEF Standing, Moves, Fits, Treeless, BeforeRename, Holding
  <1>8. CASE StagingFails(p)
    <2>1. /\ Moves(p, "inspecting") /\ stage[p] \in {"named", "preflighted", "staging", "verified"}
          /\ error'[p] = "unpublished" /\ report'[p] = report[p]
      BY <1>8, StillReturn DEF StagingFails
    <2> QED
      BY <1>a, <2>1 DEF Standing, Moves, Fits, Treeless, BeforeRename, Holding
  <1>9. CASE VerifyPublished(p)
    <2>1. /\ Moves(p, "inspecting") /\ stage[p] = "renamed"
          /\ UNCHANGED <<error, report>>
      BY <1>9, StillMove DEF VerifyPublished, Advance, Quiet, Untouched
    <2> QED
      BY <1>a, <2>1 DEF Standing, Moves, Fits, Treeless, BeforeRename, Holding
  <1>10. CASE VerifyPublishedFails(p)
    <2>1. /\ Moves(p, "inspecting") /\ stage[p] = "renamed"
          /\ error'[p] = "unverified" /\ report'[p] = report[p]
      BY <1>10, StillReturn DEF VerifyPublishedFails
    <2> QED
      BY <1>a, <2>1 DEF Standing, Moves, Fits, Treeless, BeforeRename, Holding
  <1>11. CASE InspectStaging(p)
    <2>1. /\ Moves(p, "cleaning") /\ stage[p] = "inspecting"
          /\ UNCHANGED <<error, report>>
      BY <1>11, StillMove DEF InspectStaging, Advance, Quiet, Untouched
    <2>2. entries[p] # Tree(p)
      BY <1>11, ObjectFacts DEF InspectStaging, StagingGone
    <2> QED
      BY <1>a, <2>1, <2>2 DEF Standing, Moves, Fits, Treeless, BeforeRename, Holding
  <1>12. CASE LeaveInPlace(p)
    <2>1. PICK what \in {"failed", "failedResidue", "publishedResidue"} :
            Reports(p, what) /\ (what = "publishedResidue" <=> error[p] = "none")
      BY <1>12 DEF LeaveInPlace, Outcome
    <2>2. Moves(p, "done") /\ error'[p] = error[p] /\ report'[p] = what
      BY <1>12, <2>1, StillReport DEF LeaveInPlace
    <2>3. stage[p] \in {"inspecting", "cleaning"}
      BY <1>12 DEF LeaveInPlace
    <2> QED
      BY <1>a, <2>1, <2>2, <2>3 DEF Standing, Moves, Fits, Treeless, BeforeRename, Holding
  <1>13. CASE InspectFails(p)
    <2>1. PICK what \in {"failed", "failedResidue", "publishedResidue"} :
            Reports(p, what) /\ (what = "publishedResidue" <=> error[p] = "none")
      BY <1>13 DEF InspectFails, Outcome
    <2>2. Moves(p, "done") /\ error'[p] = error[p] /\ report'[p] = what
      BY <1>13, <2>1, StillReport DEF InspectFails
    <2>3. stage[p] \in {"inspecting", "cleaning"}
      BY <1>13 DEF InspectFails
    <2> QED
      BY <1>a, <2>1, <2>2, <2>3 DEF Standing, Moves, Fits, Treeless, BeforeRename, Holding
  <1>14. CASE RemovalFails(p)
    <2>1. PICK what \in {"failed", "failedResidue", "publishedResidue"} :
            Reports(p, what) /\ (what = "publishedResidue" <=> error[p] = "none")
      BY <1>14 DEF RemovalFails, Outcome
    <2>2. Moves(p, "done") /\ error'[p] = error[p] /\ report'[p] = what
      BY <1>14, <2>1, StillReport DEF RemovalFails
    <2>3. stage[p] \in {"inspecting", "cleaning"}
      BY <1>14 DEF RemovalFails
    <2> QED
      BY <1>a, <2>1, <2>2, <2>3 DEF Standing, Moves, Fits, Treeless, BeforeRename, Holding
  <1>15. CASE Crash(p)
    <2>1. /\ Moves(p, "crashed") /\ stage[p] \notin {"planned", "done", "crashed"}
          /\ UNCHANGED <<error, report>>
      BY <1>15, StillMove DEF Crash, Quiet, Untouched
    <2> QED
      BY <1>a, <2>1 DEF Standing, Moves, Fits, Treeless, BeforeRename, Holding
  <1> QED
    BY <1>1, <1>2, <1>3, <1>4, <1>5, <1>6, <1>7, <1>8, <1>9, <1>10, <1>11, <1>12,
       <1>13, <1>14, <1>15

(* The steps that change the ancestor.                                     *)
LEMMA ReserveInvariant ==
  ASSUME TypeOK, TypeOK', PublicationInvariant, NEW p \in Publishers, Reserve(p)
  PROVE  PublicationInvariant'
  <1>0. /\ entries \in [AllNames -> Object] /\ stage \in [Publishers -> Stages]
        /\ error \in [Publishers -> {"none", "unpublished", "unverified"}]
        /\ DOMAIN report = Publishers /\ published \subseteq Publishers
        /\ Coordination \in AllNames /\ p \in AllNames /\ Requested[p] \in AllNames
        /\ Requested[p] # p /\ Coordination # p
    BY NameFacts DEF TypeOK
  <1>1. /\ stage[p] = "planned" /\ stage'[p] = "reserved"
        /\ \A q \in Publishers \ {p} : stage'[q] = stage[q]
        /\ entries[Coordination] = Nothing /\ entries'[Coordination] = Reservation(p)
        /\ \A n \in AllNames \ {Coordination} : entries'[n] = entries[n]
        /\ UNCHANGED <<anchored, leaves, error, report, published, cleared>>
    BY <1>0 DEF Reserve, Advance, Put, Quiet, Untouched
  <1> USE ObjectFacts DEF PublicationInvariant
  <1>2. TreesInv'
    BY NameFacts, <1>1 DEF TreesInv
  <1>3. PlacementInv' /\ ShownInv'
    BY NameFacts, <1>1 DEF PlacementInv, Treeless, ShownInv
  <1>4. HoldingInv'
    BY NameFacts, <1>1 DEF HoldingInv
  <1>5. StagingIsReserved'
    BY NameFacts, <1>1 DEF StagingIsReserved, PlacementInv, Treeless
  <1>6. VerifiedInv'
    BY NameFacts, <1>1 DEF VerifiedInv, Verified
  <1>7. OutcomeInv'
    BY <1>1 DEF OutcomeInv, BeforeRename
  <1>8. ReportsTrue'
    <2>1. report[p] = "none"
      BY <1>1 DEF TypeOK
    <2>2. ASSUME NEW q \in Publishers, report[q] = "applied"
          PROVE  entries'[q] # Tree(q) /\ entries'[Coordination] # Reservation(q)
      <3>1. q # p /\ entries[q] # Tree(q)
        BY <2>1, <2>2 DEF ReportsTrue
      <3>2. Reservation(p) # Reservation(q)
        BY <3>1
      <3> QED
        BY NameFacts, <1>1, <3>1, <3>2
    <2> QED
      BY <1>1, <2>2 DEF ReportsTrue
  <1> QED
    BY <1>2, <1>3, <1>4, <1>5, <1>6, <1>7, <1>8

LEMMA MakeStagingInvariant ==
  ASSUME TypeOK, TypeOK', PublicationInvariant, NEW p \in Publishers,
         MakeStaging(p) \/ MakeStagingFails(p)
  PROVE  PublicationInvariant'
  <1>0. /\ entries \in [AllNames -> Object] /\ stage \in [Publishers -> Stages]
        /\ error \in [Publishers -> {"none", "unpublished", "unverified"}]
        /\ DOMAIN report = Publishers /\ published \subseteq Publishers
        /\ Coordination \in AllNames /\ p \in AllNames /\ Requested[p] \in AllNames
        /\ Requested[p] # p /\ Coordination # p
    BY NameFacts DEF TypeOK
  <1>1. /\ stage[p] = "preflighted" /\ stage'[p] \in {"staging", "inspecting"}
        /\ \A q \in Publishers \ {p} : stage'[q] = stage[q] /\ error'[q] = error[q]
        /\ error'[p] = IF stage'[p] = "staging" THEN error[p] ELSE "unpublished"
        /\ entries[p] = Nothing /\ entries'[p] = Tree(p)
        /\ \A n \in AllNames \ {p} : entries'[n] = entries[n]
        /\ UNCHANGED <<anchored, leaves, report, published, cleared>>
    BY <1>0 DEF MakeStaging, MakeStagingFails, Advance, Returns, Put, Quiet, Untouched
  <1> USE ObjectFacts DEF PublicationInvariant
  <1>2. TreesInv'
    BY NameFacts, <1>1 DEF TreesInv
  <1>3. p \notin published /\ error[p] = "none" /\ report[p] = "none"
    BY <1>1 DEF OutcomeInv, BeforeRename, TypeOK
  <1>4. PlacementInv' /\ ShownInv'
    BY NameFacts, <1>1, <1>3 DEF PlacementInv, Treeless, ShownInv
  <1>5. HoldingInv'
    BY NameFacts, <1>1 DEF HoldingInv, Holding
  <1>6. StagingIsReserved'
    BY NameFacts, <1>1 DEF StagingIsReserved, HoldingInv, Holding
  <1>7. VerifiedInv'
    BY NameFacts, <1>1 DEF VerifiedInv, Verified
  <1>8. OutcomeInv'
    BY <1>1, <1>3 DEF OutcomeInv, BeforeRename
  <1>9. ReportsTrue'
    BY NameFacts, <1>1, <1>3 DEF ReportsTrue
  <1> QED
    BY <1>2, <1>4, <1>5, <1>6, <1>7, <1>8, <1>9

LEMMA PublishInvariant ==
  ASSUME TypeOK, TypeOK', PublicationInvariant, NEW p \in Publishers, PublishRoot(p)
  PROVE  PublicationInvariant'
  <1>0. /\ entries \in [AllNames -> Object] /\ stage \in [Publishers -> Stages]
        /\ error \in [Publishers -> {"none", "unpublished", "unverified"}]
        /\ DOMAIN report = Publishers /\ published \subseteq Publishers
        /\ Coordination \in AllNames /\ p \in AllNames /\ Requested[p] \in AllNames
        /\ Requested[p] # p /\ Coordination # p
    BY NameFacts DEF TypeOK
  <1>1. /\ stage[p] = "verified" /\ stage'[p] = "renamed"
        /\ \A q \in Publishers \ {p} : /\ stage'[q] = stage[q]
                                       /\ q \in published' <=> q \in published
        /\ p \in published'
        /\ entries'[Requested[p]] = entries[p] /\ entries'[p] = Nothing
        /\ \A n \in AllNames \ {p, Requested[p]} : entries'[n] = entries[n]
        /\ UNCHANGED <<anchored, leaves, error, report, cleared>>
    BY <1>0 DEF PublishRoot, Advance, Untouched
  <1> USE ObjectFacts DEF PublicationInvariant
  <1>2. entries[p] = Tree(p)
    BY <1>1 DEF VerifiedInv, Verified
  <1>3. error[p] = "none" /\ report[p] = "none"
    BY <1>1 DEF OutcomeInv, BeforeRename, TypeOK
  <1>4. TreesInv'
    BY NameFacts, <1>1, <1>2 DEF TreesInv
  <1>5. PlacementInv' /\ ShownInv'
    <2>1. PlacementInv'
      BY NameFacts, <1>1 DEF PlacementInv, Treeless
    <2>2. ShownInv'
      BY NameFacts, <1>1, <1>2 DEF ShownInv
    <2> QED
      BY <2>1, <2>2
  <1>6. HoldingInv'
    BY NameFacts, <1>1 DEF HoldingInv, Holding
  <1>7. StagingIsReserved'
    BY NameFacts, <1>1 DEF StagingIsReserved
  <1>8. VerifiedInv'
    BY NameFacts, <1>1 DEF VerifiedInv, Verified
  <1>9. OutcomeInv'
    BY <1>1 DEF OutcomeInv, BeforeRename
  <1>10. ReportsTrue'
    BY NameFacts, <1>1, <1>3 DEF ReportsTrue
  <1> QED
    BY <1>4, <1>5, <1>6, <1>7, <1>8, <1>9, <1>10

LEMMA RemoveCoordinationInvariant ==
  ASSUME TypeOK, TypeOK', PublicationInvariant, NEW p \in Publishers, RemoveCoordination(p)
  PROVE  PublicationInvariant'
  <1>0. /\ entries \in [AllNames -> Object] /\ stage \in [Publishers -> Stages]
        /\ error \in [Publishers -> {"none", "unpublished", "unverified"}]
        /\ DOMAIN report = Publishers /\ published \subseteq Publishers
        /\ Coordination \in AllNames /\ p \in AllNames /\ Requested[p] \in AllNames
        /\ Requested[p] # p /\ Coordination # p
    BY NameFacts DEF TypeOK
  <1>1. /\ stage[p] = "cleaning" /\ stage'[p] = "done"
        /\ \A q \in Publishers \ {p} : stage'[q] = stage[q] /\ report'[q] = report[q]
        /\ report'[p] = IF error[p] = "none" THEN "applied" ELSE "failed"
        /\ entries[Coordination] = Reservation(p) /\ entries'[Coordination] = Nothing
        /\ \A n \in AllNames \ {Coordination} : entries'[n] = entries[n]
        /\ UNCHANGED <<anchored, leaves, error, published, cleared>>
    BY <1>0 DEF RemoveCoordination, OwnReservation, Outcome, Reports, Put, Untouched
  <1> USE ObjectFacts DEF PublicationInvariant
  <1>2. TreesInv'
    BY NameFacts, <1>1 DEF TreesInv
  <1>3. entries[p] # Tree(p) /\ (error[p] = "none" => p \in published)
    BY <1>1 DEF PlacementInv, Treeless, OutcomeInv
  <1>4. PlacementInv' /\ ShownInv'
    BY NameFacts, <1>1 DEF PlacementInv, Treeless, ShownInv
  <1>5. HoldingInv'
    BY NameFacts, <1>1 DEF HoldingInv, Holding
  <1>6. StagingIsReserved'
    BY NameFacts, <1>1, <1>3 DEF StagingIsReserved
  <1>7. VerifiedInv'
    BY NameFacts, <1>1 DEF VerifiedInv, Verified
  <1>8. OutcomeInv'
    BY <1>1 DEF OutcomeInv, BeforeRename
  <1>9. ReportsTrue'
    <2>1. ASSUME NEW q \in Publishers, report'[q] = "applied"
          PROVE  /\ q \in published /\ entries'[q] # Tree(q)
                 /\ entries'[Coordination] # Reservation(q)
      BY NameFacts, <1>1, <1>3, <2>1 DEF ReportsTrue
    <2>2. \A q \in Publishers : report'[q] = "publishedResidue" => q \in published
      BY <1>1 DEF ReportsTrue
    <2> QED
      BY <1>1, <2>1, <2>2 DEF ReportsTrue
  <1> QED
    BY <1>2, <1>4, <1>5, <1>6, <1>7, <1>8, <1>9

(* What another program does outside the documented windows.               *)
LEMMA MeddlingInvariant ==
  ASSUME TypeOK, TypeOK', PublicationInvariant,
         \/ \E n \in AllNames : Create(n) \/ Remove(n)
         \/ \E p \in Publishers, k \in 1..Leaves : ChangeLeaf(p, k)
         \/ MoveAnchor
  PROVE  PublicationInvariant'
  <1> USE DEF PublicationInvariant
  <1>1. ASSUME NEW n \in AllNames, Create(n) PROVE PublicationInvariant'
    <2>1. /\ entries[n] = Nothing /\ entries'[n] = Foreign
          /\ \A m \in AllNames \ {n} : entries'[m] = entries[m]
          /\ UNCHANGED <<anchored, leaves, stage, error, report, published, cleared>>
      BY <1>1 DEF TypeOK, Create, Put
    <2> USE ObjectFacts, NameFacts
    <2>2. TreesInv'
      BY <2>1 DEF TreesInv
    <2>3. PlacementInv' /\ ShownInv'
      BY <2>1 DEF PlacementInv, ShownInv
    <2>4. HoldingInv'
      BY <2>1 DEF HoldingInv
    <2>5. StagingIsReserved'
      BY <2>1 DEF StagingIsReserved
    <2>6. VerifiedInv'
      BY <2>1 DEF VerifiedInv, Verified
    <2>7. OutcomeInv' /\ ReportsTrue'
      BY <2>1 DEF OutcomeInv, ReportsTrue
    <2> QED
      BY <2>2, <2>3, <2>4, <2>5, <2>6, <2>7
  <1>2. ASSUME NEW n \in AllNames, Remove(n) PROVE PublicationInvariant'
    <2>1. /\ entries'[n] = Nothing /\ Unwatched(n)
          /\ \A m \in AllNames \ {n} : entries'[m] = entries[m]
          /\ UNCHANGED <<anchored, leaves, stage, error, report, published>>
      BY <1>2 DEF TypeOK, Remove, Put
    <2> USE ObjectFacts, NameFacts
    <2>2. ~cleared' => ~cleared /\ n # Coordination
      BY <1>2, Zenon DEF Remove
    <2>3. TreesInv'
      BY <2>1 DEF TreesInv
    <2>4. PlacementInv' /\ ShownInv'
      BY <2>1 DEF PlacementInv, ShownInv
    <2>5. HoldingInv'
      BY <2>1, <2>2 DEF HoldingInv
    <2>6. StagingIsReserved'
      BY <2>1, <2>2 DEF StagingIsReserved
    <2>7. VerifiedInv'
      BY <2>1 DEF VerifiedInv, Verified, Unwatched
    <2>8. OutcomeInv' /\ ReportsTrue'
      BY <2>1 DEF OutcomeInv, ReportsTrue
    <2> QED
      BY <2>3, <2>4, <2>5, <2>6, <2>7, <2>8
  <1>3. ASSUME NEW p \in Publishers, NEW k \in 1..Leaves, ChangeLeaf(p, k)
        PROVE  PublicationInvariant'
    <2>1. /\ stage[p] = "staging"
          /\ \A q \in Publishers \ {p} : leaves'[q] = leaves[q]
          /\ UNCHANGED <<entries, anchored, stage, error, report, published, cleared>>
      BY <1>3 DEF TypeOK, ChangeLeaf
    <2>2. VerifiedInv'
      BY <2>1 DEF VerifiedInv, Verified
    <2> QED
      BY <2>1, <2>2 DEF TreesInv, PlacementInv, ShownInv, HoldingInv, StagingIsReserved, OutcomeInv,
         ReportsTrue
  <1>4. CASE MoveAnchor
    <2>1. /\ \A p \in Publishers : stage[p] # "verified"
          /\ UNCHANGED <<entries, leaves, stage, error, report, published, cleared>>
      BY <1>4 DEF MoveAnchor, Unwatched
    <2>2. VerifiedInv'
      BY <2>1 DEF VerifiedInv
    <2> QED
      BY <2>1, <2>2 DEF TreesInv, PlacementInv, ShownInv, HoldingInv, StagingIsReserved, OutcomeInv,
         ReportsTrue
  <1> QED
    BY <1>1, <1>2, <1>3, <1>4

(* The invariant holds in every reachable state.                           *)
THEOREM Invariant == Spec => []PublicationInvariant
  <1>1. Init => PublicationInvariant
    BY ObjectFacts, NameFacts DEF Init, PublicationInvariant, TreesInv, PlacementInv,
       ShownInv, HoldingInv, Holding, StagingIsReserved, VerifiedInv, OutcomeInv, ReportsTrue
  <1>2. TypeOK /\ TypeOK' /\ PublicationInvariant /\ [Next]_vars => PublicationInvariant'
    <2> SUFFICES ASSUME TypeOK, TypeOK', PublicationInvariant, [Next]_vars
                 PROVE  PublicationInvariant'
      OBVIOUS
    <2>1. ASSUME NEW p \in Publishers, PublisherStep(p) PROVE PublicationInvariant'
      BY <2>1, StillSteps, ReserveInvariant, MakeStagingInvariant, PublishInvariant,
         RemoveCoordinationInvariant DEF PublisherStep
    <2>2. CASE UNCHANGED vars
      BY <2>2 DEF vars, PublicationInvariant, TreesInv, PlacementInv, ShownInv, HoldingInv,
         StagingIsReserved, VerifiedInv, Verified, OutcomeInv, ReportsTrue
    <2> QED
      BY <2>1, <2>2, MeddlingInvariant DEF Next
  <1> QED
    BY <1>1, <1>2, TypeCorrect, PTL DEF Spec

(* FR-104: no staging tree without the reservation that covers it.         *)
THEOREM StagingAlwaysReserved == Spec => []StagingIsReserved
  BY Invariant, PTL DEF PublicationInvariant

(* The report of a command is true to what it did.                         *)
THEOREM ReportsAlwaysTrue == Spec => []ReportsTrue
  BY Invariant, PTL DEF PublicationInvariant

(* What the publishers do to the entries of the ancestor.                   *)
LEMMA EntrySteps ==
  ASSUME TypeOK, PublicationInvariant, NEW p \in Publishers, PublisherStep(p)
  PROVE  \/ UNCHANGED entries
         \/ /\ entries[Coordination] = Nothing
            /\ Put(Coordination, Reservation(p))
         \/ entries[p] = Nothing /\ Put(p, Tree(p))
         \/ /\ entries[Requested[p]] = Nothing /\ entries[p] = Tree(p) /\ Verified(p)
            /\ entries' = [entries EXCEPT ![Requested[p]] = Tree(p), ![p] = Nothing]
         \/ entries[Coordination] = Reservation(p) /\ Put(Coordination, Nothing)
  <1>1. CASE PublishRoot(p)
    <2>1. Verified(p) /\ entries[p] = Tree(p)
      BY <1>1 DEF PublishRoot, Advance, PublicationInvariant, VerifiedInv, Verified
    <2> QED
      BY <1>1, <2>1 DEF PublishRoot
  <1>2. CASE ~PublishRoot(p)
    BY <1>2 DEF PublisherStep, Put, Reserve, Refused, NameStaging, NameFails, Preflight,
       MakeStaging, MakeStagingFails, CreateLeaf, WriteLeaf, WriteLeafFails, VerifyStaging,
       StagingFails, VerifyPublished, VerifyPublishedFails, InspectStaging, LeaveInPlace,
       InspectFails, RemoveCoordination, OwnReservation, RemovalFails, Crash
  <1> QED
    BY <1>1, <1>2

(* No command removes or replaces what it did not create.                  *)
LEMMA StepKeepsOthers == TypeOK /\ PublicationInvariant => OthersKept
  <1> SUFFICES ASSUME TypeOK, PublicationInvariant, NEW p \in Publishers, NEW n \in AllNames,
                      PublisherStep(p), entries[n] # Nothing, entries'[n] # entries[n]
               PROVE  entries[n].of = p
    BY DEF OthersKept
  <1>1. entries \in [AllNames -> Object]
    BY DEF TypeOK
  <1>2. entries[n] \in {Tree(p), Reservation(p)}
    BY <1>1, EntrySteps, NameFacts DEF Put
  <1> QED
    BY <1>2, ObjectFacts

(* A reservation that a command leaves is reported, or covers something.   *)
LEMMA StepTellsResidue == TypeOK /\ PublicationInvariant /\ Next => ResidueKnown
  <1> SUFFICES ASSUME TypeOK, PublicationInvariant, Next, NEW p \in Publishers,
                      stage[p] # "done", stage'[p] = "done",
                      entries'[Coordination] = Reservation(p)
               PROVE  \/ report'[p] \in {"failedResidue", "publishedResidue"}
                      \/ entries'[p] # Nothing
    BY DEF ResidueKnown
  <1>1. PICK q \in Publishers : PublisherStep(q)
    BY DEF Next, Create, Remove, ChangeLeaf, MoveAnchor
  <1>2. q = p
    BY <1>1, StepFrame
  <1>3. \/ Refused(p) \/ LeaveInPlace(p) \/ InspectFails(p)
        \/ RemoveCoordination(p) \/ RemovalFails(p)
    BY <1>1, <1>2 DEF PublisherStep, TypeOK, Advance, Returns, Quiet, Untouched, Reserve,
       NameStaging, NameFails, Preflight, MakeStaging, MakeStagingFails, CreateLeaf,
       WriteLeaf, WriteLeafFails, VerifyStaging, PublishRoot, StagingFails, VerifyPublished,
       VerifyPublishedFails, InspectStaging, Crash
  <1>4. CASE Refused(p)
    BY <1>4 DEF Refused, Advance, PublicationInvariant, PlacementInv
  <1>5. CASE LeaveInPlace(p)
    BY <1>5 DEF LeaveInPlace, StagingGone
  <1>6. CASE InspectFails(p) \/ RemovalFails(p)
    BY <1>6 DEF TypeOK, InspectFails, RemovalFails, Outcome, Reports
  <1>7. CASE RemoveCoordination(p)
    BY <1>7, ObjectFacts, NameFacts DEF TypeOK, RemoveCoordination, Put
  <1> QED
    BY <1>3, <1>4, <1>5, <1>6, <1>7

(* What a command cleans up is its own, and what it leaves is known.       *)
THEOREM ResidueIsHandled == Spec => ResidueHandled
  <1>1. TypeOK /\ PublicationInvariant /\ [Next]_vars => [OthersKept /\ ResidueKnown]_vars
    BY StepKeepsOthers, StepTellsResidue
  <1> QED
    BY <1>1, Invariant, TypeCorrect, PTL DEF Spec, ResidueHandled

-------------------------------------------------------------------------------
(* The promise of every platform.                                          *)

(* A name shows the same as long as its entry and the tree there stay.     *)
LEMMA ShownStays ==
  ASSUME TypeOK, PublicationInvariant, NEW n \in Names, entries'[n] = entries[n],
         \A q \in published : leaves'[q] = leaves[q]
  PROVE  Shown(n)' = Shown(n)
  <1>1. CASE \E q \in Publishers : entries[n] = Tree(q)
    <2>1. PICK q \in Publishers : entries[n] = Tree(q)
      BY <1>1
    <2>2. leaves'[q] = leaves[q] /\ entries[n].of = q /\ entries'[n] = Tree(q)
      BY <2>1, ObjectFacts DEF PublicationInvariant, ShownInv
    <2> QED
      BY <2>1, <2>2 DEF Shown, Whole
  <1>2. CASE ~ \E q \in Publishers : entries[n] = Tree(q)
    BY <1>2 DEF Shown
  <1> QED
    BY <1>1, <1>2

(* The names that stay show the same together.                             *)
LEMMA AllShownStay ==
  ASSUME TypeOK, PublicationInvariant, \A n \in Names : entries'[n] = entries[n],
         \A q \in published : leaves'[q] = leaves[q]
  PROVE  [n \in Names |-> Shown(n)]' = [n \in Names |-> Shown(n)]
  BY ShownStays

(* One name of them changes.                                               *)
LEMMA OneShownChanges ==
  ASSUME TypeOK, PublicationInvariant, NEW m \in Names,
         \A n \in Names \ {m} : entries'[n] = entries[n],
         \A q \in published : leaves'[q] = leaves[q]
  PROVE  [n \in Names |-> Shown(n)]' = [[n \in Names |-> Shown(n)] EXCEPT ![m] = Shown(m)']
  <1>1. \A n \in Names \ {m} : Shown(n)' = Shown(n)
    BY ShownStays
  <1> QED
    BY <1>1

(* What is shown where nothing is, where another program is, and where a   *)
(* whole tree is.                                                          *)
LEMMA ShownFacts ==
  ASSUME NEW n \in Names
  PROVE  /\ entries[n] = Nothing <=> Shown(n) = Promise!Free
         /\ entries[n] = Foreign => Shown(n) = Promise!Taken
         /\ \A p \in Publishers : entries[n] = Tree(p) /\ Whole(p) => Shown(n) = Promise!Root(p)
  <1>1. entries[n] = Nothing <=> Shown(n) = Promise!Free
    BY DEF Shown, Promise!Free
  <1>2. entries[n] = Foreign => Shown(n) = Promise!Taken
    BY ObjectFacts DEF Shown, Promise!Taken, Foreign, Nothing
  <1>3. \A p \in Publishers : entries[n] = Tree(p) /\ Whole(p) => Shown(n) = Promise!Root(p)
    BY ObjectFacts DEF Shown, Promise!Root
  <1> QED
    BY <1>1, <1>2, <1>3

(* The answers of a step that reports nothing.                             *)
LEMMA AnswersStay ==
  ASSUME TypeOK, NEW p \in Publishers, PublisherStep(p), UNCHANGED report, report[p] = "none"
  PROVE  [q \in Publishers |-> Answered(q)]' = [q \in Publishers |-> Answered(q)]
  <1>1. \A q \in Publishers \ {p} : error'[q] = error[q]
    BY StepFrame
  <1>2. \A q \in Publishers : Answered(q)' = Answered(q)
    BY <1>1 DEF Answered
  <1> QED
    BY <1>2

(* A step that says something is an answer, and true.                      *)
LEMMA StepAnswers ==
  ASSUME TypeOK, PublicationInvariant, NEW p \in Publishers, PublisherStep(p),
         stage[p] # "done", UNCHANGED published,
         NEW fine \in {"applied", "failed", "failedResidue", "publishedResidue"},
         report' = [report EXCEPT ![p] = fine],
         fine \in {"applied", "publishedResidue"} => error[p] = "none" /\ p \in published,
         fine \in {"failed", "failedResidue"} =>
           \/ error'[p] = "unverified" /\ p \in published
           \/ error'[p] = "unpublished" /\ p \notin published,
         [n \in Names |-> Shown(n)]' = [n \in Names |-> Shown(n)]
  PROVE  Promise!Answer(p)
  <1>1. report[p] = "none" /\ report \in [Publishers -> {"none", "applied", "failed", "failedResidue", "publishedResidue"}]
    BY DEF TypeOK
  <1>2. /\ \A q \in Publishers \ {p} : error'[q] = error[q] /\ report'[q] = report[q]
        /\ UNCHANGED anchored
    BY StepFrame
  <1>3. report'[p] = fine
    BY <1>1
  <1>4. \A q \in Publishers \ {p} : Answered(q)' = Answered(q)
    BY <1>2 DEF Answered
  <1>5. Answered(p) = "none"
    BY <1>1 DEF Answered
  <1>6. Answered(p)' \in IF p \in published THEN {"published", "unverified"} ELSE {"nothing"}
    BY <1>3 DEF Answered
  <1>7. [q \in Publishers |-> Answered(q)]' = [[q \in Publishers |-> Answered(q)] EXCEPT ![p] = Answered(p)']
    BY <1>4
  <1> QED
    BY <1>2, <1>5, <1>6, <1>7 DEF Promise!Answer

(* The rename publishes the root.                                          *)
LEMMA RenamePublishes ==
  ASSUME TypeOK, TypeOK', PublicationInvariant, NEW p \in Publishers, PublishRoot(p)
  PROVE  Promise!Publish(p)
  <1>0. PublisherStep(p)
    BY DEF PublisherStep
  <1>1. /\ stage[p] = "verified" /\ entries[Requested[p]] = Nothing
        /\ published' = published \cup {p} /\ UNCHANGED <<report, leaves, anchored>>
    BY DEF PublishRoot, Advance, Untouched
  <1>2. /\ entries[p] = Tree(p) /\ anchored /\ Whole(p) /\ p \notin published
    BY <1>1 DEF PublicationInvariant, VerifiedInv, Verified, Whole, OutcomeInv, BeforeRename
  <1>3. /\ entries'[Requested[p]] = Tree(p)
        /\ \A n \in Names \ {Requested[p]} : entries'[n] = entries[n]
    BY <1>2, NameFacts DEF PublishRoot, TypeOK
  <1>4. Requested[p] \in Names
    BY NameFacts
  <1>5. [n \in Names |-> Shown(n)]' = [[n \in Names |-> Shown(n)] EXCEPT ![Requested[p]] = Shown(Requested[p])']
    BY <1>1, <1>3, <1>4, OneShownChanges
  <1>6. Shown(Requested[p])' = Promise!Root(p)
    <2>1. Whole(p)' /\ Tree(p)' = Tree(p)
      BY <1>1, <1>2 DEF Whole, Tree
    <2> QED
      BY <1>3, <2>1, ObjectFacts DEF Shown, Promise!Root
  <1>7. Shown(Requested[p]) = Promise!Free
    BY <1>1, <1>4, ShownFacts
  <1>8. report[p] = "none" /\ Answered(p) = "none"
    BY <1>1 DEF TypeOK, Answered
  <1>9. [q \in Publishers |-> Answered(q)]' = [q \in Publishers |-> Answered(q)]
    BY <1>0, <1>1, <1>8, AnswersStay
  <1> QED
    BY <1>1, <1>2, <1>4, <1>5, <1>6, <1>7, <1>8, <1>9 DEF Promise!Publish

(* The other steps show nothing and say nothing.                           *)
LEMMA StepStutters ==
  ASSUME TypeOK, PublicationInvariant, NEW p \in Publishers, PublisherStep(p),
         UNCHANGED <<report, published>>, stage[p] # "done",
         \A n \in Names : entries'[n] = entries[n],
         leaves'[p] = leaves[p] \/ p \notin published
  PROVE  UNCHANGED Promise!abstractVars
  <1>1. /\ \A q \in published : leaves'[q] = leaves[q]
        /\ UNCHANGED anchored
    BY StepFrame DEF TypeOK
  <1>2. report[p] = "none"
    BY DEF TypeOK
  <1>3. [n \in Names |-> Shown(n)]' = [n \in Names |-> Shown(n)]
    BY <1>1, AllShownStay
  <1>4. [q \in Publishers |-> Answered(q)]' = [q \in Publishers |-> Answered(q)]
    BY <1>2, AnswersStay
  <1> QED
    BY <1>1, <1>3, <1>4 DEF Promise!abstractVars

LEMMA QuietSteps ==
  ASSUME TypeOK, PublicationInvariant, NEW p \in Publishers,
         \/ Reserve(p) \/ NameStaging(p) \/ NameFails(p) \/ Preflight(p)
         \/ MakeStaging(p) \/ MakeStagingFails(p) \/ WriteLeaf(p) \/ WriteLeafFails(p)
         \/ VerifyStaging(p) \/ StagingFails(p) \/ VerifyPublished(p) \/ VerifyPublishedFails(p)
         \/ InspectStaging(p) \/ Crash(p)
  PROVE  UNCHANGED Promise!abstractVars
  <1>1. PublisherStep(p)
    BY DEF PublisherStep
  <1>2. UNCHANGED <<report, published>> /\ stage[p] # "done"
    BY DEF Reserve, NameStaging, NameFails, Preflight, MakeStaging, MakeStagingFails, WriteLeaf,
       WriteLeafFails, CreateLeaf, VerifyStaging, StagingFails, VerifyPublished,
       VerifyPublishedFails, InspectStaging, Crash, Advance, Returns, Quiet
  <1>3. leaves'[p] = leaves[p] \/ p \notin published
    <2>1. CASE WriteLeaf(p) \/ WriteLeafFails(p)
      BY <2>1 DEF WriteLeaf, WriteLeafFails, CreateLeaf, PublicationInvariant, OutcomeInv, BeforeRename
    <2>2. CASE ~(WriteLeaf(p) \/ WriteLeafFails(p))
      BY <2>2 DEF Reserve, NameStaging, NameFails, Preflight, MakeStaging, MakeStagingFails,
         VerifyStaging, StagingFails, VerifyPublished, VerifyPublishedFails, InspectStaging,
         Crash, Quiet
    <2> QED
      BY <2>1, <2>2
  <1>4. \A n \in Names : entries'[n] = entries[n]
    <2>1. \/ UNCHANGED entries
          \/ Put(Coordination, Reservation(p))
          \/ Put(p, Tree(p))
      BY DEF Reserve, NameStaging, NameFails, Preflight, MakeStaging, MakeStagingFails, WriteLeaf,
         WriteLeafFails, CreateLeaf, VerifyStaging, StagingFails, VerifyPublished,
         VerifyPublishedFails, InspectStaging, Crash
    <2> QED
      BY <2>1, NameFacts DEF Put, TypeOK
  <1> QED
    BY <1>1, <1>2, <1>3, <1>4, StepStutters

LEMMA TellingSteps ==
  ASSUME TypeOK, PublicationInvariant, NEW p \in Publishers,
         \/ Refused(p) \/ LeaveInPlace(p) \/ InspectFails(p) \/ RemoveCoordination(p)
         \/ RemovalFails(p)
  PROVE  Promise!Answer(p)
  <1>1. PublisherStep(p)
    BY DEF PublisherStep
  <1>2. Standing(p)
    BY Stands
  <1>3. stage[p] # "done" /\ UNCHANGED <<published, leaves>>
    BY DEF Refused, LeaveInPlace, InspectFails, RemoveCoordination, RemovalFails, Advance, Reports
  <1>4. \A n \in Names : entries'[n] = entries[n]
    <2>1. UNCHANGED entries \/ Put(Coordination, Nothing)
      BY DEF Refused, LeaveInPlace, InspectFails, RemoveCoordination, RemovalFails
    <2> QED
      BY <2>1, NameFacts DEF Put, TypeOK
  <1>5. [n \in Names |-> Shown(n)]' = [n \in Names |-> Shown(n)]
    BY <1>3, <1>4, AllShownStay
  <1>6. CASE Refused(p)
    <2>1. /\ report' = [report EXCEPT ![p] = "failed"] /\ error'[p] = "unpublished"
          /\ p \notin published
      BY <1>2, <1>6 DEF Refused, Advance, TypeOK, Standing, BeforeRename
    <2> QED
      BY <1>1, <1>3, <1>5, <2>1, StepAnswers
  <1>7. CASE ~Refused(p)
    <2>1. PICK what \in {"applied", "failed", "failedResidue", "publishedResidue"} :
            /\ report' = [report EXCEPT ![p] = what] /\ UNCHANGED error
            /\ what \in {"applied", "publishedResidue"} <=> error[p] = "none"
      BY <1>7 DEF LeaveInPlace, InspectFails, RemoveCoordination, RemovalFails, Outcome, Reports
    <2>2. stage[p] \in {"inspecting", "cleaning"}
      BY <1>7 DEF LeaveInPlace, InspectFails, RemoveCoordination, RemovalFails
    <2>3. /\ error[p] = "none" => p \in published
          /\ error[p] # "none" => \/ error[p] = "unverified" /\ p \in published
                                  \/ error[p] = "unpublished" /\ p \notin published
      BY <1>2, <2>2 DEF Standing
    <2>4. /\ what \in {"applied", "publishedResidue"} => error[p] = "none" /\ p \in published
          /\ what \in {"failed", "failedResidue"} =>
               \/ error'[p] = "unverified" /\ p \in published
               \/ error'[p] = "unpublished" /\ p \notin published
      BY <2>1, <2>3
    <2>5. report' = [report EXCEPT ![p] = what] /\ UNCHANGED published
      BY <1>3, <2>1
    <2> QED
      BY <1>1, <1>3, <1>5, <2>4, <2>5, StepAnswers
  <1> QED
    BY <1>6, <1>7

(* Other programs do what the abstract specification lets them do.         *)
LEMMA MeddlingImplements ==
  ASSUME TypeOK, PublicationInvariant,
         \/ \E n \in AllNames : Create(n) \/ Remove(n)
         \/ \E p \in Publishers, k \in 1..Leaves : ChangeLeaf(p, k)
         \/ MoveAnchor
  PROVE  [Promise!AbstractNext]_(Promise!abstractVars)
  <1>1. ASSUME UNCHANGED <<report, error>>
        PROVE  [q \in Publishers |-> Answered(q)]' = [q \in Publishers |-> Answered(q)]
    BY <1>1 DEF Answered
  <1>2. ASSUME NEW n \in AllNames, Create(n)
        PROVE  [Promise!AbstractNext]_(Promise!abstractVars)
    <2>1. /\ entries[n] = Nothing /\ entries'[n] = Foreign
          /\ \A m \in Names \ {n} : entries'[m] = entries[m]
          /\ UNCHANGED <<anchored, leaves, error, report, published>>
      BY <1>2, NameFacts DEF Create, Put, TypeOK
    <2>2. CASE n \in Names
      <3>1. [m \in Names |-> Shown(m)]' = [[m \in Names |-> Shown(m)] EXCEPT ![n] = Shown(n)']
        BY <2>1, <2>2, OneShownChanges
      <3>2. Shown(n) = Promise!Free
        BY <2>1, <2>2, ShownFacts
      <3>3. Shown(n)' = Promise!Taken
        <4>1. Foreign # Nothing /\ \A q \in Publishers : Foreign # Tree(q)
          BY DEF Foreign, Nothing, Tree
        <4>2. entries'[n] # Nothing /\ ~ \E q \in Publishers : entries'[n] = Tree(q)
          BY <2>1, <4>1
        <4> QED
          BY <4>2 DEF Shown, Promise!Taken
      <3>4. Promise!Take(n)
        BY <1>1, <2>1, <2>2, <3>1, <3>2, <3>3 DEF Promise!Take
      <3> QED
        BY <2>2, <3>4 DEF Promise!AbstractNext
    <2>3. CASE n \notin Names
      BY <1>1, <2>1, <2>3, AllShownStay DEF Promise!abstractVars
    <2> QED
      BY <2>2, <2>3
  <1>3. ASSUME NEW n \in AllNames, Remove(n)
        PROVE  [Promise!AbstractNext]_(Promise!abstractVars)
    <2>1. /\ entries[n] # Nothing /\ entries'[n] = Nothing
          /\ \A m \in Names \ {n} : entries'[m] = entries[m]
          /\ UNCHANGED <<anchored, leaves, error, report, published>>
      BY <1>3, NameFacts DEF Remove, Put, TypeOK
    <2>2. CASE n \in Names
      <3>1. [m \in Names |-> Shown(m)]' = [[m \in Names |-> Shown(m)] EXCEPT ![n] = Shown(n)']
        BY <2>1, <2>2, OneShownChanges
      <3>2. Shown(n) # Promise!Free
        BY <2>1, <2>2, ShownFacts
      <3>3. Shown(n)' = Promise!Free
        BY <2>1 DEF Shown, Promise!Free, Nothing
      <3>4. Promise!Vacate(n)
        BY <1>1, <2>1, <2>2, <3>1, <3>2, <3>3 DEF Promise!Vacate
      <3> QED
        BY <2>2, <3>4 DEF Promise!AbstractNext
    <2>3. CASE n \notin Names
      BY <1>1, <2>1, <2>3, AllShownStay DEF Promise!abstractVars
    <2> QED
      BY <2>2, <2>3
  <1>4. ASSUME NEW p \in Publishers, NEW k \in 1..Leaves, ChangeLeaf(p, k)
        PROVE  UNCHANGED Promise!abstractVars
    <2>1. /\ UNCHANGED <<entries, anchored, error, report, published>>
          /\ \A q \in Publishers \ {p} : leaves'[q] = leaves[q]
          /\ p \notin published
      BY <1>4 DEF ChangeLeaf, TypeOK, PublicationInvariant, OutcomeInv, BeforeRename
    <2>2. \A q \in published : leaves'[q] = leaves[q]
      BY <2>1 DEF TypeOK
    <2> QED
      BY <1>1, <2>1, <2>2, AllShownStay DEF Promise!abstractVars
  <1>5. CASE MoveAnchor
    <2>1. /\ anchored' = ~anchored
          /\ UNCHANGED <<entries, leaves, error, report, published>>
      BY <1>5 DEF MoveAnchor
    <2>2. [m \in Names |-> Shown(m)]' = [m \in Names |-> Shown(m)]
      BY <2>1, AllShownStay
    <2>3. Promise!Move
      BY <1>1, <2>1, <2>2, Zenon DEF Promise!Move
    <2> QED
      BY <2>3 DEF Promise!AbstractNext
  <1> QED
    BY <1>2, <1>3, <1>4, <1>5

(* Step by step, the publication of a root on Linux and macOS is the       *)
(* abstract one: atomic, of a whole root, into a free name, and the answer *)
(* is true (FR-104).                                                       *)
THEOREM RootImplementsNoReplace == Spec => ImplementsNoReplace
  <1>1. Init => Promise!AbstractInit
    <2> SUFFICES ASSUME Init PROVE Promise!AbstractInit
      OBVIOUS
    <2>1. \A n \in Names : Shown(n) = Promise!Free
      BY NameFacts DEF Init, Shown, Promise!Free
    <2>2. \A p \in Publishers : Answered(p) = "none"
      BY DEF Init, Answered
    <2> QED
      BY <2>1, <2>2 DEF Init, Promise!AbstractInit
  <1>2. TypeOK /\ TypeOK' /\ PublicationInvariant /\ [Next]_vars =>
          [Promise!AbstractNext]_(Promise!abstractVars)
    <2> SUFFICES ASSUME TypeOK, TypeOK', PublicationInvariant, [Next]_vars
                 PROVE  [Promise!AbstractNext]_(Promise!abstractVars)
      OBVIOUS
    <2>1. ASSUME NEW p \in Publishers, PublisherStep(p)
          PROVE  [Promise!AbstractNext]_(Promise!abstractVars)
      <3>1. UNCHANGED Promise!abstractVars \/ Promise!Answer(p) \/ Promise!Publish(p)
        BY <2>1, QuietSteps, TellingSteps, RenamePublishes DEF PublisherStep
      <3> QED
        BY <3>1 DEF Promise!AbstractNext
    <2>2. CASE UNCHANGED vars
      BY <2>2 DEF vars, Promise!abstractVars, Shown, Whole, Answered
    <2> QED
      BY <2>1, <2>2, MeddlingImplements DEF Next
  <1> QED
    BY <1>1, <1>2, Invariant, TypeCorrect, PTL DEF Spec, ImplementsNoReplace, Promise!AbstractSpec

===============================================================================
