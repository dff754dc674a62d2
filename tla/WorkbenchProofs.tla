----------------------------- MODULE WorkbenchProofs -----------------------------
(***************************************************************************)
(* The selection, the views and the waiting commands of Workbench, for any *)
(* bundles, folders and versions, and any number of commands, folder       *)
(* changes and modifications.                                              *)
(***************************************************************************)
EXTENDS Workbench, TLAPS

(* Where a command waits.                                                  *)
Waits == [at : {"idle", "discovering", "picking", "dialog", "inspecting"},
          command : Commands \cup {"none"}, previous : RootOrNone, among : SUBSET Roots]

(* What is typed is what the comparison of versions needs.                 *)
TypeInv ==
  /\ disk \in [Roots -> Nat]
  /\ floor \in Nat
  /\ selected \in RootOrNone
  /\ current \in RootOrNone
  /\ pending \in [Kinds -> [root : RootOrNone, asked : Nat]]
  /\ stage \in [Actors -> Waits]

WorkbenchInvariant ==
  TypeInv /\ SelectionAuthorised /\ ViewsAgree /\ WaitsForFreshAnswer

(* Everything the properties are about; not the stages of the commands.    *)
watched == <<viewVars, folders, selection, pending, revision, views>>

(* The stages of the commands and the candidate keep their types.          *)
StagesTyped ==
  /\ current' \in RootOrNone
  /\ stage' \in [Actors -> Waits]

(* Before anything is selected nothing is shown and nobody waits.          *)
LEMMA InitialWorkbench == Init => WorkbenchInvariant
BY DEF Init, ViewInit, WorkbenchInvariant, TypeInv, SelectionAuthorised, ViewsAgree,
       WaitsForFreshAnswer, NoSelection, NoPending, NoAction, NoGraph, EmptySidebar, Idle, RootOrNone, Waits

(* A command that only changes where it waits disturbs nothing.            *)
LEMMA StillStep ==
  ASSUME WorkbenchInvariant, StagesTyped, UNCHANGED watched
  PROVE  WorkbenchInvariant'
BY DEF WorkbenchInvariant, TypeInv, StagesTyped, watched, viewVars, views, SelectionAuthorised,
       SafetyRoot, ViewsAgree, WaitsForFreshAnswer

(* A selection that is new or starts over: nothing of the old one is left, *)
(* and a command that is registered at once waits for the first refresh.   *)
LEMMA Reselects ==
  ASSUME WorkbenchInvariant, StagesTyped, NEW r \in Roots, NEW waiting,
         waiting = NoPending \/ \E command : waiting = Register(NoPending, command, r),
         Reselect(r, SafetyRoot(r)', waiting)
  PROVE  WorkbenchInvariant'
<1>1. /\ selected' = r /\ selection' = [root |-> r, safety |-> SafetyRoot(r)']
      /\ floor' = disk[r] /\ owed' = TRUE /\ UNCHANGED <<disk, revision>>
      /\ snapshot' = NoGraph /\ diagnostics' = 0 /\ panel' = NoGraph /\ pending' = waiting
      /\ sidebar' = [state |-> "loading", root |-> r, revision |-> 0]
  BY DEF Reselect, SelectRoot, ClearPublishedState
<1>2. disk[r] \in Nat
  BY DEF WorkbenchInvariant, TypeInv
<1>3. /\ waiting \in [Kinds -> [root : RootOrNone, asked : Nat]]
      /\ \A k \in Kinds : waiting[k] # NoAction => waiting[k] = [root |-> r, asked |-> disk[r]]
  BY <1>2 DEF Register, NoPending, NoAction, RootOrNone
<1>4. TypeInv'
  BY <1>1, <1>2, <1>3 DEF WorkbenchInvariant, TypeInv, StagesTyped, RootOrNone
<1>5. SelectionAuthorised'
  BY <1>1 DEF SelectionAuthorised
<1>6. ViewsAgree'
  BY <1>1 DEF ViewsAgree, NoGraph
<1>7. WaitsForFreshAnswer'
  BY <1>1, <1>2, <1>3 DEF WaitsForFreshAnswer
<1>8. QED
  BY <1>4, <1>5, <1>6, <1>7 DEF WorkbenchInvariant

(* A command for the bundle that is selected already.                      *)
LEMMA Continues ==
  ASSUME WorkbenchInvariant, StagesTyped, NEW r \in Roots, NEW command, NEW previous,
         selection.root = r, ContinueSelected(command, r, previous),
         UNCHANGED <<folders, selection, snapshot, diagnostics, sidebar, revision>>
  PROVE  WorkbenchInvariant'
<1>1. selected = r
  BY DEF WorkbenchInvariant, SelectionAuthorised
<1>2. CASE Cached(command, r)
  <2>1. UNCHANGED <<viewVars, pending>> /\ panel' \in {NoGraph, snapshot}
    BY <1>2 DEF ContinueSelected, OpenPanel
  <2>2. QED
    BY <2>1 DEF WorkbenchInvariant, TypeInv, StagesTyped, viewVars, SelectionAuthorised, SafetyRoot,
                ViewsAgree, WaitsForFreshAnswer
<1>3. CASE ~Cached(command, r) /\ Asks(command, r, previous)
  <2>1. /\ UNCHANGED <<selected, disk, shown, panel>> /\ owed' = TRUE /\ floor' = disk[r]
        /\ disk[r] \in floor..disk[r]
        /\ pending' = Register(pending, command, r)
    BY <1>1, <1>3 DEF ContinueSelected, Ask
  <2>2. disk[r] \in Nat /\ floor \in Nat /\ floor <= disk[r]
    BY <2>1 DEF WorkbenchInvariant, TypeInv
  <2>3. /\ pending' \in [Kinds -> [root : RootOrNone, asked : Nat]]
        /\ \A k \in Kinds : pending'[k] = pending[k] \/ pending'[k] = [root |-> r, asked |-> disk[r]]
    BY <2>1, <2>2 DEF Register, WorkbenchInvariant, TypeInv, RootOrNone
  <2>4. TypeInv' /\ SelectionAuthorised' /\ ViewsAgree'
    BY <2>1, <2>2, <2>3 DEF WorkbenchInvariant, TypeInv, StagesTyped, SelectionAuthorised,
                            SafetyRoot, ViewsAgree
  <2>5. WaitsForFreshAnswer'
    <3> SUFFICES ASSUME NEW k \in Kinds, pending'[k] # NoAction
                 PROVE  pending'[k].root = selected' /\ owed' /\ pending'[k].asked <= floor'
      BY DEF WaitsForFreshAnswer
    <3>1. CASE pending'[k] = pending[k]
      <4>1. pending[k].asked \in Nat /\ pending[k].root = selected /\ pending[k].asked <= floor
        BY <3>1 DEF WorkbenchInvariant, TypeInv, WaitsForFreshAnswer
      <4>2. QED
        BY <2>1, <2>2, <3>1, <4>1
    <3>2. CASE pending'[k] = [root |-> r, asked |-> disk[r]]
      BY <1>1, <2>1, <2>2, <3>2
    <3>3. QED
      BY <2>3, <3>1, <3>2
  <2>6. QED
    BY <2>4, <2>5 DEF WorkbenchInvariant
<1>4. CASE ~Cached(command, r) /\ ~Asks(command, r, previous)
  <2>1. UNCHANGED watched
    BY <1>4 DEF ContinueSelected, watched, views
  <2>2. QED
    BY <2>1, StillStep
<1>5. QED
  BY <1>2, <1>3, <1>4

(* selectCandidate in an open folder, then the rest of a command.          *)
LEMMA Selects ==
  ASSUME WorkbenchInvariant, StagesTyped, NEW r \in Roots, NEW command, NEW previous,
         Select(command, r, previous), UNCHANGED folders
  PROVE  WorkbenchInvariant'
<1>1. CASE selection = [root |-> r, safety |-> SafetyRoot(r)]
  <2>1. /\ ContinueSelected(command, r, previous)
        /\ UNCHANGED <<selection, snapshot, diagnostics, sidebar, revision>>
    BY <1>1 DEF Select
  <2>2. selection.root = r
    BY <1>1
  <2>3. QED
    BY <2>1, <2>2, Continues
<1>2. CASE selection # [root |-> r, safety |-> SafetyRoot(r)]
  <2>1. Reselect(r, SafetyRoot(r), Register(NoPending, command, r))
    BY <1>2 DEF Select
  <2>2. SafetyRoot(r)' = SafetyRoot(r)
    BY DEF SafetyRoot
  <2>3. QED
    BY <2>1, <2>2, Reselects
<1>3. QED
  BY <1>1, <1>2

-------------------------------------------------------------------------------
(* Commands between their awaits *)

(* A command that begins to wait, and one that is done.                    *)
LEMMA WaitingTyped ==
  ASSUME WorkbenchInvariant, current' \in RootOrNone, NEW a \in Actors,
         \/ stage' = [stage EXCEPT ![a] = Idle]
         \/ \E at \in {"discovering", "picking", "dialog", "inspecting"},
               command \in Commands \cup {"none"}, previous \in RootOrNone, among \in SUBSET Roots :
              Wait(a, at, command, previous, among)
         \/ UNCHANGED stage
  PROVE  StagesTyped
<1>1. stage \in [Actors -> Waits] /\ Idle \in Waits
  BY DEF WorkbenchInvariant, TypeInv, Idle, Waits, RootOrNone
<1>2. CASE stage' = [stage EXCEPT ![a] = Idle] \/ UNCHANGED stage
  BY <1>1, <1>2 DEF StagesTyped
<1>3. ASSUME NEW at \in {"discovering", "picking", "dialog", "inspecting"},
             NEW command \in Commands \cup {"none"}, NEW previous \in RootOrNone,
             NEW among \in SUBSET Roots, Wait(a, at, command, previous, among)
      PROVE  StagesTyped
  <2>1. [at |-> at, command |-> command, previous |-> previous, among |-> among] \in Waits
    BY DEF Waits
  <2>2. QED
    BY <1>1, <1>3, <2>1 DEF Wait, StagesTyped
<1>4. QED
  BY <1>2, <1>3

(* A waiting command knows bundles, a command of its own and the selection *)
(* it began with.                                                          *)
LEMMA WaitingKnows ==
  ASSUME WorkbenchInvariant
  PROVE  /\ selection.root \in RootOrNone
         /\ \A a \in Actors : /\ stage[a].command \in Commands \cup {"none"}
                              /\ stage[a].previous \in RootOrNone
                              /\ stage[a].among \in SUBSET Roots
BY DEF WorkbenchInvariant, TypeInv, SelectionAuthorised, Waits

(* A command starts: it reuses the selected bundle while its folder is open,*)
(* or waits for the search.                                                *)
LEMMA Begins ==
  ASSUME WorkbenchInvariant, NEW a \in Actors, NEW command \in Commands, NEW forced \in BOOLEAN,
         Begin(a, command, forced)
  PROVE  WorkbenchInvariant'
<1>1. CASE ~forced /\ IsOpen(current)
  <2>1. Select(command, current, selection.root) /\ UNCHANGED <<stage, folders>>
    BY <1>1 DEF Begin
  <2>2. current \in Roots /\ current' = current
    BY <1>1, <2>1 DEF IsOpen, Select, WorkbenchInvariant, TypeInv, RootOrNone
  <2>3. StagesTyped
    BY <2>1, <2>2, WaitingTyped DEF RootOrNone
  <2>4. QED
    BY <2>1, <2>2, <2>3, Selects
<1>2. CASE ~(~forced /\ IsOpen(current))
  <2>1. /\ current' = NoRoot /\ UNCHANGED watched
        /\ Wait(a, "discovering", command, selection.root, {r \in Roots : IsOpen(r)})
    BY <1>2 DEF Begin, SelectionUnchanged, watched, viewVars, views
  <2>2. {r \in Roots : IsOpen(r)} \in SUBSET Roots
    OBVIOUS
  <2>3. StagesTyped
    BY <2>1, <2>2, WaitingTyped, WaitingKnows DEF RootOrNone
  <2>4. QED
    BY <2>1, <2>3, StillStep
<1>3. QED
  BY <1>1, <1>2

(* A command that names its bundle waits for its inspection.               *)
LEMMA BeginsExplicit ==
  ASSUME WorkbenchInvariant, NEW a \in Actors, NEW command \in Commands, NEW r \in Roots,
         BeginExplicit(a, command, r)
  PROVE  WorkbenchInvariant'
<1>1. /\ UNCHANGED current /\ UNCHANGED watched
      /\ Wait(a, "inspecting", command, selection.root, {r})
  BY DEF BeginExplicit, SelectionUnchanged, watched, viewVars, views
<1>2. current' \in RootOrNone
  BY <1>1 DEF WorkbenchInvariant, TypeInv
<1>3. StagesTyped
  BY <1>1, <1>2, WaitingTyped, WaitingKnows
<1>4. QED
  BY <1>1, <1>3, StillStep

(* A command settles on a bundle.                                          *)
LEMMA Finishes ==
  ASSUME WorkbenchInvariant, NEW a \in Actors, NEW r \in Roots, Finish(a, r), UNCHANGED folders
  PROVE  WorkbenchInvariant'
<1>1. Select(stage[a].command, r, stage[a].previous) /\ stage' = [stage EXCEPT ![a] = Idle]
  BY DEF Finish
<1>2. current' \in RootOrNone
  BY <1>1 DEF Select, RootOrNone
<1>3. StagesTyped
  BY <1>1, <1>2, WaitingTyped
<1>4. QED
  BY <1>1, <1>3, Selects

(* Every step of a command after one of its awaits.                        *)
LEMMA CommandSteps ==
  ASSUME WorkbenchInvariant, NEW a \in Actors, CommandStep(a)
  PROVE  WorkbenchInvariant'
<1>1. CASE Discovered(a)
  <2>1. PICK found \in SUBSET stage[a].among, truncated \in BOOLEAN :
          \/ \E r \in Resolved(found, truncated) :
               \/ Finish(a, r)
               \/ /\ ~IsOpen(r)
                  /\ current' = r
                  /\ stage' = [stage EXCEPT ![a] = Idle]
                  /\ SelectionUnchanged
          \/ /\ Resolved(found, truncated) = {}
             /\ current' = NoRoot
             /\ IF found = {} \/ truncated
                  THEN Wait(a, "dialog", stage[a].command, stage[a].previous, {})
                  ELSE Wait(a, "picking", stage[a].command, stage[a].previous, found)
             /\ SelectionUnchanged
    BY <1>1, Zenon DEF Discovered
  <2>2. found \in SUBSET Roots /\ Resolved(found, truncated) \subseteq Roots
    BY WaitingKnows DEF Resolved
  <2>3. UNCHANGED folders
    BY <1>1 DEF Discovered
  <2>4. ASSUME NEW r \in Roots, Finish(a, r)
        PROVE  WorkbenchInvariant'
    BY <2>3, <2>4, Finishes
  <2>5. ASSUME NEW r \in Roots, current' = r, stage' = [stage EXCEPT ![a] = Idle], SelectionUnchanged
        PROVE  WorkbenchInvariant'
    <3>1. StagesTyped
      BY <2>5, WaitingTyped DEF RootOrNone
    <3>2. QED
      BY <2>3, <2>5, <3>1, StillStep DEF SelectionUnchanged, watched, viewVars, views
  <2>6. ASSUME current' = NoRoot, SelectionUnchanged,
               \/ Wait(a, "dialog", stage[a].command, stage[a].previous, {})
               \/ Wait(a, "picking", stage[a].command, stage[a].previous, found)
        PROVE  WorkbenchInvariant'
    <3>1. StagesTyped
      BY <2>2, <2>6, WaitingTyped, WaitingKnows DEF RootOrNone
    <3>2. QED
      BY <2>3, <2>6, <3>1, StillStep DEF SelectionUnchanged, watched, viewVars, views
  <2>7. QED
    BY <2>1, <2>2, <2>4, <2>5, <2>6
<1>2. ASSUME UNCHANGED <<folders, current>>, SelectionUnchanged,
             \/ stage' = [stage EXCEPT ![a] = Idle]
             \/ \E at \in {"dialog", "inspecting"}, among \in SUBSET Roots :
                  Wait(a, at, stage[a].command, stage[a].previous, among)
      PROVE  WorkbenchInvariant'
  <2>1. current' \in RootOrNone
    BY <1>2 DEF WorkbenchInvariant, TypeInv
  <2>2. StagesTyped
    BY <1>2, <2>1, WaitingTyped, WaitingKnows
  <2>3. QED
    BY <1>2, <2>2, StillStep DEF SelectionUnchanged, watched, viewVars, views
<1>3. CASE Picked(a)
  <2>1. UNCHANGED folders
    BY <1>3 DEF Picked
  <2>2. \/ \E r \in stage[a].among : Finish(a, r)
        \/ /\ Wait(a, "dialog", stage[a].command, stage[a].previous, {})
           /\ SelectionUnchanged /\ UNCHANGED current
    BY <1>3 DEF Picked
  <2>3. QED
    BY <1>2, <2>1, <2>2, WaitingKnows, Finishes
<1>4. CASE Browsed(a)
  <2>1. \E r \in Roots : Wait(a, "inspecting", stage[a].command, stage[a].previous, {r})
    BY <1>4 DEF Browsed
  <2>2. QED
    BY <1>2, <1>4, <2>1 DEF Browsed
<1>5. CASE Inspected(a)
  BY <1>5, WaitingKnows, Finishes DEF Inspected
<1>6. CASE GiveUp(a)
  BY <1>2, <1>6 DEF GiveUp
<1>7. QED
  BY <1>1, <1>3, <1>4, <1>5, <1>6 DEF CommandStep

-------------------------------------------------------------------------------
(* Events *)

(* A later version is reported: whoever waits keeps waiting for its own.   *)
LEMMA Asking ==
  ASSUME WorkbenchInvariant, NEW v, Ask(v),
         UNCHANGED <<folders, current, selection, pending, revision, views, stage>>
  PROVE  WorkbenchInvariant'
<1>1. /\ v \in Nat /\ floor \in Nat /\ floor <= v /\ floor' = v /\ owed'
      /\ UNCHANGED <<selected, disk>>
  BY DEF Ask, WorkbenchInvariant, TypeInv
<1>2. TypeInv' /\ SelectionAuthorised' /\ ViewsAgree'
  BY <1>1 DEF WorkbenchInvariant, TypeInv, SelectionAuthorised, SafetyRoot, ViewsAgree, views
<1>3. WaitsForFreshAnswer'
  <2> SUFFICES ASSUME NEW k \in Kinds, pending'[k] # NoAction
               PROVE  pending'[k].root = selected' /\ owed' /\ pending'[k].asked <= floor'
    BY DEF WaitsForFreshAnswer
  <2>1. pending[k].asked \in Nat /\ pending[k].root = selected /\ pending[k].asked <= floor
    BY DEF WorkbenchInvariant, TypeInv, WaitsForFreshAnswer
  <2>2. QED
    BY <1>1, <2>1
<1>4. QED
  BY <1>2, <1>3 DEF WorkbenchInvariant

(* A publication shows one revision in every view and takes every command  *)
(* that waits.                                                             *)
LEMMA Publishes ==
  ASSUME WorkbenchInvariant, PublishSnapshot
  PROVE  WorkbenchInvariant'
<1> DEFINE graph == [root |-> selected, revision |-> revision + 1]
<1>1. /\ selected # NoRoot /\ UNCHANGED <<selected, disk, floor, folders, current, selection, stage>>
      /\ revision' = revision + 1 /\ diagnostics' = revision + 1 /\ snapshot' = graph
      /\ sidebar' = [state |-> "ready", root |-> selected, revision |-> revision + 1]
      /\ pending' = TakePending(selected)
      /\ OpenPanel(graph) \/ ReplaceCurrent(graph)
  BY DEF PublishSnapshot, Show
<1>2. panel' \in {NoGraph, graph}
  BY <1>1 DEF OpenPanel, ReplaceCurrent
<1>3. /\ pending' \in [Kinds -> [root : RootOrNone, asked : Nat]]
      /\ \A k \in Kinds : pending'[k] = NoAction
  <2>1. \A k \in Kinds : pending[k] # NoAction => pending[k].root = selected
    BY DEF WorkbenchInvariant, WaitsForFreshAnswer
  <2>2. NoAction \in [root : RootOrNone, asked : Nat]
    BY DEF NoAction, RootOrNone
  <2>3. QED
    BY <1>1, <2>1, <2>2 DEF TakePending, WorkbenchInvariant, TypeInv
<1>4. TypeInv' /\ SelectionAuthorised' /\ WaitsForFreshAnswer'
  BY <1>1, <1>3 DEF WorkbenchInvariant, TypeInv, SelectionAuthorised, SafetyRoot, WaitsForFreshAnswer
<1>5. ViewsAgree'
  BY <1>1, <1>2 DEF ViewsAgree, NoGraph
<1>6. QED
  BY <1>4, <1>5 DEF WorkbenchInvariant

(* Every view is cleared together.                                         *)
LEMMA Clears ==
  ASSUME WorkbenchInvariant, StagesTyped, ClearPublishedState(NoPending), UNCHANGED disk,
         floor' \in Nat, selected' \in RootOrNone, SelectionAuthorised',
         sidebar'.root = selected', sidebar'.state # "ready"
  PROVE  WorkbenchInvariant'
<1>1. snapshot' = NoGraph /\ diagnostics' = 0 /\ panel' = NoGraph /\ pending' = NoPending
  BY DEF ClearPublishedState
<1>2. /\ NoPending \in [Kinds -> [root : RootOrNone, asked : Nat]]
      /\ \A k \in Kinds : NoPending[k] = NoAction
  BY DEF NoPending, NoAction, RootOrNone
<1>3. TypeInv' /\ WaitsForFreshAnswer'
  BY <1>1, <1>2 DEF WorkbenchInvariant, TypeInv, StagesTyped, WaitsForFreshAnswer
<1>4. ViewsAgree'
  BY <1>1 DEF ViewsAgree, NoGraph
<1>5. QED
  BY <1>3, <1>4 DEF WorkbenchInvariant

(* A load that failed clears the views together and leaves who waits.      *)
LEMMA Fails ==
  ASSUME WorkbenchInvariant, RefreshFails
  PROVE  WorkbenchInvariant'
<1>1. /\ UNCHANGED <<selected, disk, floor, folders, current, selection, stage>>
      /\ ClearPublishedState(NoPending)
      /\ sidebar' = [state |-> "unavailable", root |-> selected, revision |-> 0]
  BY DEF RefreshFails, FailRefresh
<1>2. StagesTyped /\ floor' \in Nat /\ selected' \in RootOrNone /\ SelectionAuthorised'
  BY <1>1 DEF WorkbenchInvariant, TypeInv, StagesTyped, SelectionAuthorised, SafetyRoot
<1>3. QED
  BY <1>1, <1>2, Clears

(* Folders that open or close: a selection that lost its authority is      *)
(* dropped with everything the views show of it.                           *)
LEMMA FoldersChange ==
  ASSUME WorkbenchInvariant, NEW removed, NEW added, ChangeFolders(removed, added)
  PROVE  WorkbenchInvariant'
<1> DEFINE open == (folders \ removed) \cup added
           safety == IF current = NoRoot THEN NoFolder ELSE InnermostFolder(open, current)
<1>1. folders' = open /\ UNCHANGED stage
  BY DEF ChangeFolders
<1>2. \/ /\ current = NoRoot /\ selection = NoSelection
         /\ SelectionUnchanged /\ UNCHANGED current
      \/ /\ safety # NoFolder /\ UNCHANGED current
         /\ \/ KeepsSelection(current, safety, removed) /\ SelectionUnchanged
            \/ Reselect(current, safety, NoPending)
      \/ /\ current' = NoRoot /\ selection' = NoSelection
         /\ ClearPublishedState(NoPending) /\ sidebar' = EmptySidebar /\ Deselect
  BY DEF ChangeFolders
<1>3. ASSUME SelectionUnchanged, UNCHANGED current, SelectionAuthorised'
      PROVE  WorkbenchInvariant'
  BY <1>1, <1>3 DEF SelectionUnchanged, viewVars, views, WorkbenchInvariant, TypeInv, ViewsAgree,
                    WaitsForFreshAnswer
<1>4. CASE selection = NoSelection /\ SelectionUnchanged /\ UNCHANGED current
  <2>1. SelectionAuthorised'
    BY <1>4 DEF SelectionUnchanged, viewVars, SelectionAuthorised, WorkbenchInvariant
  <2>2. QED
    BY <1>3, <1>4, <2>1
<1>5. ASSUME safety # NoFolder, UNCHANGED current
      PROVE  current \in Roots /\ SafetyRoot(current)' = safety /\ StagesTyped
  <2>1. current \in Roots
    BY <1>5 DEF WorkbenchInvariant, TypeInv, RootOrNone
  <2>2. SafetyRoot(current)' = safety
    BY <1>1, <1>5 DEF SafetyRoot
  <2>3. StagesTyped
    BY <1>1, <1>5 DEF StagesTyped, WorkbenchInvariant, TypeInv
  <2>4. QED
    BY <2>1, <2>2, <2>3
<1>6. CASE /\ safety # NoFolder /\ UNCHANGED current
           /\ KeepsSelection(current, safety, removed) /\ SelectionUnchanged
  <2>1. selection = [root |-> current, safety |-> safety] /\ UNCHANGED <<selection, selected>>
    BY <1>6 DEF KeepsSelection, SelectionUnchanged, viewVars
  <2>2. SelectionAuthorised'
    BY <1>5, <1>6, <2>1 DEF SelectionAuthorised, WorkbenchInvariant, SafetyRoot
  <2>3. QED
    BY <1>3, <1>6, <2>2
<1>7. CASE safety # NoFolder /\ UNCHANGED current /\ Reselect(current, safety, NoPending)
  <2>1. Reselect(current, SafetyRoot(current)', NoPending)
    BY <1>5, <1>7
  <2>2. QED
    BY <1>5, <1>7, <2>1, Reselects
<1>8. CASE /\ current' = NoRoot /\ selection' = NoSelection
           /\ ClearPublishedState(NoPending) /\ sidebar' = EmptySidebar /\ Deselect
  <2>1. UNCHANGED disk /\ floor' = 0 /\ selected' = NoRoot
    BY <1>8 DEF Deselect
  <2>2. StagesTyped /\ SelectionAuthorised'
    BY <1>1, <1>8, <2>1 DEF StagesTyped, RootOrNone, SelectionAuthorised, NoSelection,
                            WorkbenchInvariant, TypeInv
  <2>3. sidebar'.root = NoRoot /\ sidebar'.state = "empty"
    BY <1>8 DEF EmptySidebar
  <2>4. QED
    BY <1>8, <2>1, <2>2, <2>3, Clears DEF RootOrNone
<1>9. QED
  BY <1>2, <1>4, <1>6, <1>7, <1>8

(* What the extension host keeps, whatever happens between two awaits.     *)
THEOREM WorkbenchInvariantHolds == Spec => []WorkbenchInvariant
<1>1. WorkbenchInvariant /\ [Next]_vars => WorkbenchInvariant'
  <2> SUFFICES ASSUME WorkbenchInvariant, [Next]_vars PROVE WorkbenchInvariant'
    OBVIOUS
  <2>1. CASE ReadCommand \/ WriteCommand
    BY <2>1, Begins, BeginsExplicit DEF ReadCommand, WriteCommand, Commands, ReadCommands, Kinds, Actors
  <2>2. CASE \E a \in Actors : CommandStep(a)
    BY <2>2, CommandSteps
  <2>3. CASE RequestFullRefresh
    BY <2>3, Asking DEF RequestFullRefresh
  <2>4. ASSUME NEW r \in Roots, SelectInitialized(r)
        PROVE  WorkbenchInvariant'
    <3>1. Select("write", r, NoRoot) /\ UNCHANGED <<folders, stage>>
      BY <2>4 DEF SelectInitialized
    <3>2. StagesTyped
      BY <3>1 DEF Select, StagesTyped, RootOrNone, WorkbenchInvariant, TypeInv
    <3>3. QED
      BY <3>1, <3>2, Selects
  <2>5. ASSUME NEW r \in Roots, ModifyDisk(r)
        PROVE  WorkbenchInvariant'
    BY <2>5 DEF ModifyDisk, Modify, Unseen, views, WorkbenchInvariant, TypeInv, SelectionAuthorised,
                SafetyRoot, ViewsAgree, WaitsForFreshAnswer
  <2>6. CASE PublishSnapshot
    BY <2>6, Publishes
  <2>7. CASE RefreshFails
    BY <2>7, Fails
  <2>8. CASE ClosePanel
    BY <2>8 DEF ClosePanel, viewVars, WorkbenchInvariant, TypeInv, SelectionAuthorised, SafetyRoot,
                ViewsAgree, WaitsForFreshAnswer
  <2>9. CASE WatcherEvent
    BY <2>9, Asking DEF WatcherEvent, Unseen
  <2>10. ASSUME NEW removed \in SUBSET Folders, NEW added \in SUBSET Folders, ChangeFolders(removed, added)
         PROVE  WorkbenchInvariant'
    BY <2>10, FoldersChange
  <2>11. CASE UNCHANGED vars
    BY <2>11 DEF vars, viewVars, views, WorkbenchInvariant, TypeInv, SelectionAuthorised, SafetyRoot,
                 ViewsAgree, WaitsForFreshAnswer
  <2>12. QED
    BY <2>1, <2>2, <2>3, <2>4, <2>5, <2>6, <2>7, <2>8, <2>9, <2>10, <2>11 DEF Next
<1>2. QED
  BY InitialWorkbench, <1>1, PTL DEF Spec

(* Reads are authorised by the innermost folder that is open.              *)
THEOREM SelectionAlwaysAuthorised == Spec => []SelectionAuthorised
<1>1. WorkbenchInvariant => SelectionAuthorised
  BY DEF WorkbenchInvariant
<1>2. QED
  BY WorkbenchInvariantHolds, <1>1, PTL

(* The views show one revision of the selected bundle, or nothing.         *)
THEOREM ViewsAlwaysAgree == Spec => []ViewsAgree
<1>1. WorkbenchInvariant => ViewsAgree
  BY DEF WorkbenchInvariant
<1>2. QED
  BY WorkbenchInvariantHolds, <1>1, PTL

(* A waiting command is answered from a read that is not older than it.    *)
THEOREM AnswersAreFresh == Spec => []WaitsForFreshAnswer
<1>1. WorkbenchInvariant => WaitsForFreshAnswer
  BY DEF WorkbenchInvariant
<1>2. QED
  BY WorkbenchInvariantHolds, <1>1, PTL
================================================================================
