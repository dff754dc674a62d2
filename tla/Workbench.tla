-------------------------------- MODULE Workbench --------------------------------
(***************************************************************************)
(* The extension host (src/extension/activate.ts with bundleContext.ts,    *)
(* bundleRuntime.ts, vscodeGraphPanelService.ts, vscodeSidebar.ts and      *)
(* runtimeAvailabilityNotifications.ts): which bundle is selected, what    *)
(* the views show of it, and the commands that wait for its next refresh.  *)
(*                                                                         *)
(* The refresh coordinator is its abstract specification, BundleView.  A   *)
(* command runs in the stages between its awaits: discovery, the quick     *)
(* pick, the folder dialog and the inspection of an explicit directory.    *)
(* One read command is admitted at a time; one write workflow selects its  *)
(* bundle outside that gate.                                               *)
(***************************************************************************)
EXTENDS BundleView, Sequences

CONSTANTS
  Folders,      \* workspace folders that can be open
  NoFolder,     \* the folder of a root outside every open folder
  Holders,      \* for each root the folders that contain it, innermost first
  MaxActions,   \* bound: commands, write completions and folder changes
  MaxDisk       \* bound: modifications of each root

ASSUME HoldersAssumption == Holders \in [Roots -> Seq(Folders)]
ASSUME NothingAssumption == NoRoot \notin Roots /\ NoFolder \notin Folders

VARIABLES
  folders,      \* vscode.workspace.workspaceFolders
  current,      \* bundleContext.current
  selection,    \* selectedRuntimeSelection
  pending,      \* pending.graph and pending.validation
  snapshot,     \* runtime.current
  revision,     \* runtime.revision
  diagnostics,  \* revision whose findings the Problems view holds, or 0
  sidebar,      \* state of the sidebar, the root and the revision it lists
  panel,        \* root and revision of the graph in the panel
  notified,     \* availabilityNotifications
  stage,        \* where each command waits
  actions       \* counts what MaxActions bounds

views == <<snapshot, diagnostics, sidebar, panel>>
vars == <<viewVars, folders, current, selection, pending, revision, views,
          notified, stage, actions>>

Actors == {"reader", "writer"}
Kinds == {"graph", "validation"}
ReadCommands == Kinds \cup {"select", "refresh"}
Commands == ReadCommands \cup {"write"}

NoSelection == [root |-> NoRoot, safety |-> NoFolder]
NoAction == [root |-> NoRoot, asked |-> 0]
NoPending == [k \in Kinds |-> NoAction]
NoGraph == [root |-> NoRoot, revision |-> 0]
EmptySidebar == [state |-> "empty", root |-> NoRoot, revision |-> 0]
Idle == [at |-> "idle", command |-> "none", previous |-> NoRoot, among |-> {}]

RootOrNone == Roots \cup {NoRoot}
Graph == [root : RootOrNone, revision : Nat]

(* Every variable holds a value the extension can store in it.             *)
TypeOK ==
  /\ ViewTypeOK
  /\ folders \subseteq Folders
  /\ current \in RootOrNone
  /\ selection \in [root : Roots, safety : Folders] \cup {NoSelection}
  /\ pending \in [Kinds -> [root : RootOrNone, asked : Nat]]
  /\ snapshot \in Graph /\ panel \in Graph
  /\ revision \in Nat /\ diagnostics \in Nat /\ actions \in Nat
  /\ sidebar \in [state : {"empty", "loading", "ready", "unavailable"},
                  root : RootOrNone, revision : Nat]
  /\ notified \in [root : RootOrNone, failed : BOOLEAN]
  /\ stage \in [Actors -> [at : {"idle", "discovering", "picking", "dialog", "inspecting"},
                           command : Commands \cup {"none"},
                           previous : RootOrNone, among : SUBSET Roots]]

Init ==
  /\ ViewInit
  /\ folders \in SUBSET Folders
  /\ current = NoRoot /\ selection = NoSelection
  /\ pending = NoPending
  /\ snapshot = NoGraph /\ panel = NoGraph
  /\ revision = 0 /\ diagnostics = 0 /\ actions = 0
  /\ sidebar = EmptySidebar
  /\ notified = [root |-> NoRoot, failed |-> FALSE]
  /\ stage = [a \in Actors |-> Idle]

-------------------------------------------------------------------------------
(* The selection and the derived state of the runtime *)

(* getWorkspaceFolder: the innermost folder of open that contains r.       *)
InnermostFolder(open, r) ==
  LET holders == SelectSeq(Holders[r], LAMBDA f : f \in open)
  IN  IF holders = <<>> THEN NoFolder ELSE Head(holders)

SafetyRoot(r) == InnermostFolder(folders, r)

(* Mutant of IsOpen: the folder of a known root is not looked up.          *)
IsKnown(r) == r # NoRoot

IsOpen(r) == r # NoRoot /\ SafetyRoot(r) # NoFolder

(* Mutant of ClearPublishedState: the panel outlives the graph it shows.   *)
ClearStateKeepingPanel(waiting) ==
  /\ snapshot' = NoGraph
  /\ diagnostics' = 0
  /\ pending' = waiting
  /\ UNCHANGED panel

(* clearPublishedState with its onClear callback: every waiting command is
   failed; waiting holds the commands that are registered after it.        *)
ClearPublishedState(waiting) ==
  /\ snapshot' = NoGraph
  /\ diagnostics' = 0
  /\ panel' = NoGraph
  /\ pending' = waiting

(* ensureRuntimeSelection when the selection is new or must start over.    *)
Reselect(r, safety, waiting) ==
  /\ selection' = [root |-> r, safety |-> safety]
  /\ notified' = IF notified.root = r THEN notified ELSE [root |-> r, failed |-> FALSE]
  /\ ClearPublishedState(waiting)
  /\ SelectRoot(r)
  /\ sidebar' = [state |-> "loading", root |-> r, revision |-> 0]
  /\ UNCHANGED revision

(* replacePending: the command waits for a refresh that covers the disk.   *)
Register(waiting, command, r) ==
  IF command \in Kinds
    THEN [waiting EXCEPT ![command] = [root |-> r, asked |-> disk[r]]]
    ELSE waiting

(* graphPanels.open: creating a panel may throw, which is reported; giving
   an open panel the graph does not.                                       *)
OpenPanel(g) == panel' \in IF panel = NoGraph THEN {NoGraph, g} ELSE {g}

(* The rest of a command once ensureRuntimeSelection kept the selection.   *)
Cached(command, r) == command = "graph" /\ snapshot.root = r

Asks(command, r, previous) ==
  \/ command \in Kinds
  \/ command = "select" /\ previous = r

(* Mutant of ContinueSelected: a validation waits for the refresh that is
   already scheduled, if one is.                                           *)
ContinueWithoutRequest(command, r, previous) ==
  IF Cached(command, r) THEN OpenPanel(snapshot) /\ UNCHANGED <<viewVars, pending>>
  ELSE IF Asks(command, r, previous) THEN
    /\ pending' = Register(pending, command, r)
    /\ IF owed THEN UNCHANGED viewVars ELSE Ask(disk[r])
    /\ UNCHANGED panel
  ELSE UNCHANGED <<viewVars, pending, panel>>

ContinueSelected(command, r, previous) ==
  IF Cached(command, r) THEN
    /\ OpenPanel(snapshot)
    /\ UNCHANGED <<viewVars, pending>>
  ELSE IF Asks(command, r, previous) THEN
    /\ pending' = Register(pending, command, r)
    /\ Ask(disk[r])
    /\ UNCHANGED panel
  ELSE UNCHANGED <<viewVars, pending, panel>>

(* selectCandidate(r) inside an open folder, then the rest of the command.
   No other callback runs between the two.                                 *)
Select(command, r, previous) ==
  /\ current' = r
  /\ IF selection = [root |-> r, safety |-> SafetyRoot(r)]
       THEN /\ ContinueSelected(command, r, previous)
            /\ UNCHANGED <<selection, notified, snapshot, diagnostics, sidebar, revision>>
       ELSE Reselect(r, SafetyRoot(r), Register(NoPending, command, r))

(* Nothing but the stage of a command and bundleContext.current changes.   *)
SelectionUnchanged ==
  UNCHANGED <<viewVars, selection, pending, revision, views, notified>>

-------------------------------------------------------------------------------
(* selectBundle, between its awaits *)

CountAction == actions < MaxActions /\ actions' = actions + 1

Wait(a, at, command, previous, among) ==
  stage' = [stage EXCEPT ![a] = [at |-> at, command |-> command,
                                 previous |-> previous, among |-> among]]

(* A command without an explicit directory.  A forced one never reuses the
   current bundle.                                                         *)
Begin(a, command, forced) ==
  /\ stage[a] = Idle
  /\ folders # {}
  /\ CountAction
  /\ IF ~forced /\ IsOpen(current)
       THEN /\ Select(command, current, selection.root)
            /\ UNCHANGED stage
       ELSE /\ current' = NoRoot
            /\ Wait(a, "discovering", command, selection.root, {r \in Roots : IsOpen(r)})
            /\ SelectionUnchanged
  /\ UNCHANGED folders

(* A command on a directory of the explorer is inspected first.            *)
BeginExplicit(a, command, r) ==
  /\ stage[a] = Idle
  /\ IsOpen(r)
  /\ CountAction
  /\ Wait(a, "inspecting", command, selection.root, {r})
  /\ SelectionUnchanged
  /\ UNCHANGED <<folders, current>>

(* selectCandidate: it throws when the folder was closed in the meantime.  *)
Finish(a, r) ==
  /\ IsOpen(r)
  /\ Select(stage[a].command, r, stage[a].previous)
  /\ stage' = [stage EXCEPT ![a] = Idle]

(* bundleContext.resolve: the candidate a discovery settles on, if any.    *)
Resolved(found, truncated) ==
  IF truncated THEN {} ELSE IF current \in found THEN {current}
  ELSE IF \E r \in found : found = {r} THEN found ELSE {}

(* Discovery returned: found are the declared bundles it saw.  It may have
   missed some (truncated), and resolve records its candidate before
   selectCandidate finds that the folder has been closed.                  *)
Discovered(a) ==
  /\ stage[a].at = "discovering"
  /\ \E found \in SUBSET stage[a].among, truncated \in BOOLEAN :
       \/ \E r \in Resolved(found, truncated) :
            \/ Finish(a, r)
            \/ /\ ~IsOpen(r)
               /\ current' = r
               /\ stage' = [stage EXCEPT ![a] = Idle]
               /\ SelectionUnchanged
       \/ /\ Resolved(found, truncated) = {}
          /\ current' = NoRoot
          /\ IF found = {} \/ truncated
               THEN Wait(a, "dialog", stage[a].command, stage[a].previous, {})
               ELSE Wait(a, "picking", stage[a].command, stage[a].previous, found)
          /\ SelectionUnchanged
  /\ UNCHANGED <<folders, actions>>

(* The quick pick: a candidate, or the entry that opens the dialog.        *)
Picked(a) ==
  /\ stage[a].at = "picking"
  /\ \/ \E r \in stage[a].among : Finish(a, r)
     \/ /\ Wait(a, "dialog", stage[a].command, stage[a].previous, {})
        /\ SelectionUnchanged
        /\ UNCHANGED current
  /\ UNCHANGED <<folders, actions>>

(* The dialog: a directory inside an open folder is inspected.             *)
Browsed(a) ==
  /\ stage[a].at = "dialog"
  /\ \E r \in Roots : /\ IsOpen(r)
                      /\ Wait(a, "inspecting", stage[a].command, stage[a].previous, {r})
  /\ SelectionUnchanged
  /\ UNCHANGED <<folders, current, actions>>

Inspected(a) ==
  /\ stage[a].at = "inspecting"
  /\ \E r \in stage[a].among : Finish(a, r)
  /\ UNCHANGED <<folders, actions>>

(* The user cancels, the directory is refused, or selectCandidate throws.  *)
GiveUp(a) ==
  /\ stage[a].at \in {"picking", "dialog", "inspecting"}
  /\ stage' = [stage EXCEPT ![a] = Idle]
  /\ SelectionUnchanged
  /\ UNCHANGED <<folders, current, actions>>

-------------------------------------------------------------------------------
(* Commands *)

ReadCommand ==
  \/ \E command \in Kinds : Begin("reader", command, FALSE)
  \/ \E command \in Kinds, r \in Roots : BeginExplicit("reader", command, r)
  \/ Begin("reader", "select", TRUE)
  \/ selection = NoSelection /\ Begin("reader", "refresh", FALSE)

WriteCommand ==
  \/ Begin("writer", "write", FALSE)
  \/ \E r \in Roots : BeginExplicit("writer", "write", r)

(* OKF: Refresh Bundle with a selection, and refreshAfterWrite: neither
   waits for the read gate.                                                *)
RequestFullRefresh ==
  /\ selection # NoSelection
  /\ CountAction
  /\ Ask(disk[selected])
  /\ UNCHANGED <<folders, current, selection, pending, revision, views, notified, stage>>

(* selectInitializedBundle after an applied initialization.                *)
SelectInitialized(r) ==
  /\ stage["writer"] = Idle
  /\ IsOpen(r)
  /\ CountAction
  /\ Select("write", r, NoRoot)
  /\ UNCHANGED <<folders, stage>>

CommandStep(a) == Discovered(a) \/ Picked(a) \/ Browsed(a) \/ Inspected(a) \/ GiveUp(a)

-------------------------------------------------------------------------------
(* Events: the refresh service, the panel, the disk and the folders *)

(* replaceCurrent, when no command waits for the graph.                    *)
ReplaceCurrent(g) == panel' = IF panel = NoGraph THEN NoGraph ELSE g

(* Mutant of TakePending: an answered command stays registered.            *)
TakeGraphOnly(r) == [pending EXCEPT !["graph"] = NoAction]

(* takePending for both kinds: what is left after a publication for r.     *)
TakePending(r) == [k \in Kinds |-> IF pending[k].root = r THEN NoAction ELSE pending[k]]

(* BundleRuntime.#publish and onRuntimePublish.                            *)
PublishSnapshot ==
  \E v \in 0..MaxDisk :
    LET graph == [root |-> selected, revision |-> revision + 1]
    IN  /\ selected # NoRoot
        /\ v <= disk[selected]
        /\ Show(v)
        /\ revision' = revision + 1
        /\ diagnostics' = revision + 1
        /\ snapshot' = graph
        /\ sidebar' = [state |-> "ready", root |-> selected, revision |-> revision + 1]
        /\ pending' = TakePending(selected)
        /\ notified' = [root |-> selected, failed |-> FALSE]
        /\ IF pending["graph"].root = selected THEN OpenPanel(graph) ELSE ReplaceCurrent(graph)
        /\ UNCHANGED <<folders, current, selection, stage, actions>>

(* Mutant of RefreshFails: the failure is only logged.                     *)
RefreshFailsQuietly ==
  /\ selected # NoRoot
  /\ FailRefresh
  /\ UNCHANGED <<folders, current, selection, pending, revision, views, notified,
                 stage, actions>>

(* The onError callback of the runtime and onRuntimeError.  A publication
   that throws has already counted its revision.                           *)
RefreshFails ==
  /\ selected # NoRoot
  /\ FailRefresh
  /\ revision' \in {revision, revision + 1}
  /\ ClearPublishedState(NoPending)
  /\ notified' = [root |-> selected, failed |-> TRUE]
  /\ sidebar' = [state |-> "unavailable", root |-> selected, revision |-> 0]
  /\ UNCHANGED <<folders, current, selection, stage, actions>>

ClosePanel ==
  /\ panel # NoGraph
  /\ panel' = NoGraph
  /\ UNCHANGED <<viewVars, folders, current, selection, pending, revision, snapshot,
                 diagnostics, sidebar, notified, stage, actions>>

Unseen == UNCHANGED <<folders, current, selection, pending, revision, views,
                      notified, stage, actions>>

ModifyDisk(r) == disk[r] < MaxDisk /\ Modify(r) /\ Unseen

(* A watcher event reports a newer version to the coordinator.             *)
WatcherEvent ==
  /\ selected # NoRoot
  /\ \E v \in 0..MaxDisk : v > floor /\ Ask(v)
  /\ Unseen

(* Mutants of KeepsSelection: a folder that was removed and added again in
   the same event passes for the folder that was there; only the bundle is
   compared, not the folder that authorises reading it.                    *)
SameSelection(r, safety, removed) == selection = [root |-> r, safety |-> safety]

SameBundle(r, safety, removed) == selection.root = r

(* ensureRuntimeSelection of the folder listener returns early: the same
   root and safety root, and the selected safety root was not removed.     *)
KeepsSelection(r, safety, removed) ==
  /\ selection = [root |-> r, safety |-> safety]
  /\ selection.safety \notin removed

(* onDidChangeWorkspaceFolders.  One event may remove a folder and add it
   again; bundleContext.current is undefined while a forced selection waits. *)
ChangeFolders(removed, added) ==
  LET open == (folders \ removed) \cup added
      safety == IF current = NoRoot THEN NoFolder ELSE InnermostFolder(open, current)
  IN  /\ CountAction
      /\ removed \subseteq folders
      /\ added \cap (folders \ removed) = {}
      /\ removed # {} \/ added # {}
      /\ folders' = open
      /\ \/ /\ current = NoRoot /\ selection = NoSelection
            /\ SelectionUnchanged
            /\ UNCHANGED current
         \/ /\ safety # NoFolder
            /\ UNCHANGED current
            /\ IF KeepsSelection(current, safety, removed)
                 THEN SelectionUnchanged
                 ELSE Reselect(current, safety, NoPending)
         \/ /\ safety = NoFolder
            /\ current # NoRoot \/ selection # NoSelection
            /\ current' = NoRoot
            /\ selection' = NoSelection
            /\ ClearPublishedState(NoPending)
            /\ sidebar' = EmptySidebar
            /\ notified' = [root |-> NoRoot, failed |-> FALSE]
            /\ Deselect
            /\ UNCHANGED revision
      /\ UNCHANGED stage

Next ==
  \/ ReadCommand
  \/ WriteCommand
  \/ \E a \in Actors : CommandStep(a)
  \/ RequestFullRefresh
  \/ \E r \in Roots : SelectInitialized(r) \/ ModifyDisk(r)
  \/ PublishSnapshot
  \/ RefreshFails
  \/ ClosePanel
  \/ WatcherEvent
  \/ \E removed, added \in SUBSET Folders : ChangeFolders(removed, added)

Spec == Init /\ [][Next]_vars

(* The coordinator answers what it owes (ViewLive of BundleView); users,
   watchers and workspace folders are free to do nothing.                  *)
FairSpec == Spec /\ WF_vars(PublishSnapshot \/ RefreshFails)

-------------------------------------------------------------------------------
(* Properties *)

(* The runtime watches the root that is recorded as selected, and every
   read is authorised by the innermost folder that is open for that root,
   whatever happened to the folders while a command was waiting.           *)
SelectionAuthorised ==
  /\ selected = selection.root
  /\ selection # NoSelection => selection.safety = SafetyRoot(selection.root)

(* The sidebar, the Problems view and the graph panel show the same revision
   of the selected bundle, or nothing of it: no view keeps the data of an
   earlier selection, of an outage or of an older revision.                *)
ViewsAgree ==
  /\ snapshot # NoGraph => /\ snapshot = [root |-> selected, revision |-> revision]
                           /\ sidebar = [state |-> "ready", root |-> selected,
                                         revision |-> revision]
  /\ sidebar.state = "ready" => snapshot # NoGraph
  /\ sidebar.root = selected
  /\ diagnostics = snapshot.revision
  /\ panel \in {NoGraph, snapshot}

(* A command that waits for a graph or for findings waits on the selected
   bundle, and the refresh it waits for covers the disk as it was when the
   command was given: it cannot be answered from an earlier read.          *)
WaitsForFreshAnswer ==
  \A k \in Kinds : pending[k] # NoAction =>
    /\ pending[k].root = selected
    /\ owed
    /\ pending[k].asked <= floor

(* An outage of the selected bundle is known to the user: it was announced
   since the bundle was last published, and the sidebar still says so.     *)
OutageKnown ==
  shown.kind = "failed" =>
    /\ notified = [root |-> selected, failed |-> TRUE]
    /\ sidebar.state = "unavailable"

(* Nothing that was derived through a folder survives the removal of that
   folder, even if the same event adds it again.                           *)
RemovalForgets ==
  [][ \A removed, added \in SUBSET Folders :
        ChangeFolders(removed, added) /\ selection.safety \in removed =>
          snapshot' = NoGraph /\ panel' = NoGraph ]_vars

(* A command that waits for its graph or its findings is answered, failed
   or superseded.                                                          *)
CommandsAnswered ==
  \A k \in Kinds : pending[k] # NoAction ~> pending[k] = NoAction

(* The sidebar does not stay loading for ever.                             *)
LoadingEnds == sidebar.state = "loading" ~> sidebar.state # "loading"

(* Whoever waits for the coordinator stops waiting: the commands and the   *)
(* sidebar, however bundles, folders and outages change meanwhile.         *)
WaitingEnds == CommandsAnswered /\ LoadingEnds

(* "Commands reuse the current in-memory bundle selection while it remains
   inside an open workspace folder" (ADR 0005, OQ-001): a command that is
   not told to choose again does not search while a bundle is selected and
   no other command is choosing one.                                       *)
CommandsReuseSelection ==
  [][ \A a \in Actors :
        (stage = [b \in Actors |-> Idle] /\ stage'[a].at = "discovering"
           /\ stage'[a].command # "select") => selection = NoSelection ]_vars

===============================================================================
