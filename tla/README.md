# OKF Workbench: specifications, model checking and proofs

TLA+ specifications of OKF Workbench (a VS Code extension in TypeScript, a Rust core and a Rust
command line), with the TLC configurations that check them on small instances and proofs that
TLAPS checks for every instance. `PROJECT.json` lists the components, the runs, the lines each
definition models, the hazards with the properties that cover them, and the theorems. Paths below
are relative to the repository.

## 1. The system and its parts

**Refresh coordinator** (`src/extension/workspace/refreshCoordinator.ts`, `vscodeChangeSource.ts`).
State: the context (one selected bundle), a generation counter, the set of pending changes with
its collapse flag, two timers, the promise and abort controller of the load in flight, a revision
counter. Operations: switch, clear, request, dispose, and the callbacks of the timers, the
watcher and the load. Hard: a load is aborted but settles late; changes arrive while it does; a
burst restarts the debounce. Correct when one load runs at a time, no change is forgotten,
nothing stale is published, and a burst cannot starve the refresh.

**Extension host** (`src/extension/activate.ts`, `runtime/bundleRuntime.ts`,
`workspace/bundleContext.ts`, `sidebar/vscodeSidebar.ts`, `runtimeAvailabilityNotifications.ts`,
`webview/vscodeGraphPanelService.ts`). State: the candidate selection, the runtime selection with
the folder that authorises it, the published snapshot and its views, the commands that wait for
an answer, the outage notification. Operations: the commands (select, validate, graph, refresh,
and the bundle selection of the write commands), publications and errors of the runtime, folder
changes. Hard: a command is several steps separated by awaits; folders change between them.
Correct when the selection is authorised by an open folder, the views agree, and a command is
answered from a read that is not older than the command.

**Graph panel** (`src/extension/webview/graphPanelController.ts`, `src/webview/app.ts`,
`src/shared/protocol/decode.ts`). State: in the host the retained graph, the current delivery, the
post under way and the waiting request; in the page the graph it shows and whether its renderer
works. They exchange messages. Hard: a hidden page is destroyed, posts are lost or settle late,
acknowledgements are stale. Correct when the host believes only its latest delivery, the page is
never ahead, and a request is told once and truthfully.

**Write-proposal workflow** (`src/extension/commands/run-proposal.ts`,
`proposal-workflow-scheduler.ts`, `vscode-proposal-decision-controller.ts`,
`preview/vscode-proposal-previewer.ts`, `workspace/workspaceFolderMembership.ts`,
`workspace/proposalApplicator.ts`, `workspace/vscodeWorkspacePort.ts`). State: the lease, the
pending decision and its prompt attempts, the required preview tabs, the captured folder
membership, the targets written so far. Hard: notifications outlive what they asked about, tabs
and folders change between the approval and each write, writes fail half way. Correct when every
write is authorised at the moment it starts, creates replace nothing, the outcome is true to the
files, and the lease returns.

**Command line** (`crates/okf-cli/src/workspace.rs`, `main.rs`). State: nothing but the file
system; a command reads the bundle through handles that bind its identity, checks the version gate,
plans, and then applies. Hard: several processes, crashes, other programs in the same directory,
and two platforms that protect different things. Correct when a root or a file appears whole or not
at all, nothing of others is touched, what is published is what was planned for what was read,
residue is bounded and reported, and the exit code tells what happened.

**OKF core** (`crates/okf-core`, through `crates/okf-wasm` also in the extension; `src/core` is its
fallback twin in TypeScript). State: none across requests, except one remembered conversion of a
big integer per thread; within a request the limits of the bundle are drawn down document by
document. Operations: parse, validate, graph, indexes, migration, templates. Hard: a failure or a
limit in the middle of a bundle; several derivations of one bundle that must agree; scans of a YAML
header that must agree with a YAML library; planning again over what was planned; paths that are
decoded again. Correct when what is kept is within limits and what is left out is explained, links,
findings and graph tell the same story, a plan settles, and what is rendered reads back.

**The rest**: bundle reading (`runtime/loadBundle.ts`, `workspace/directorySafety.ts`,
`readSafety.ts`, `pathSafety.ts`, `uriCodec.ts`), the planning of each command
(`src/extension/commands/*.ts`), the page's rendering, preview budget, diagnostics publisher,
sidebar model, bundled CLI, acceptance hooks, scripts and tests.

How they interact: watcher events go to the coordinator; it calls the loader and publishes to the
host; the host updates diagnostics, sidebar and panel and answers waiting commands; the panel
controller and the page exchange messages; a write command selects a bundle through the host, runs
the write workflow, and its files come back as watcher events. The command line is a separate
program that shares the core only.

## 2. Modules

| module | models | depends on |
| --- | --- | --- |
| `BundleView` | abstract specification: what the host may rely on of a selected bundle | |
| `RefreshCoordinator` | the refresh coordinator and its change source | refines `BundleView` |
| `Workbench` | the extension host, with `BundleView` in place of the coordinator | extends `BundleView` |
| `GraphDelivery` | the panel controller, the page and their messages | |
| `ProposalWorkflow` | the write workflow from lease to last write | |
| `NoReplacePublication` | abstract specification: what a caller may rely on when a new root is published | |
| `RootPublication` | publication of a missing root by the command line, Linux and macOS | refines `NoReplacePublication` |
| `WindowsPublication` | the same on Windows, where handles deny and nothing is cleaned up | refines `NoReplacePublication` |
| `ManagedText` | managed regions, the version of a root index, generated indexes | |
| `CliCommand` | one run of the command on an existing bundle, from reading to exit code | extends `ManagedText` |
| `BundleParse` | identities, limits, concepts and links of a bundle, document by document | |
| `Provenance` | the provenance fields of a concept, its trust tier and its findings | |
| `BundleInspection` | validation, graph and the requests of the core | extends `BundleParse`, `Provenance` |
| `Migration` | the migration to OKF 0.2: edits, second pass, dry run over the result | |
| `Templates` | rendered concepts, agent files and indexes, and the checks of paths | |
| `FrontmatterText` | the line scans of a YAML header before the library reads it | |
| `FrontmatterValue` | what the library reads, and the JSON value made of it | extends `FrontmatterText` |
| `Frontmatter` | the order of all checks of a header and their outcomes | extends `FrontmatterValue` |
| `RadixDecimal` | big integers: limbs, transform, chunks, and the remembered conversion | |
| `MC*` | values of the constants for TLC | the module they are named after |
| `MCCoreOperations` | one operation of the core per behaviour, for the four pure modules together | `MCMigration`, `MCTemplates`, `MCFrontmatter`, `MCRadixDecimal` |
| `RefreshCoordinatorProofs`, `WorkbenchProofs`, `GraphDeliveryProofs`, `ProposalWorkflowProofs`, `RootPublicationProofs`, `WindowsPublicationProofs`, `CliCommandProofs` | theorems | the module they are named after |
| `CoreProofs` | theorems | `BundleParse`, `BundleInspection`, `Templates` and `Migration` |

One action is what the code does between two points at which something else can run: between two
awaits in TypeScript, around one system call in the command line, one document in a pass over a
bundle. A pure function is an operator, and one action asks for it. Actions and variables carry the
names of the functions and fields they stand for; where two names differ, the comment gives the
code's.

**RefreshCoordinator.** A bundle is a version number per root; `ReadBundle` is the moment a load
reads it, `Settle` is the code after the load's await. The timers count ticks. The changes that
are pending are a set because the code keys them by their whole content.
`floor` and `waited` are history variables: the newest version a request has reported, and how
long unscheduled work has waited.

**BundleView.** A request is owed until an answer that is at least as new as everything reported
is shown. `View` in `RefreshCoordinator` is the refinement mapping: an answer is owed while work is
pending or the load in flight may still be published.

**Workbench.** `stage` holds where each command waits (discovery, quick pick, folder dialog,
inspection); `selection` and `current` are the two selections of the code, which differ while a
choice is pending. The coordinator is `BundleView`, whose implementation is checked and proved.

**GraphDelivery.** `toPage` and `toHost` are the messages under way, `posts` the unsettled
promises. The page is created, loads, shows, fails and is destroyed by actions of the editor.

**ProposalWorkflow.** `stage` is the await of the workflow that holds the lease. `prompts`,
`notices` and `reviews` are the notifications and reveals that can still come back, of whichever
command. Events of tabs and folders are under way before they are delivered, while the checks that
read the editor's state directly see it at once, as in the code.

**RootPublication.** The ancestor is a function from names to objects, an object's identity is its
kind and its creator. `stage` is where each process is; `Crash` stops it at any point with no
guard running; `Create`, `Remove`, `ChangeLeaf` and `MoveAnchor` are other programs.

**NoReplacePublication.** The same promise for both platforms: in one step a free name shows the whole
root (`Publish`), while the planned pathname leads there, or it never shows any of it; who answers
"nothing" has published nothing and will not. Other programs take and vacate names and move the
directory. `Promise` in the two modules below is the refinement mapping: a name shows the tree that
stands at it, `Root(p)` if its files are those of the plan, otherwise `Part(p)`, which no abstract
step can bring about; staging names, reservations and handles are not seen.

**WindowsPublication.** `entries` is the ancestor as before, `leaves` the files of each staged tree.
Whoever holds a handle keeps others away: `HoldsTree` and `HoldsLeaf` say from when to when. There
is no cleanup action because the code has none.

**CliCommand.** `tree` and `bytes` are directories and file contents by identity; a handle is an
identity, so what a name leads to can change while a handle keeps leading to the old object. `run`
is what the command holds in memory. Its steps are the reading of a directory, of a document, the
version gate before and after planning, the staging, the link and the report. `seen` is a ghost: the
directories that the requested path and the names below it led to at some moment since the decision
to apply the plan, so that `Reached` can say where a published file lies although names move while
the handles stay. `Irregular` gives, of the texts of the instance, those that validation objects to
although they parse. `ManagedText` gives what is planned: a body is a sequence of blocks, of which only markers, entries and other text are
told apart.

**BundleParse.** The two passes of `parse_bundle`, one action per document and outcome, the checks
of a document in the order of the code with what stays charged when each fails. `Walk` follows
segments of a path, `ResolveLink` is the classification of a link.

**BundleInspection** and **Provenance** are functions of the parsed bundle, and one request for
them; a reader may add failures of its own between the parse and the answer.

**Migration.** A text is a sequence of lines. `StartPass` checks what a migration requires and renders
the root index, `MigrateConcept` edits one concept at a time, and `CheckPlan` parses the result; the
pass is repeated without citations if it must be. `MigrateAgain` migrates what the first run planned
(`round` 2). Documents that are neither concepts nor the root, such as `log.md`, are parsed with the
others and never edited.

**Templates.** A character of a path carries how often it is percent-encoded, so that decoding is
one step down and a path can be decoded again.

**Frontmatter**, **FrontmatterText**, **FrontmatterValue.** A header is a few lines of an
indentation, dashes, a key and a value. The scans work on these as the code does, line by line;
`Structure` is what YAML makes of the same lines. The properties compare the two.

**RadixDecimal.** The sizes the code fixes are constants, so that the transform, the chunks and the
patching of a remembered result happen with numbers TLC can compute; the reference is arithmetic.

## 3. Runs

| run | what it shows |
| --- | --- |
| `refresh` | one load at a time and never a stale publication (`OneFreshLoad`), no burst held back or piled up (`BurstBounded`), no change lost, the coordinator implements `BundleView`, and every modification of the bundle that stays selected, and every request, is answered |
| `workbench` | two commands between their awaits, folder changes, publications and outages: authorised selection, agreeing views, fresh answers, and waiting ends |
| `graph` | the host believes only its latest delivery, the page is never ahead, the newest graph reaches a page that stays, and a request is not forgotten, told once, truthfully and in the end |
| `proposal_apply` | one command with each kind of proposal under interference: authorised writes, creates that replace nothing, truthful outcome, and the lease is given back |
| `proposal_decision` | two commands, with prompts, reviews and warnings of the first still open during the second: no decision is lost, none reaches the other |
| `publication` | three commands, two for the same root, crash and retry while other programs interfere: whole roots, others kept, residue reserved and known, true reports |
| `windows` | the same race on Windows, with one command asking for the name of the staging directory |
| `cli` | every command, on bundles that another program changes between any two steps, on both platforms: what is published is the planned file where its names led, behind the version gate (`PublishedAsPlanned`), files of others are safe and on Windows the planned path is exact (`FilesSafe`), migrations are planned from what was read and plans settle (`PlanSound`), exit code and report are true (`ExitTruthful`), and validation finds what does not conform (`VerdictSound`) |
| `bundle` | up to three documents out of thirty-one that collide, fail or exceed limits: limits hold of what is retained, what is missing is explained, links are truthful, findings and graph agree, a published graph is whole |
| `core` | a migration and the next one, rendered paths and texts read back, the scans of a header against YAML, and sequences of big integers against arithmetic |

Two runs expect a violation. Each checks one sentence of the documentation against what the code
does:

- `proposal_created`: a create that is applied but whose verification fails is reported with "No
  files were written because creation checks failed."; the environment document wants completed,
  failed and untouched targets reported.
- `header_entries`: FR-022 says the complete frontmatter map is retained. Two keys of one meaning,
  the first of them in the line of a sequence item and opening a mapping below it, pass the scan
  for equal keys (it places the item's mapping one column too far left of its siblings) and the
  YAML library, and the JSON map keeps the last one.

Every property of every passing run has a mutant in `PROJECT.json`: a plausible bug in a mapped
definition that makes TLC refute the property.

### Bounds, and why they are enough

Deadlock is not checked: with nothing to do each of these programs waits, and commands end.

- `RefreshCoordinator`: two roots, one pending path (so both the path limit and the change limit
  are reached with `MCChanges`: the limits are `MaxPendingPaths` paths and as many changes), a
  debounce of one and a latency of two ticks (one restart of the debounce is cut short),
  `MaxGeneration` 3 (at which the user stops acting), `MaxDisk` 2 modifications of each root. The
  safety properties are proved without these bounds.
- `Workbench`: two roots, one of them inside a nested folder, `MaxActions` 3 for commands,
  completions and folder changes together, `MaxDisk` 1. A command can then be overtaken by another
  command, a folder change and an answer.
- `GraphDelivery`: `MaxRevision` 2 and `MaxRequests` 2, so an acknowledgement or a report can be
  about the older one; `MaxPages` 2, so a page is lost once and replaced; `MaxDelivery` 2, which
  stands for the largest safe integer, so that the exhaustion of identities happens. `MaxQueue` 1
  holds the user back while messages wait.
- `ProposalWorkflow`: `Proposals` of at most two targets, which have a completed, a failed and an
  untouched one; `MaxAttempts` 2 and `MaxCommands` 2, so a prompt can be older than the newest and
  can belong to an earlier command. `Disturbed` lets other programs and trust interfere; it is off
  in `proposal_decision`, which is about prompts.
- `RootPublication`: three commands, two for the same root, two files, `MaxMeddling` 2. The commands
  for the same root are interchangeable, so the run uses their symmetry. It checks the refinement of
  `NoReplacePublication` together with what the abstract module does not speak of: reservations and
  the entries of others (`ResidueHandled`). The theorems below hold without these bounds.
- `WindowsPublication`: three commands, two of them with the same root and one asking for the
  staging name itself, two files, `MaxMeddling` 3; symmetry, refinement and theorems as before.
- `CliCommand`: both platforms, bundles of two or three directories (`MCRoots`; the third one holds a
  skill file of an agent), every command of
  `MCCommands` with and without `--apply`, `MaxMeddling` 2 changes by another program (a file that
  is removed and made again needs two), `MaxSegments` 3, which the path of four segments of one `new`
  exceeds, and `MaxDocuments` 2, which a bundle with a concept in its directory exceeds as soon as
  another program adds an index.
- `BundleInspection`: any three of thirty-one documents in `AllDocuments`, which has a document for each
  outcome of each check; the limits (`MCLimit`, `MaxNodes`, `MaxFindings`, `MaxIdentityBytes`,
  `MaxPayloadBytes`) are so small that two or three documents together exceed each of those that
  a mixture can reach. That what is kept is within the limits is proved for any documents.
- `MCCoreOperations`: the inputs are listed in `MCMigration`, `MCTemplates`, `MCFrontmatter` and
  `MCRadixDecimal`. Headers have up to `MaxLines` 5 lines, so that a limit of `MaxNesting` 2 and
  `MaxAliases` 3 is met from both sides; every outcome of `Frontmatter` occurs but the failure of a
  key that the YAML library refuses. Paths are decoded up to `MaxDecodings` 3 times. Big integers use
  `Decimal` 3 in place of 100 and the `Modulus` 193 with transforms of length 16, so that three
  literals in a row pass each branch (short product, transform, chunk, remembered and patched).

### Fairness

- Coordinator: timers fire, watcher events arrive, provider calls settle. No user action is fair.
- Workbench: the coordinator answers what it owes, which is `ViewLive` of `BundleView` and checked
  of the coordinator as part of `ChangesAnswered`.
- Graph: messages arrive or are lost, promises settle, a created page loads.
- Write workflow (`HostSpec`): provider calls and reveals settle, events arrive, modal errors are
  dismissed. `UserSpec` adds a user who answers the newest prompt, or reviews again while there is
  none; without one the documented behaviour is to wait.
- Publication, the command line and the core: none; their properties are safety properties.

## 4. Proofs

Assumptions on the constants are named in the modules that declare them: `RootsAssumption`,
`ChangesAssumption`, `PathsAssumption` (a change names finitely many paths), `LimitsAssumption`
(refresh), `NamesAssumption`, `BoundsAssumption` (publication), `LeavesAssumption`,
`RequestedAssumption` (Windows), `LimitAssumption`, `DocumentAssumption` (bundle: what one document
retains is below the limits of the bundle, as the constants of the code have it, because a document
over its own limits is refused; the order in which documents are sorted is by a number; an adapter
reports one of the `Reasons` of the code, and a document has finitely many links), `ReaderAssumption`
(so does the reader of the bundle),
`UriAssumption` (no document has the placeholder as its URI that stands for one that is not shown),
`GivenPathsAssumption`, `PathLimitsAssumption` (templates: a path is a sequence of marks, and the
limits allow a path of one mark), `BundlesAssumption` and `ReservedAssumption` (migration: a document
is a text, a sequence of lines, or cannot be read, and the path of the root index is a reserved one),
`HoldersAssumption`, `NothingAssumption` (workbench: which folders
hold a root, and that "none" is neither a root nor a folder), the `BoundsAssumption` of the graph
panel, `ProposalsAssumption` and `BoundsAssumption` (write workflow: proposals are sequences of
creates and updates), and of `CliCommand`: `PlatformsAssumption`, `OrderAssumption` (the names are in
one order, each of them once),
`CommandsAssumption` (the parser of arguments refuses a migration without `--check`, and knows no
such flag of `validate` and `graph`; paths are made of names; a template
renders finitely many files, and the one for `AGENTS.md` has one managed region),
`RootsAssumption` (in the bundle to begin with every name leads to something, a file with a name
has a content, and contents are texts; 0, which stands for a link in place of the root, is no
directory) and `WrittenAssumption` (so is what others write). TLC
evaluates all of them. Three theorems have a hypothesis of their own about the documents,
`FilesAreNoDirectories`, `NamesToldApart` and `TitlesUnmarked`, see below.

**RefreshCoordinatorProofs** proves, for every set of roots and changes and every limit,
`TypeOK`, `NoLostChange`, `OneFreshLoad` and `BurstBounded`. `RefreshInvariant` is inductive:
`WorkInv` says that a load is counted exactly while one is outstanding and that retained work
belongs to a context; `IdentityInv` that identities come from the generation counter, so a new
context is nobody's; `VersionInv` that a load which may still be published has read every version
reported so far, which is what makes a stale result unpublishable; `AnswerInv` that work is
pending, or a current load is in flight, or the newest request has its answer; `TimerInv` that both
timers run exactly while unscheduled work waits and that waited and remaining time add up to the
latency. The proof has one step per action. `QueueInv` is a second invariant, about cardinalities:
what is pending is finite, and within its limits or collapsed to a single rescan (`QueueIsBounded`).

At its end the module proves that the coordinator implements `BundleView`
(`CoordinatorImplementsView`): the initial state maps to an initial state, and each action to a
selection, a request, an answer, a modification or a stutter of the view, using the same invariant.

**RootPublicationProofs** proves, for any number of commands, names, files and any amount of
interference, that residue is reserved (`StagingIsReserved`), that reports are true (`ReportsTrue`),
that nothing of others is removed or replaced and what is left behind is known (`ResidueHandled`),
and that the module implements `NoReplacePublication` (`RootImplementsNoReplace`): each of its actions
is a step of the abstract publication or a stutter. The rename is `Publish`, because what was verified
before is still whole and the name is free; the checks after it are `Answer`, as is a failure before
it; preparing, removing and dying are stutters.
`PublicationInvariant` adds to the claimed invariants where a command's tree can be (`TreesInv`,
`PlacementInv`), that a command that is at work finds its reservation unless another program
removed one (`HoldingInv`: this is what makes one reservation per ancestor exclusive), that what
was verified stays so until the rename (`VerifiedInv`), what is known of the outcome at each stage
(`OutcomeInv`), and that a requested name only shows the tree of a command that has published
(`ShownInv`).

**WindowsPublicationProofs** proves `PublicationSafe` and the refinement of `NoReplacePublication`
(`WindowsImplementsNoReplace`) in the same generality. `WindowsInvariant`
says where each command's tree can be (`PlaceInv`), that the tree a command holds is still at the
staging name because its handle denies renames and removals (`HoldingInv`), and that leaves are as
planned from their verification on, except for changes after the release of the handles
(`LeavesInv`), which is the window that remains; `ReportInv` says that a command reports a success
exactly if it has published.

**GraphDeliveryProofs** proves `DeliveryOfGraph` and `PageNeverAhead` for any number of revisions,
commands and messages under way. The second is not inductive: what the page shows next is in
`toPage`, so `DeliveryInvariant` adds that nothing under way is newer than the graph the host retains
(`UnderWayInv`), and that a disposed panel, which retains no graph any more, has no page
(`ClosedInv`). Messages may be lost; they arrive in order.

**WorkbenchProofs** proves `SelectionAuthorised`, `ViewsAgree` and `WaitsForFreshAnswer` for any
folders, bundles and commands. The three are inductive only together (`WorkbenchInvariant`): a
publication takes exactly what waits because whatever waits belongs to the selected root, and a
folder change clears the views before another folder can authorise them. Each action has a lemma,
and the steps of commands share three: the selection of a bundle (`Selects`), the reuse of the
selection (`Continues`) and the cleared views (`Clears`).

**ProposalWorkflowProofs** proves `TypeOK`, `NoDecisionLost`, `OutcomeTruthful`, `WritesAuthorised`
and `CreatesNeverReplace`, for any commands, proposals, numbers of targets and bounds.
`WorkflowInvariant` relates what the workflow knows at each of its awaits: a stage other than idle
holds the lease and only the stage that awaits a decision has one pending (`LeaseInv`); the targets
are those of the proposal (`FilesInv`); up to the target at work what was completed is written and
what comes later is not (`ProgressInv`); a review that awaits its reveal belongs to a command whose
decision was asked for (`DecisionInv`); a preview exists only while a proposal is reviewed, and a
required tab that is not where it was is known to be lost or an event about it is under way
(`PreviewInv`); and an authorization that was revoked is either invalid already or will be refused by
the check before the next write (`AuthorityInv`). The last one is what makes `WritesAuthorised`
provable: the check reads state that callbacks change, so the invariant must say that every such
change is visible to it. The proof has a lemma per action, and frame lemmas for the parts that an
action leaves alone.

**CliCommandProofs** proves `FilesSafe`, `PublishedAsPlanned`, `ExitTruthful` and the two parts of
`PlanSound`, `MigrationFromSnapshot` and `PlanSettles`, for any bundle, any command line, both platforms and any
interference.
`CommandInvariant`: the plan only has changes that change something, and when it is carried out it is one new file (`PlanInv`); the planned root
index is absent or an existing file (`IndexInv`); between the two comparisons of the gate the planned
index cannot be put back in its place, because whatever others put there is a new file, so that it
was in place when its bytes were compared (`GateInv`); the staged file is out of reach of others, on
Unix because it has no name, on Windows because it is held (`StagedInv`); and what was published is
the one planned file, and what is said of it (`ResultInv`). The names of the bundle always lead to
files with a content (`BundleInv`), which is why a fresh file is never one that somebody names.

Where a file is published needs a second invariant, `WayInvariant`. Plans only name paths of the
bundle, below the root that is retained (`FilesInv`, which rests on the paths of the documents that
were read). On Unix each directory is opened or created below the previous one, so that the names
followed so far led, one after the other, from the root to where the walk stands (`Walked`,
`WalkedFurther`); when all are followed the parent was `Reached`, and it stays so however names move
afterwards, because `seen` only grows (`ReachInv`). The root itself was seen when the requested path
was compared with it. On Windows the directories of the path are held from planning on, so that
the names lead through the same ones until the publication (`HeldWay`, `HeldInv`): there
`PublishedWhole` says that the name created is the planned path below the requested one at that very
moment, which on Unix is not so. That a look-up of a path is a way through entries is `WalkLeads`, by
the least number of segments at which it could fail (`LeastOf`), since induction is out of reach.
`ExitTruthful` follows from both invariants: an error leaves no whole report, and a whole report says
"applied" only of the one file that `ReachInv` places.

`VerdictSound` is only model-checked: it speaks of how a whole directory tree is read while it is
changed, which would take an invariant about what was listed, what was read, and what is still below
the listed directories.

`MigrationFromSnapshot` has an invariant of its own (`SnapshotInvariant`). The code compares what it
finds at a target with the document that it read at that path, which is the one the change was
computed from only if no path was read twice (`DocumentsInv`). That other programs move directories
while they are listed is no excuse: any two paths that are to be read, or were read, part at some
name (`ListingInv`), because a listing has each name once (`KthIsOne`, `ListedOnce`) and what is
listed in a directory extends the path that led to it (`DeeperParts`), wherever the directory lies by
then. What waits to be looked at are migrations of such documents (`MigrationInv`). A listing is
written with `Kth` and not with `SelectSeq`, a recursive operator that the provers cannot expand.

`PlanSettles` is about texts. A merge puts the rendered region between what precedes and what
follows the old one, and neither holds a marker (`MergeKeepsRest`, `RegionParts`); in such a text the
markers of the region are the only ones, so the next merge finds the same region again and changes
nothing (`RegionFound`, `MergedAgain`). Every file a plan names therefore settles (`ContentSettles`),
also when it does not exist yet or when the version is inserted beside the region. `SettleInvariant`
carries this through the command: whatever others write, what is read at a target is a text
(`TextsInv`); what was read has a path of the bundle, so that indexes are told apart by their paths
(`PathsInv`, `RenderedApart`); and each change planned so far settles (`ChangesInv`). The hypothesis
`TitlesUnmarked` says that no title puts a marker into an index. The code does not ensure it (see the
known divergences), and with such a title the statement is false. It is a hypothesis about the text
that the fold over the titles returns. The proof also corrected the property: a skill file that
exists is replaced as a whole (`workspace.rs:810`), only `AGENTS.md` and the indexes keep what is
outside their region. `ReadTarget` names the file that it reads, so that the fold of `Lookup` need not
be followed.

**CoreProofs** is about the bundle parser, the inspection, the templates and the migration. It first proves
`RetainedWithinLimits` for any documents and limits. The invariant
itself is nearly inductive; the work is in the order of the checks (`ChecksInOrder`): a document
refused by one of the two link checks keeps the output of its frontmatter charged, which is within
the limit only because the check of the output came before (`DroppedIsBounded`), and a document
that passes all of them adds the types and tags that are new, once (`UnionFits`).

The failures of a bundle are a second invariant (`ReportInvariant`), for `FailuresExplain`: of what
waits nothing is reported (`InputInv`); what is decoded lies, in the order of ranks, between what is
kept and what waits, and has a failure exactly if no more than its identity is known (`DecodedInv`);
a concept without content has a failure of its own and no other has one (`KeptInv`). The order is
needed because a limit of the bundle stops at a document and everything after it must be incomplete.

`LinksTruthful` needs two more parts: the paths are those of the documents that are decoded or kept,
each of them (`PathInv`), and links are resolved by the last step alone, against all of them
(`LinkInv`). It is proved under `FilesAreNoDirectories`: no document of the bundle has the path at
which another one has its directory. A file system cannot break it, and no input of the runs does; a
provider of documents that lists both `a.md` and `a.md/b.md` could, and then the code classifies a
link to `a.md` as one to a directory although it is a concept. Without the hypothesis the statement
is false of the code, which is why it is stated.

`PublishedGraphWhole` follows those documents to the answer. `WholeInv` says that as long as no limit
of the bundle was exceeded, whatever names a place in the bundle still waits, is decoded, or is told
in a concept, a reserved document or a failure (`Accounted`); the parser leaves with nothing under
way, so a parsed bundle is `Complete`. A request adds the failures of its reader, after which the
parser's invariant need not hold any more (a failure may be about a concept that was read), so
`InspectionInvariant` has it only until the request, and afterwards `Complete` and what the answer is
made of (`Answered`). Edges lead back because a link is an edge only if its target is an identifier.

`FindingsAgreeWithGraph` compares two independent derivations. Validation looks for links and
failures per document, the graph per identifier, so the proof needs that each path and each document
is kept once (`ApartInv`): ranks order the documents, and a path is entered once. `Ready` is what a
parsed bundle then offers: concepts are told apart by URI and by identifier, and an internal link
leads to an identifier. Orphans and failures are matched finding by finding (`OrphansFound`,
`FailuresFound`), broken links by two bijections with the numbers of the links (`BrokenCounted`),
after all other findings are shown to have other codes and places (`FindingsByKind`). It is proved
under `NamesToldApart`: no two paths of the bundle differ only in how often they end in `.md`. Of
`a.md` and `a.md.md` the code makes one identifier (see the known divergences), the graph then counts
the broken links of both at each of the two nodes, and the findings do not.

`PathsAlwaysSettled` states `PathsSettled` for every path that is asked for and all limits: what is
rendered is the last spelling, one that the okf command writes and that renders to itself. Segments,
units, trimming and decoding are folds, and what a fold returns is defined by a recursive function.
`FoldExists` proves once that this function exists, by well-founded induction on the sets of positions,
and that it has a value for each prefix; for each fold a lemma of its own (`SegmentsTrace`,
`UnescapeTrace`, `UnitsTrace`, `HeadsCutTrace`, `EndsCutTrace`) turns that into a trace of
intermediate values, and `TraceStays` carries a fact from one of them to the next. On that rest the
facts about paths: decoding ends with a spelling that decoding does not change (`UnescapeSettles`),
and which is its own last spelling (`UnescapeAgain`), so nothing is found out about a rendered path by
decoding it again; a path without slashes at its ends, and without a period as its first segment, is
not trimmed (`SegmentsBegin`, `SegmentsEnd`, `ConfinedIsTrimmed`), so a bundle directory is rendered
to itself. `SettledInvariant` adds only that a request has a path.

`PlansAreSafe` states `PlanSafe` for any texts, dates, limits and reserved paths. Most of the proof is
about texts: a text with a frontmatter has one shape, mark, delimiter, frontmatter, delimiter and body
(`ShapeOf`, `ShapeParts`), and an edit is a splice of the frontmatter alone (`SpliceShape`), so the
body stays and the delimiter is found again. The folds of the module get the traces of `FoldExists`:
`ApplyEdits` is a fold over a set, of which only none, one and two edits occur (`ApplyOne`,
`ApplyTwo`); `Only` splits with a sequence (`OnlyBoth`), so replacing one of the migrated fields leaves
the selection of the others as it was (`KeptSplice`); and the scan for citations collects URLs of
bullets only (`CitedUrls`). `PlanInvariant` says that each file and each result stems from one of the
documents as they are, that a concept is still to do or done, and that the root is rendered first;
`RootLastIs` makes it the last.

`SecondRunsAreEmpty` states `SecondRunEmpty` in the same generality: the second run neither fails nor
renders anything. For one text, a timestamp that was replaced or could not be is not replaced again
(`StampedOnce`), and citations written in a second run give the text that one run with them would have
given (`CitedLater`: the two splices commute). That is needed because the first run may have left the
citations out: the second one tries them, must come to the same bundle that did not parse, and leave
them out again. `RunInvariant` therefore adds to `PlanInvariant` what the whole plan would be
(`WholePlan`, `AppliedWhole`), that citations are left out only if it does not parse with them
(`LeftOut`), that a pass renders what has edits and nothing else (`OnTrack`), and that the second run
starts from documents in which only such citations are left (`SettledDocuments`).

Conventions of the proof modules: string values contain no spaces (the SMT backend cannot encode
them), a step that leaves the ancestor alone is proved through one frame lemma (`StillStep`), and
each action that changes it has a lemma of its own.

**Only model-checked:** everything about liveness and fairness (`ChangesAnswered`, `LeaseReturns`,
the deliveries of the panel), because the provers do not treat `ENABLED`; of the core
`HeaderBounded`, `KeysToldApart` and `IntegersExact`, whose modules declare recursive operators; of
the command `VerdictSound`, for the reason given above; and `RenderedReadsBack`, which has no recursive operator but is about six more folds (titles on one line,
line endings, lists of tags, escaped labels, their reading, and links followed segment by segment):
nothing but the length of the proof stands against it.

## 5. What the models leave out

- The content of files, messages and previews, beyond what the properties tell apart.
- A load of the extension is one read at one moment. The real one reads file by file and compares
  identities before and after; that part is `loadBundle.ts`, see the plan.
- Events about tabs and folders, and messages of one panel, are delivered in the order in which the
  editor produced them. Trust may change in both directions because the code reads it again.
- A preflight reads all targets at the moment it completes. The race between the last comparison of
  an existing target and its write remains in the code and in the model; nothing is claimed there.
- Directories that a write of the extension creates for its target.
- In `RootPublication` the four windows that `docs/implementation-environment.md` excludes from the
  guarantee: `mkdirat` to `openat`, the last verifications to the rename, and the comparison of the
  coordination entry to its unlink. An operating-system failure after `mkdirat` is one outcome for
  all the calls of that phase.
- In `CliCommand` which texts validation objects to, beyond what does not parse and frontmatter where
  none is allowed: a concept without a type, fields beside the version in the root index, headings of
  an index and dates of a log are given with the document (`Irregular`).
- In `CliCommand` the parsing of arguments, the layout of reports, byte limits of a read, and the
  enumeration limits other than the number and the depth of documents.
- In `BundleParse` the Markdown and YAML syntax: which links a body has and what a header means are
  given with the document. `Frontmatter` is about the header, on lines; flow collections and scalars
  of several lines, keys with anchors, and numbers other than integers are not represented.
- The page, the previews, the TypeScript twin of the core (kept equal to the Rust core by the parity
  tests of the repository), build scripts and tests.

### Known divergences

Found while modelling, not covered by a run because each concerns one sentence of the documents or
one corner of a scan; the models do what the code does.

- Commands of the extension: ADR 0005 says commands reuse the selection while its folder stays
  open, but the search for a new choice clears the candidate before it awaits and a cancelled choice
  does not restore it (`activate.ts:538`). FR-092 says that losing the preview releases the lease;
  it only latches (`vscode-proposal-previewer.ts:436`). A review whose reveal fails says "No files
  were written" even if the older prompt was answered with Apply meanwhile
  (`vscode-proposal-decision-controller.ts:95`).
- Identifiers of concepts drop every trailing `.md` (`trim_end_matches`, `parser.rs:588`), where
  FR-021 has the path without its suffix: `a.md.md` and `a.md` have the same identifier
  (`ConceptIdIsPath`).
- The first document that alone exceeds a work limit of the bundle passes, because the limit less
  the cost saturates at zero (`parser.rs:439`; FR-029, `ExcessPreventsPublication`).
- Indexes: a title that contains the end marker breaks the idempotency of FR-045; backquotes in a
  title hide the link; directories without documents of their own get no index. One name that is
  not portable makes the plan of `okf index` fail as a whole on POSIX systems.
- Migration: a header written as a flow mapping with a legacy timestamp fails the plan of the whole
  bundle (FR-079).
- Rendering: control characters above ASCII in a title are not escaped, and a rendered header may
  exceed the limits of the reader (FR-010). One tag that is not a string drops all tags of a concept
  (`parser.rs:1768`).
- Command line: a report that cannot be written after a successful application exits with 2; parent
  directories are created before a publication that is then refused. On Windows a failed publication
  leaves its staging name, which blocks the next one until somebody removes it, and files that
  others put into the staged tree are published with it.
- Findings compare the paths of failures after normalising them (`validation.rs:237`), the graph
  compares them as they are (`graph.rs:462`). The two can only differ for a reader that spells the
  path of a document it also delivered in another way, which the modelled reader does not.
- Scans of a header: a flush sequence under an anchor counts its aliases twice, and a flush sequence
  is not counted as nesting; a comment after a key hides what it holds; `- - name: x` is refused as a
  key that is no string; an empty literal takes the line of the sibling that follows; `0x` without
  digits is the integer 0.

## 6. Plan

Done, in this order: `BundleView` and `RefreshCoordinator` with their proofs and refinement;
`Workbench`; `GraphDelivery`; `ProposalWorkflow`; `RootPublication` with its proofs; the pure parts
of the core (`BundleParse`, `Provenance`, `BundleInspection`, `Migration`, `Templates`,
`Frontmatter*`, `RadixDecimal`); `CliCommand` with `ManagedText`; `WindowsPublication` with its
proofs; the bounded queue of the coordinator, the limits of a bundle, and the safety of
`GraphDelivery` and `Workbench` proved; the safety of `ProposalWorkflow`, of `CliCommand`, of its
migrations and of its merges, and the failures and links of `BundleParse`, proved; the graph and the findings of `BundleInspection`,
proved; `NoReplacePublication` and the proofs that both publications implement it; the paths of
`Templates` proved; the plans of `Migration`, and that a second one is empty, proved.

Next, in order of what could go wrong unseen:

1. `BundleRead`: the bounded, identity-bound enumeration and reading of a bundle in the extension
   (`loadBundle.ts`, `directorySafety.ts`, `readSafety.ts`) while other programs rename and replace;
   abstract specification: a result contains only bytes that some file of the bundle had during the
   read. Cancellation and limits included.
2. The create of `CliCommand` as a third implementation of `NoReplacePublication`, with the staged
   file in place of the tree.
3. `WasmBridge`: the fail-closed state of the adapter after a trap; `GraphPageState`: collapsed
   folders, focus and selection of the page.
4. Composition: `Workbench` with `GraphDelivery` as the panel; `ProposalWorkflow` with the watcher
   events of its writes.
