---------------------------- MODULE ProposalWorkflow ----------------------------
(***************************************************************************)
(* The write commands of the extension: the lease that admits one of them  *)
(* (src/extension/commands/proposal-workflow-scheduler.ts), the workflow   *)
(* that reviews and applies its proposal (run-proposal.ts), the controller *)
(* of the modeless decision (vscode-proposal-decision-controller.ts), the  *)
(* preview (preview/vscode-proposal-previewer.ts), the membership of the   *)
(* workspace folder (workspace/workspaceFolderMembership.ts) and the       *)
(* guarded application (workspace/proposalApplicator.ts and the write of   *)
(* workspace/vscodeWorkspacePort.ts).                                      *)
(*                                                                         *)
(* Each stage is an await of the workflow; everything between two awaits   *)
(* is one action.  A proposal is the sequence of its changes' operations.  *)
(* The content of a target is told apart only as far as the proposal does: *)
(* what the proposal expects, what it proposes, or something else.         *)
(***************************************************************************)
EXTENDS Integers, Sequences

CONSTANTS
  Proposals,     \* bound: the proposals that commands make
  MaxCommands,   \* bound: commands that are admitted
  MaxAttempts,   \* bound: prompts for one decision
  Disturbed      \* bound: other programs change files, and trust changes

ASSUME ProposalsAssumption ==
  \A p \in Proposals : p \in Seq({"create", "update"})
ASSUME BoundsAssumption ==
  MaxCommands \in Nat \ {0} /\ MaxAttempts \in Nat \ {0} /\ Disturbed \in BOOLEAN

VARIABLES
  commands,     \* commands admitted so far; a lease is its number
  lease,        \* #activeLease, or 0
  noticed,      \* #busyNotificationClaimed
  stage,        \* what the workflow that holds the lease awaits
  proposal,     \* its proposal
  files,        \* content of the proposal's targets
  completed,    \* targets that are written and verified, in order
  outcome,      \* its CommandOutcome, once known
  pending,      \* #pending: the command that awaits its decision, or 0
  attempt,      \* pending.promptAttempt
  prompts,      \* notifications that can still be answered, of any command
  notices,      \* busy warnings that offer Review and Cancel, of any command
  reviews,      \* commands whose reviewPending awaits its reveal
  tabs,         \* required preview tabs, as the editor has them
  tabEvent,     \* tab event that is under way to the extension
  expired,      \* requiredTabInvalidated
  released,     \* releaseStarted
  folderOpen,   \* the exact safety root is an open workspace folder
  folderEvent,  \* an event that reports its removal is under way
  session,      \* the captured membership
  trusted,      \* workspace.isTrusted
  disposed,     \* the extension is deactivated
  approved,     \* ghost: Apply was chosen in the newest prompt of this command
  revoked,      \* ghost: the folder was removed or a required tab was closed
  written,      \* ghost: targets of this command that the provider changed
  wrote,        \* ghost: commands that changed a file
  claims,       \* ghost: commands whose error says that nothing was written
  reviewClaims  \* ghost: commands of which a review said so

leaseVars == <<commands, lease, noticed>>
decisionVars == <<pending, attempt, prompts, notices, reviews>>
previewVars == <<tabs, tabEvent, expired, released>>
folderVars == <<folderOpen, folderEvent, session>>
hostVars == <<trusted, disposed>>
ghosts == <<approved, revoked, written, wrote, claims, reviewClaims>>
vars == <<leaseVars, stage, proposal, files, completed, outcome, decisionVars,
          previewVars, folderVars, hostVars, ghosts>>

Stages == {"idle", "planning", "preflight", "opening", "deciding", "preflight2",
           "applying", "guarding", "rechecking", "ancestors", "preparing",
           "checked", "writing", "verifying", "reporting", "closing"}
Outcomes == {"none", "applied", "unchanged", "cancelled", "refused", "failed"}
InLoop == {"ancestors", "preparing", "checked", "writing", "verifying"}

(* Every variable holds a value the extension can store in it, and a change
   that is being applied is one of the proposal.                           *)
TypeOK ==
  /\ commands \in 0..MaxCommands /\ lease \in {0, commands}
  /\ noticed \in BOOLEAN /\ trusted \in BOOLEAN /\ disposed \in BOOLEAN
  /\ stage \in Stages /\ outcome \in Outcomes
  /\ stage = "idle" <=> lease = 0
  /\ proposal \in Proposals \cup {<<>>}
  /\ files \in [DOMAIN proposal -> {"expected", "proposed", "foreign"}]
  /\ completed \in 0..Len(proposal)
  /\ stage \in InLoop => completed < Len(proposal)
  /\ pending \in {0, commands} /\ attempt \in 0..MaxAttempts
  /\ prompts \subseteq [command : 1..MaxCommands, attempt : 1..MaxAttempts]
  /\ notices \subseteq 1..MaxCommands /\ reviews \subseteq 1..MaxCommands
  /\ tabs \in {"none", "bound", "moved", "closed", "reopened"}
  /\ tabEvent \in {"none", "closed", "regrouped"}
  /\ expired \in BOOLEAN /\ released \in BOOLEAN
  /\ folderOpen \in BOOLEAN /\ folderEvent \in BOOLEAN
  /\ session \in {"none", "valid", "invalid"}
  /\ approved \in BOOLEAN /\ revoked \in BOOLEAN
  /\ written \subseteq DOMAIN proposal
  /\ wrote \cup claims \cup reviewClaims \subseteq 1..MaxCommands

Init ==
  /\ commands = 0 /\ lease = 0 /\ noticed = FALSE
  /\ stage = "idle" /\ proposal = <<>> /\ files = <<>> /\ completed = 0
  /\ outcome = "none"
  /\ pending = 0 /\ attempt = 0 /\ prompts = {} /\ notices = {} /\ reviews = {}
  /\ tabs = "none" /\ tabEvent = "none" /\ expired = FALSE /\ released = FALSE
  /\ folderOpen \in BOOLEAN /\ folderEvent = FALSE /\ session = "none"
  /\ trusted \in BOOLEAN /\ disposed = FALSE
  /\ approved = FALSE /\ revoked = FALSE /\ written = {} /\ wrote = {}
  /\ claims = {} /\ reviewClaims = {}

-------------------------------------------------------------------------------
(* Authorization *)

(* isCreateOnlyProposal, for a proposal that has changes.                  *)
CreateOnly == \A i \in DOMAIN proposal : proposal[i] = "create"
HasPreview == tabs # "none"

(* currentProblem of the membership: it was invalidated, or the folder is
   not open now.                                                           *)
FolderProblem == session # "valid" \/ ~folderOpen

(* previewUnavailableProblem, assertActive.                                *)
PreviewProblem == disposed \/ released \/ expired \/ tabs # "bound"

(* writeAuthorizationGuard, and the pairs of checks it repeats.            *)
Authorised == ~FolderProblem /\ (CreateOnly \/ ~PreviewProblem)

(* A check that finds the folder closed invalidates the membership for good,
   which releases the preview; one that misses a tab expires the preview.  *)
Latch ==
  /\ session' = IF session = "valid" /\ ~folderOpen THEN "invalid" ELSE session
  /\ released' = (released \/ (HasPreview /\ session = "valid" /\ ~folderOpen))
  /\ expired' = (expired \/ (HasPreview /\ ~released /\ ~FolderProblem /\ tabs # "bound"))
  /\ UNCHANGED <<tabs, tabEvent, folderOpen, folderEvent>>

-------------------------------------------------------------------------------
(* How a workflow ends *)

SayNothingWritten == claims' = claims \cup {lease}

(* A modal error is shown and awaited with the lease held.                 *)
Report(result) == stage' = "reporting" /\ outcome' = result

(* It says that no files were written.                                     *)
Refuse == Report("refused") /\ SayNothingWritten

(* The report of an application names completed, failed and untouched
   targets; a create-only one without a completed target is summarised.    *)
FailReport ==
  /\ Report("failed")
  /\ IF CreateOnly /\ completed = 0 THEN SayNothingWritten
                                    ELSE UNCHANGED claims

FailUnwritten == Report("failed") /\ SayNothingWritten

(* finally: the preview is disposed and its tabs are being closed.         *)
Close(result) == stage' = "closing" /\ outcome' = result /\ released' = HasPreview

(* The error is dismissed.                                                 *)
DismissError ==
  /\ stage = "reporting"
  /\ Close(outcome)
  /\ UNCHANGED <<leaseVars, proposal, files, completed, decisionVars, tabs, tabEvent,
                 expired, folderVars, hostVars, ghosts>>

(* The tabs are closed, the membership is disposed, the lease is free.     *)
Finish ==
  /\ stage = "closing"
  /\ stage' = "idle" /\ lease' = 0 /\ noticed' = FALSE
  /\ proposal' = <<>> /\ files' = <<>> /\ completed' = 0 /\ outcome' = "none"
  /\ tabs' = "none" /\ tabEvent' = "none" /\ expired' = FALSE /\ released' = FALSE
  /\ session' = "none"
  /\ approved' = FALSE /\ revoked' = FALSE /\ written' = {}
  /\ UNCHANGED <<commands, decisionVars, folderOpen, folderEvent, hostVars, wrote, claims,
                 reviewClaims>>

-------------------------------------------------------------------------------
(* From the command to the preview *)

(* A command while another one holds the lease settles at once; the first of
   them warns, and offers to review or cancel the decision that is pending. *)
RefuseBusy ==
  /\ ~disposed /\ lease # 0
  /\ noticed' = TRUE
  /\ notices' = IF ~noticed /\ pending # 0 THEN notices \cup {pending} ELSE notices
  /\ UNCHANGED <<commands, lease, stage, proposal, files, completed, outcome, pending,
                 attempt, prompts, reviews, previewVars, folderVars, hostVars, ghosts>>

Admit ==
  /\ ~disposed /\ lease = 0
  /\ commands < MaxCommands
  /\ commands' = commands + 1 /\ lease' = commands + 1 /\ noticed' = FALSE
  /\ IF trusted THEN stage' = "planning" /\ UNCHANGED outcome ELSE Report("refused")
  /\ UNCHANGED <<proposal, files, completed, decisionVars, previewVars, folderVars,
                 hostVars, ghosts>>

(* The command ends before it has a proposal: the user cancels an input, or
   the bundle cannot be selected or planned for.                           *)
Abandon ==
  /\ stage = "planning"
  /\ \/ Close("cancelled")
     \/ Report("refused") /\ UNCHANGED released
  /\ UNCHANGED <<leaseVars, proposal, files, completed, decisionVars, tabs, tabEvent,
                 expired, folderVars, hostVars, ghosts>>

(* runProposalWorkflow up to its first await.                              *)
Propose(p) ==
  /\ stage = "planning"
  /\ proposal' = p
  /\ files' = [i \in DOMAIN p |-> "expected"]
  /\ session' = IF trusted /\ p # <<>> /\ folderOpen /\ ~disposed THEN "valid" ELSE "none"
  /\ \/ ~trusted /\ Report("refused") /\ UNCHANGED <<claims, released>>
     \/ trusted /\ p = <<>> /\ Close("unchanged") /\ UNCHANGED claims
     \/ trusted /\ p # <<>> /\ session' = "none" /\ Refuse /\ UNCHANGED released
     \/ session' = "valid" /\ Refuse /\ UNCHANGED released   \* a limit is exceeded
     \/ session' = "valid" /\ stage' = "preflight" /\ UNCHANGED <<outcome, claims, released>>
  /\ UNCHANGED <<leaseVars, completed, decisionVars, tabs, tabEvent, expired, folderOpen,
                 folderEvent, hostVars, approved, revoked, written, wrote,
                 reviewClaims>>

(* preflight: every target is as the proposal expects it.                  *)
PreflightPasses == \A i \in DOMAIN proposal : files[i] = "expected"

FirstPreflight ==
  /\ stage = "preflight"
  /\ \/ FailUnwritten
     \/ /\ PreflightPasses
        /\ UNCHANGED claims
        /\ IF ~CreateOnly THEN stage' = "opening" /\ UNCHANGED outcome
           ELSE IF trusted THEN stage' = "applying" /\ UNCHANGED outcome
                           ELSE Report("refused")
  /\ UNCHANGED <<leaseVars, proposal, files, completed, decisionVars, previewVars,
                 folderVars, hostVars, approved, revoked, written, wrote,
                 reviewClaims>>

(* #prompt: a notification with a number of its own, unless the host throws
   (bound: the last attempt is shown).                                     *)
Prompt(c, number) ==
  /\ attempt' = number
  /\ \/ prompts' = prompts \cup {[command |-> c, attempt |-> number]}
     \/ number < MaxAttempts /\ UNCHANGED prompts

(* The preview is complete; unless the folder was removed meanwhile, the
   decision is requested.                                                  *)
PreviewOpens ==
  /\ stage = "opening" /\ ~disposed
  /\ tabs' = "bound"
  /\ released' = FolderProblem
  /\ session' = IF ~folderOpen THEN "invalid" ELSE session
  /\ IF FolderProblem
       THEN Refuse /\ UNCHANGED <<pending, attempt, prompts>>
       ELSE /\ stage' = "deciding"
            /\ pending' = lease
            /\ Prompt(lease, 1)
            /\ UNCHANGED <<outcome, claims>>
  /\ UNCHANGED <<leaseVars, proposal, files, completed, notices, reviews, tabEvent,
                 expired, folderOpen, folderEvent, hostVars, approved, revoked, written,
                 wrote, reviewClaims>>

PreviewFails ==
  /\ stage = "opening"
  /\ FailUnwritten
  /\ UNCHANGED <<leaseVars, proposal, files, completed, decisionVars, previewVars,
                 folderVars, hostVars, approved, revoked, written, wrote,
                 reviewClaims>>

-------------------------------------------------------------------------------
(* The decision *)

(* The workflow continues with the decision.                               *)
Decided(apply) ==
  IF ~Authorised THEN Latch /\ Refuse
  ELSE /\ UNCHANGED <<claims, tabs, tabEvent, expired, folderVars>>
       /\ \/ ~apply /\ Close("cancelled")
          \/ apply /\ ~trusted /\ Report("refused") /\ UNCHANGED released
          \/ apply /\ trusted /\ stage' = "preflight2" /\ UNCHANGED <<outcome, released>>

NoDecision == UNCHANGED <<stage, outcome, claims, pending, previewVars, folderVars>>

(* Mutant of Settle: whichever decision is pending is taken away, though
   only the promise of c is resolved.                                      *)
SettleAny(c, apply) ==
  /\ pending' = 0
  /\ IF pending = c THEN Decided(apply)
     ELSE UNCHANGED <<stage, outcome, claims, previewVars, folderVars>>

(* #settle of the decision of command c, if it still is the pending one.   *)
Settle(c, apply) ==
  IF pending = c THEN pending' = 0 /\ Decided(apply) ELSE NoDecision

(* Mutant of Newest: an older attempt of the same decision counts.         *)
SameDecision(prompt) == prompt.command = pending

(* The attempt is the newest one of the decision that is pending.          *)
Newest(prompt) == prompt.command = pending /\ prompt.attempt = attempt

(* The user answers a notification, or dismisses or hides it.              *)
Answer(prompt, choice) ==
  /\ prompts' = prompts \ {prompt}
  /\ IF Newest(prompt) /\ choice # "dismiss"
       THEN Settle(prompt.command, choice = "apply")
       ELSE NoDecision
  /\ approved' = (approved \/ (choice = "apply" /\ prompt.command = lease
                                                /\ prompt.attempt = attempt))
  /\ UNCHANGED <<leaseVars, proposal, files, completed, attempt, notices, reviews,
                 hostVars, revoked, written, wrote, reviewClaims>>

(* Bound: the last attempt is not dismissed.                               *)
Choices(prompt) ==
  {"apply", "cancel"} \cup (IF Newest(prompt) /\ attempt = MaxAttempts THEN {} ELSE {"dismiss"})

(* Mutant of BeginReview: an error is shown, and the decision stays pending. *)
ReviewWithoutSettling ==
  /\ NoDecision
  /\ reviews' = IF PreviewProblem THEN reviews ELSE reviews \cup {pending}
  /\ reviewClaims' = IF PreviewProblem THEN reviewClaims \cup {pending} ELSE reviewClaims

(* reviewPending up to its await: the preview is revealed, or the decision
   is settled and an error says that no files were written.                *)
BeginReview ==
  IF PreviewProblem
    THEN /\ Settle(pending, FALSE)
         /\ reviewClaims' = reviewClaims \cup {pending}
         /\ UNCHANGED reviews
    ELSE /\ reviews' = reviews \cup {pending}
         /\ NoDecision
         /\ UNCHANGED reviewClaims

(* Bound: attempts of one decision, and one reveal of it at a time.        *)
CanReview == attempt < MaxAttempts /\ pending \notin reviews

(* The user runs Review Pending Changes.                                   *)
Review ==
  /\ ~disposed /\ pending # 0 /\ CanReview
  /\ BeginReview
  /\ UNCHANGED <<leaseVars, proposal, files, completed, attempt, prompts, notices,
                 hostVars, approved, revoked, written, wrote>>

(* The preview of command c can still be approved once its tabs are rebound
   to what the editor has.                                                 *)
Rebinds == ~released /\ ~expired /\ tabs \in {"moved", "reopened"}
StillActive(c) == c = lease /\ HasPreview /\ (~PreviewProblem \/ (~disposed /\ Rebinds))

(* The reveal settles: a new attempt of the decision that was pending when
   the review began, settled or not, or an error.                          *)
FinishReview(c) ==
  /\ reviews' = reviews \ {c}
  /\ \/ /\ StillActive(c)
        /\ tabs' = "bound"
        /\ Prompt(c, attempt + 1)
        /\ UNCHANGED <<stage, outcome, claims, pending, tabEvent, expired, released,
                       folderVars, reviewClaims>>
     \/ /\ Settle(c, FALSE)
        /\ reviewClaims' = reviewClaims \cup {c}
        /\ UNCHANGED <<attempt, prompts>>
  /\ UNCHANGED <<leaseVars, proposal, files, completed, notices, hostVars, approved,
                 revoked, written, wrote>>

(* The user answers the warning of a refused command; it counts only for the
   decision that it was shown for.                                         *)
AnswerBusy(c, choice) ==
  /\ choice = "review" => CanReview
  /\ notices' = notices \ {c}
  /\ IF pending = c /\ choice = "review" THEN BeginReview
     ELSE /\ IF pending = c /\ choice = "cancel" THEN Settle(c, FALSE) ELSE NoDecision
          /\ UNCHANGED <<reviews, reviewClaims>>
  /\ UNCHANGED <<leaseVars, proposal, files, completed, attempt, prompts, hostVars,
                 approved, revoked, written, wrote>>

-------------------------------------------------------------------------------
(* The guarded application *)

applyUnchanged == <<leaseVars, proposal, decisionVars, hostVars, approved, revoked,
                    reviewClaims>>
awaitUnchanged == <<applyUnchanged, files, completed, written, wrote>>

(* The workflow goes on to an await, with everything else as it is.        *)
Continue(next) ==
  stage' = next /\ UNCHANGED <<outcome, claims, previewVars, folderVars>>

(* It goes on if it is authorised, and is refused otherwise.               *)
Proceed(next) == IF Authorised THEN Continue(next) ELSE Latch /\ Refuse

SecondPreflight ==
  /\ stage = "preflight2"
  /\ \/ FailUnwritten /\ UNCHANGED <<previewVars, folderVars>>
     \/ PreflightPasses /\ Proceed("applying")
  /\ UNCHANGED awaitUnchanged

(* An await of the application finds a problem with the files.             *)
Stop == FailReport /\ UNCHANGED <<previewVars, folderVars>>

(* The preflight of #apply, and the guard up to beforeApply.               *)
ApplyPreflight ==
  /\ stage = "applying"
  /\ Stop \/ (PreflightPasses /\ Proceed("guarding"))
  /\ UNCHANGED awaitUnchanged

(* beforeApply found the bundle writable, or found a problem.              *)
Guard ==
  /\ stage = "guarding"
  /\ Proceed("rechecking") \/ (Latch /\ Refuse)
  /\ UNCHANGED awaitUnchanged

PostGuardPreflight ==
  /\ stage = "rechecking"
  /\ Stop \/ (PreflightPasses /\ Continue("ancestors"))
  /\ UNCHANGED awaitUnchanged

Target == completed + 1

(* Mutant of Unauthorised: an application that has begun is refused.       *)
RefuseAlways == Latch /\ Refuse

(* beforeEachWrite has found a problem: nothing was written, or the report
   says what was.                                                          *)
Unauthorised == Latch /\ IF completed = 0 THEN Refuse ELSE FailReport

(* #freshAncestorFailure, then beforeEachWrite.                            *)
CheckAncestors ==
  /\ stage = "ancestors"
  /\ \/ Stop
     \/ Authorised /\ Continue("preparing")
     \/ ~Authorised /\ Unauthorised
  /\ UNCHANGED awaitUnchanged

(* The port has created the directory of a new file and read the target.   *)
CheckExpected ==
  /\ stage = "preparing"
  /\ Stop \/ (files[Target] = "expected" /\ Continue("checked"))
  /\ UNCHANGED awaitUnchanged

(* Mutant of MayWrite: the workflow's checks are not repeated.             *)
MayWriteUnchecked == TRUE

(* assertAuthorized, in the same turn as the provider call.                *)
MayWrite == Authorised

StartWrite ==
  /\ stage = "checked"
  /\ IF MayWrite THEN Continue("writing") ELSE Latch /\ FailReport
  /\ UNCHANGED awaitUnchanged

(* The provider changes the target.                                        *)
Write(content) ==
  /\ files' = [files EXCEPT ![Target] = content]
  /\ written' = written \cup {Target}
  /\ wrote' = wrote \cup {lease}

(* Mutant of Creatable: the provider is asked to overwrite.                *)
Overwritable == TRUE

(* createFile neither overwrites nor ignores a file that exists.           *)
Creatable == files[Target] = "expected"

(* applyEdit reports whether the file was created.                         *)
CreateSettles ==
  /\ proposal[Target] = "create"
  /\ \/ Creatable /\ Write("proposed") /\ Continue("verifying")
     \/ Stop /\ UNCHANGED <<files, written, wrote>>

(* writeFile replaces what is there; if it fails it may have done nothing,
   all or a part of it.                                                    *)
UpdateSettles ==
  /\ proposal[Target] = "update"
  /\ \/ Write("proposed") /\ Continue("verifying")
     \/ Stop /\ UNCHANGED <<files, written, wrote>>
     \/ Stop /\ \E content \in {"proposed", "foreign"} : Write(content)

WriteSettles ==
  /\ stage = "writing"
  /\ CreateSettles \/ UpdateSettles
  /\ UNCHANGED <<applyUnchanged, completed>>

(* Mutant of LastTarget: one target too many.                              *)
PastTarget == completed = Len(proposal)

LastTarget == Target = Len(proposal)

(* verifyWrittenContent and the boundary after it; the loop goes on.       *)
Verify ==
  /\ stage = "verifying"
  /\ \/ Stop /\ UNCHANGED completed
     \/ /\ files[Target] = "proposed"
        /\ completed' = completed + 1
        /\ IF LastTarget
             THEN Close("applied") /\ UNCHANGED <<claims, tabs, tabEvent, expired, folderVars>>
             ELSE Continue("ancestors")
  /\ UNCHANGED <<applyUnchanged, files, written, wrote>>

-------------------------------------------------------------------------------
(* The editor, the user and other programs *)

environmentUnchanged == <<leaseVars, proposal, files, completed, outcome, stage,
                          decisionVars, hostVars, approved, written, wrote, claims,
                          reviewClaims>>

(* Another program changes a target, or creates it.                        *)
Touch(i) ==
  /\ Disturbed /\ files[i] # "foreign"
  /\ files' = [files EXCEPT ![i] = "foreign"]
  /\ UNCHANGED <<leaseVars, stage, proposal, completed, outcome, decisionVars,
                 previewVars, folderVars, hostVars, ghosts>>

(* The editor changes its tabs; the extension hears of each change before
   the next one.  A tab is closed, opened again from the editor's history,
   or all tab objects are replaced, by ones with the same input or without. *)
ChangeTabs(from, to, event) ==
  /\ tabEvent = "none" /\ ~released
  /\ tabs = from /\ tabs' = to /\ tabEvent' = event
  /\ revoked' = (revoked \/ to = "closed")
  /\ UNCHANGED <<expired, released, folderVars, environmentUnchanged>>

EditorChangesTabs ==
  \/ ChangeTabs("bound", "closed", "closed")
  \/ ChangeTabs("bound", "moved", "regrouped")
  \/ ChangeTabs("bound", "closed", "regrouped")
  \/ ChangeTabs("closed", "reopened", "regrouped")

(* invalidateForExplicitTabChange, rebindAfterHostGroupModelChange.        *)
DeliverTabEvent ==
  /\ tabEvent # "none"
  /\ tabEvent' = "none"
  /\ tabs' = IF tabEvent = "regrouped" /\ Rebinds THEN "bound" ELSE tabs
  /\ expired' = (expired \/ (~released /\ tabs' = "closed"))
  /\ UNCHANGED <<released, folderVars, revoked, environmentUnchanged>>

(* The folder is removed or added; the extension hears of a removal before
   the folders change again.  It may be removed and added by one change.   *)
ChangeFolder ==
  /\ ~folderEvent
  /\ \/ folderOpen /\ folderOpen' \in BOOLEAN /\ folderEvent' = TRUE
     \/ ~folderOpen /\ folderOpen' = TRUE /\ UNCHANGED folderEvent
  /\ revoked' = (revoked \/ (session = "valid" /\ ~folderOpen'))
  /\ UNCHANGED <<session, previewVars, environmentUnchanged>>

(* Mutant of Survives: only the folders that are open now count.           *)
SurvivesReplacement == folderOpen

(* Whether the membership stays valid when its exact folder was removed.   *)
Survives == FALSE

(* handleWorkspaceFoldersChanged; the listener disposes the preview.       *)
DeliverFolderEvent ==
  /\ folderEvent
  /\ folderEvent' = FALSE
  /\ session' = IF session = "valid" /\ ~Survives THEN "invalid" ELSE session
  /\ released' = (released \/ (HasPreview /\ session' = "invalid"))
  /\ revoked' = (revoked \/ session = "valid")
  /\ UNCHANGED <<folderOpen, tabs, tabEvent, expired, environmentUnchanged>>

(* The host disposes the previewer, the controller and the memberships; the
   workflow goes on, and finds its membership disposed.                    *)
Deactivate ==
  /\ ~disposed
  /\ disposed' = TRUE
  /\ session' = IF session = "valid" THEN "invalid" ELSE session
  /\ released' = HasPreview
  /\ revoked' = (revoked \/ session = "valid")
  /\ pending' = 0
  /\ IF pending # 0 THEN Refuse ELSE UNCHANGED <<stage, outcome, claims>>
  /\ UNCHANGED <<leaseVars, proposal, files, completed, attempt, prompts, notices,
                 reviews, tabs, tabEvent, expired, folderOpen, folderEvent, trusted,
                 approved, written, wrote, reviewClaims>>

ChangeTrust ==
  /\ Disturbed /\ trusted' = ~trusted
  /\ UNCHANGED <<leaseVars, stage, proposal, files, completed, outcome, decisionVars,
                 previewVars, folderVars, disposed, ghosts>>

-------------------------------------------------------------------------------

(* Steps that the workflow, the providers and the event loop take.         *)
WorkflowStep ==
  \/ DismissError
  \/ Finish
  \/ Abandon
  \/ \E p \in Proposals : Propose(p)
  \/ FirstPreflight
  \/ PreviewOpens
  \/ PreviewFails
  \/ SecondPreflight
  \/ ApplyPreflight
  \/ Guard
  \/ PostGuardPreflight
  \/ CheckAncestors
  \/ CheckExpected
  \/ StartWrite
  \/ WriteSettles
  \/ Verify

EventStep ==
  \/ \E c \in reviews : FinishReview(c)
  \/ DeliverTabEvent
  \/ DeliverFolderEvent

Decides(prompt) == \E choice \in {"apply", "cancel"} : Answer(prompt, choice)

Next ==
  \/ Admit
  \/ RefuseBusy
  \/ WorkflowStep
  \/ EventStep
  \/ \E prompt \in prompts : \E choice \in Choices(prompt) : Answer(prompt, choice)
  \/ \E c \in notices : \E choice \in {"review", "cancel", "dismiss"} : AnswerBusy(c, choice)
  \/ Review
  \/ \E i \in DOMAIN files : Touch(i)
  \/ EditorChangesTabs
  \/ ChangeFolder
  \/ ChangeTrust
  \/ Deactivate

Spec == Init /\ [][Next]_vars

(* Provider calls and reveals settle, events arrive, modal errors are
   dismissed.  Nobody is obliged to run, answer or review anything.        *)
Fairness ==
  /\ WF_vars(WorkflowStep)
  /\ WF_vars(\E c \in reviews : FinishReview(c))
  /\ WF_vars(DeliverTabEvent)
  /\ WF_vars(DeliverFolderEvent)

HostSpec == Spec /\ Fairness

(* The user answers the newest prompt, and asks for another one while there
   is none.                                                                *)
Diligence ==
  /\ WF_vars(\E prompt \in prompts : Newest(prompt) /\ Decides(prompt))
  /\ WF_vars((\A prompt \in prompts : ~Newest(prompt)) /\ Review)

UserSpec == HostSpec /\ Diligence

-------------------------------------------------------------------------------
(* Properties *)

(* A file is changed only while it is authorised: when a provider call
   starts, the exact folder has stayed open since the proposal was made, the
   host is active and, unless every change creates a file, the user chose
   Apply in the newest prompt of this very proposal and its preview tabs
   have stayed open ever since.  No earlier prompt, busy warning, reopened
   tab or folder that was added again revives an authorization.            *)
WritesAuthorised ==
  [][ stage # "writing" /\ stage' = "writing" =>
        ~revoked /\ folderOpen /\ ~disposed /\ (CreateOnly \/ approved) ]_vars

(* A decision is never lost: a workflow that awaits one is the one that the
   prompts, the status item and the busy warnings decide about.            *)
NoDecisionLost ==
  /\ stage = "deciding" <=> pending # 0
  /\ pending # 0 => pending = lease

(* The outcome is true to the files, however far the application came:
   nothing was written by a command that is refused, cancelled or unchanged;
   everything was written and verified if it is applied; and of a command
   that failed the completed targets were written, the untouched were not. *)
OutcomeTruthful ==
  stage \in {"reporting", "closing"} =>
    /\ outcome \in {"refused", "cancelled", "unchanged"} => written = {}
    /\ outcome = "applied" => written = DOMAIN proposal /\ completed = Len(proposal)
    /\ outcome = "failed" => 1..completed \subseteq written /\ written \subseteq 1..Target

(* A file that another program has put where the proposal creates one is
   never overwritten, whenever it appears.                                 *)
CreatesNeverReplace ==
  [][ \A i \in DOMAIN files :
        proposal[i] = "create" /\ files[i] = "foreign" /\ stage # "planning" /\ stage' # "idle"
          => files'[i] = "foreign" ]_vars

(* The lease is always given back, if the user decides in the end: whichever
   of answers, dismissals, reviews, lost tabs, a removed folder and the end
   of the host come first.                                                 *)
LeaseReturns == \A c \in 1..MaxCommands : lease = c ~> lease # c

(* FR-092: an invalidated preview resolves the workflow, and releases the
   lease, without the user.                                                *)
PreviewLossReleases ==
  \A c \in 1..MaxCommands : lease = c /\ HasPreview /\ (expired \/ released) ~> lease # c

(* A workflow that says that no files were written has written none.       *)
WorkflowClaimsTrue == claims \cap wrote = {}

(* A review that says so is right as well.                                 *)
ReviewClaimsTrue == reviewClaims \cap wrote = {}

===============================================================================
