------------------------- MODULE ProposalWorkflowProofs -------------------------
(***************************************************************************)
(* What the write workflow guarantees for any proposals and any number of  *)
(* commands and prompts: that files change only while they are authorised, *)
(* that a file which appeared is not overwritten by a create, that a       *)
(* decision is not lost, and that the outcome is true to the files.        *)
(***************************************************************************)
EXTENDS ProposalWorkflow, SequenceTheorems, TLAPS

-------------------------------------------------------------------------------
(* The inductive invariant *)

(* Stages that follow the decision, or the preflight if there is none, and
   those at which there is a proposal that is not decided or done yet.     *)
Accepted == {"preflight2", "applying", "guarding", "rechecking"} \cup InLoop
Proposed == {"preflight", "opening", "deciding"} \cup Accepted

(* A workflow is at a stage exactly while its lease is held, and awaits a
   decision exactly while the decision controller has one to take.         *)
LeaseInv ==
  /\ commands \in 0..MaxCommands /\ lease \in {0, commands}
  /\ noticed \in BOOLEAN /\ trusted \in BOOLEAN /\ disposed \in BOOLEAN
  /\ stage \in Stages /\ outcome \in Outcomes
  /\ stage = "idle" <=> lease = 0
  /\ stage \in Proposed => proposal # <<>>
  /\ stage \in InLoop => completed < Len(proposal)
  /\ wrote \cup claims \cup reviewClaims \subseteq 1..MaxCommands
  /\ NoDecisionLost

(* The targets are those of the proposal.                                  *)
FilesInv ==
  /\ proposal \in Proposals \cup {<<>>}
  /\ files \in [DOMAIN proposal -> {"expected", "proposed", "foreign"}]
  /\ completed \in 0..Len(proposal)
  /\ written \subseteq DOMAIN proposal

(* Stages in which nothing is written yet, those of the loop before the
   provider call of the next target settles, and those of the end.         *)
Unwritten == {"idle", "planning", "preflight", "opening", "deciding", "preflight2",
              "applying", "guarding", "rechecking"}
BeforeWrite == {"ancestors", "preparing", "checked", "writing"}
Ending == {"reporting", "closing"}

(* How far the application came, at every stage.                           *)
ProgressInv ==
  /\ stage \notin Ending => outcome = "none"
  /\ stage \in Unwritten => written = {} /\ completed = 0
  /\ stage \in BeforeWrite => written = 1..completed
  /\ stage = "verifying" => written = 1..Target
  /\ OutcomeTruthful

(* Stages before a preview is complete.                                    *)
Unopened == {"idle", "planning", "preflight", "opening"}

(* A review that awaits its reveal is of a command that has had its decision
   requested, and has a number left for the prompt that follows.           *)
DecisionInv ==
  /\ pending \in {0, commands} /\ attempt \in 0..MaxAttempts
  /\ prompts \subseteq [command : 1..MaxCommands, attempt : 1..MaxAttempts]
  /\ reviews \cup notices \subseteq 1..commands
  /\ lease \in reviews => stage \notin Unopened /\ attempt < MaxAttempts

(* A preview exists from its opening to the end of the workflow, and only of
   a proposal that is reviewed.  Required tabs that are not where they were
   are known to be lost, or an event about them is under way.              *)
PreviewInv ==
  /\ tabs \in {"none", "bound", "moved", "closed", "reopened"}
  /\ tabEvent \in {"none", "closed", "regrouped"}
  /\ expired \in BOOLEAN /\ released \in BOOLEAN
  /\ stage \in Unopened => ~HasPreview
  /\ stage = "opening" => ~CreateOnly
  /\ CreateOnly => ~HasPreview
  /\ ~HasPreview => tabEvent = "none" /\ ~expired /\ ~released
  /\ tabs = "reopened" => expired \/ released
  /\ tabs = "closed" => expired \/ released \/ tabEvent # "none"

(* An authorization that was revoked is not valid any more, or the check that
   comes before every write finds why.                                     *)
AuthorityInv ==
  /\ folderOpen \in BOOLEAN /\ folderEvent \in BOOLEAN
  /\ session \in {"none", "valid", "invalid"}
  /\ approved \in BOOLEAN /\ revoked \in BOOLEAN
  /\ stage \in {"idle", "planning"} => session = "none" /\ ~revoked
  /\ session = "valid" => ~disposed /\ (folderOpen \/ folderEvent)
  /\ revoked => session # "valid" \/ ~folderOpen \/ expired \/ released \/ tabs = "closed"
  /\ stage \in Accepted => CreateOnly \/ approved

WorkflowInvariant ==
  LeaseInv /\ FilesInv /\ ProgressInv /\ DecisionInv /\ PreviewInv /\ AuthorityInv


-------------------------------------------------------------------------------
(* What keeps the parts of the invariant *)

(* A proposal has a length, and what is completed is within it.            *)
LEMMA Lengths ==
  ASSUME FilesInv
  PROVE  /\ Len(proposal) \in Nat /\ DOMAIN proposal = 1..Len(proposal)
         /\ completed \in Nat /\ completed <= Len(proposal)
         /\ proposal # <<>> => Len(proposal) > 0
<1>1. proposal \in Seq({"create", "update"})
  BY ProposalsAssumption, EmptySeq DEF FilesInv
<1>2. Len(proposal) \in Nat /\ DOMAIN proposal = 1..Len(proposal)
  BY <1>1, LenProperties
<1>3. proposal # <<>> => Len(proposal) > 0
  BY <1>1, <1>2, EmptySeq
<1>4. QED
  BY <1>2, <1>3 DEF FilesInv

(* The workflow is at another stage, and its decision, if any, as it was.  *)
LEMMA LeaseKept ==
  ASSUME LeaseInv,
         UNCHANGED <<leaseVars, pending, hostVars>>,
         wrote' \subseteq wrote \cup {lease}, claims' \subseteq claims \cup {lease},
         reviewClaims' \subseteq 1..MaxCommands,
         stage' \in Stages, outcome' \in Outcomes,
         stage \notin {"idle", "deciding"}, stage' \notin {"idle", "deciding"},
         stage' \in Proposed => proposal' # <<>>,
         stage' \in InLoop => completed' < Len(proposal')
  PROVE  LeaseInv'
<1>1. lease \in 1..MaxCommands
  BY BoundsAssumption DEF LeaseInv
<1>2. wrote' \cup claims' \cup reviewClaims' \subseteq 1..MaxCommands
  BY <1>1 DEF LeaseInv
<1>3. QED
  BY <1>2 DEF LeaseInv, NoDecisionLost, leaseVars, hostVars

(* The files and what is known of them are as they were.                   *)
LEMMA FilesKept ==
  ASSUME FilesInv, UNCHANGED <<proposal, files, completed, written>>
  PROVE  FilesInv'
BY DEF FilesInv

(* The decision is as it was, and the workflow went on.                    *)
LEMMA DecisionKept ==
  ASSUME DecisionInv, UNCHANGED <<commands, lease, decisionVars>>,
         stage' \in Unopened => stage \in Unopened
  PROVE  DecisionInv'
BY DEF DecisionInv, decisionVars

(* The preview and the folder are as they were, and the workflow went on.  *)
LEMMA AuthorityKept ==
  ASSUME PreviewInv, AuthorityInv,
         UNCHANGED <<previewVars, folderVars, proposal, disposed, revoked>>,
         approved' \in BOOLEAN, approved => approved',
         stage' \in {"idle", "planning", "opening"} => stage' = stage,
         stage' \in Unopened => stage \in Unopened,
         stage' \in Accepted => stage \in Accepted \/ CreateOnly \/ approved'
  PROVE  PreviewInv' /\ AuthorityInv'
BY DEF PreviewInv, AuthorityInv, previewVars, folderVars, HasPreview, CreateOnly

(* The check that failed is remembered by the preview and the membership.  *)
LEMMA LatchKeeps ==
  ASSUME PreviewInv, AuthorityInv, Latch, stage' \in Ending,
         UNCHANGED <<proposal, disposed, revoked>>, approved' \in BOOLEAN
  PROVE  PreviewInv' /\ AuthorityInv'
<1>1. /\ UNCHANGED <<tabs, tabEvent, folderOpen, folderEvent>>
      /\ expired' \in BOOLEAN /\ released' \in BOOLEAN
      /\ session' \in {"none", "valid", "invalid"}
      /\ expired => expired'
      /\ released => released'
      /\ expired' \/ released' => HasPreview
      /\ session' = "valid" => session = "valid" /\ folderOpen
  BY DEF Latch, PreviewInv, AuthorityInv, HasPreview
<1>2. PreviewInv'
  BY <1>1 DEF PreviewInv, HasPreview, CreateOnly, Unopened, Ending
<1>3. AuthorityInv'
  BY <1>1 DEF AuthorityInv, Ending, Accepted, InLoop
<1>4. QED
  BY <1>2, <1>3

(* finally releases the preview, if there is one.                          *)
LEMMA ClosingKeeps ==
  ASSUME PreviewInv, AuthorityInv, stage' = "closing", released' = HasPreview,
         UNCHANGED <<tabs, tabEvent, expired, folderVars, proposal, disposed, revoked>>,
         approved' \in BOOLEAN
  PROVE  PreviewInv' /\ AuthorityInv'
<1>1. released' \in BOOLEAN /\ (released => released')
  BY DEF HasPreview, PreviewInv
<1>2. PreviewInv'
  BY <1>1 DEF PreviewInv, HasPreview, CreateOnly, Unopened
<1>3. AuthorityInv'
  BY <1>1 DEF AuthorityInv, folderVars, Accepted, InLoop
<1>4. QED
  BY <1>2, <1>3

(* A workflow that has written nothing goes on, or ends.                   *)
LEMMA NothingWritten ==
  ASSUME ProgressInv, written' = {}, completed' = 0,
         \/ stage' \in Unwritten \cup {"ancestors"} /\ outcome' = "none"
         \/ stage' \in Ending /\ outcome' \in {"refused", "cancelled", "unchanged", "failed"}
  PROVE  ProgressInv'
<1>1. 1..0 = {}
  OBVIOUS
<1>2. QED
  BY <1>1 DEF ProgressInv, OutcomeTruthful, Unwritten, BeforeWrite, Ending

(* An application stops where it is.                                       *)
LEMMA StoppedThere ==
  ASSUME stage' = "reporting", outcome' = "failed",
         1..completed' \subseteq written', written' \subseteq 1..(completed' + 1)
  PROVE  ProgressInv'
BY DEF ProgressInv, OutcomeTruthful, Unwritten, BeforeWrite, Ending, Target

(* What is written at a stage that is not the last one of the workflow.    *)
LEMMA WrittenSoFar ==
  ASSUME FilesInv, ProgressInv, stage \in Proposed \cup {"planning"}
  PROVE  1..completed \subseteq written /\ written \subseteq 1..Target
<1>1. completed \in Nat
  BY Lengths
<1>2. stage \in Unwritten \cup BeforeWrite \cup {"verifying"}
  BY DEF Proposed, Accepted, InLoop, Unwritten, BeforeWrite
<1>3. QED
  BY <1>1, <1>2 DEF ProgressInv, Target

-------------------------------------------------------------------------------
(* From the command to the preview, and the end of the workflow *)

(* A command is admitted or refused as busy, and a workflow ends, whether a
   proposal was made, an error had to be dismissed, or neither.            *)
LEMMA StartAndEnd ==
  ASSUME WorkflowInvariant,
         \/ Admit \/ RefuseBusy \/ Abandon \/ DismissError \/ Finish
  PROVE  WorkflowInvariant'
<1> USE DEF WorkflowInvariant
<1>1. CASE Admit
  <2> pending = 0 /\ commands \in Nat /\ commands < MaxCommands /\ MaxCommands \in Nat
    BY <1>1, BoundsAssumption DEF Admit, LeaseInv, NoDecisionLost
  <2>1. LeaseInv' /\ DecisionInv'
    <3>1. LeaseInv'
      <4>1. /\ commands' \in 0..MaxCommands /\ lease' = commands' /\ lease' # 0
            /\ noticed' = FALSE /\ pending' = 0
            /\ UNCHANGED <<trusted, disposed, wrote, claims, reviewClaims>>
        BY <1>1 DEF Admit, decisionVars, hostVars, ghosts
      <4>2. stage' \in {"planning", "reporting"} /\ outcome' \in Outcomes
        BY <1>1 DEF Admit, Report, LeaseInv, Outcomes
      <4>3. QED
        BY <4>1, <4>2 DEF LeaseInv, NoDecisionLost, Stages, Proposed, Accepted, InLoop
    <3>2. DecisionInv'
      BY <1>1 DEF Admit, DecisionInv, Unopened, decisionVars
    <3>3. QED
      BY <3>1, <3>2
  <2>2. FilesInv'
    BY <1>1, FilesKept DEF Admit, ghosts
  <2>3. ProgressInv'
    BY <1>1, NothingWritten DEF Admit, Report, ProgressInv, LeaseInv, Unwritten, Ending, ghosts
  <2>4. PreviewInv' /\ AuthorityInv'
    BY <1>1 DEF Admit, Report, LeaseInv, PreviewInv, AuthorityInv, previewVars, folderVars, hostVars, ghosts,
       HasPreview, CreateOnly, Unopened, Accepted, InLoop
  <2>5. QED
    BY <2>1, <2>2, <2>3, <2>4
<1>2. CASE RefuseBusy
  <2>1. LeaseInv'
    BY <1>2 DEF RefuseBusy, LeaseInv, NoDecisionLost, hostVars, ghosts
  <2>2. DecisionInv'
    BY <1>2 DEF RefuseBusy, LeaseInv, DecisionInv
  <2>3. FilesInv'
    BY <1>2, FilesKept DEF RefuseBusy, ghosts
  <2>4. ProgressInv'
    BY <1>2 DEF RefuseBusy, ProgressInv, OutcomeTruthful, Target, ghosts
  <2>5. PreviewInv' /\ AuthorityInv'
    BY <1>2, AuthorityKept DEF RefuseBusy, AuthorityInv, hostVars, ghosts
  <2>6. QED
    BY <2>1, <2>2, <2>3, <2>4, <2>5
<1>3. CASE Abandon
  <2>1. /\ stage = "planning" /\ stage' \in Ending /\ outcome' \in {"cancelled", "refused"}
        /\ \/ stage' = "closing" /\ released' = HasPreview
           \/ stage' = "reporting" /\ UNCHANGED released
        /\ UNCHANGED <<leaseVars, proposal, files, completed, decisionVars, tabs, tabEvent, expired,
                       folderVars, hostVars, ghosts>>
    BY <1>3 DEF Abandon, Close, Report, Ending
  <2>2. LeaseInv'
    BY <2>1, LeaseKept DEF LeaseInv, decisionVars, ghosts, Ending, Stages, Outcomes, Proposed, Accepted, InLoop
  <2>3. FilesInv' /\ DecisionInv'
    BY <2>1, FilesKept, DecisionKept DEF leaseVars, ghosts, Unopened, Ending
  <2>4. ProgressInv'
    BY <2>1, NothingWritten DEF ProgressInv, Unwritten, ghosts
  <2>5. PreviewInv' /\ AuthorityInv'
    <3>1. approved' \in BOOLEAN /\ UNCHANGED <<disposed, revoked, approved>>
      BY <2>1 DEF AuthorityInv, hostVars, ghosts
    <3>2. CASE stage' = "closing" /\ released' = HasPreview
      BY <2>1, <3>1, <3>2, ClosingKeeps
    <3>3. CASE stage' = "reporting" /\ UNCHANGED released
      BY <2>1, <3>1, <3>3, AuthorityKept DEF previewVars, Unopened, Accepted, InLoop
    <3>4. QED
      BY <2>1, <3>2, <3>3
  <2>6. QED
    BY <2>2, <2>3, <2>4, <2>5
<1>4. CASE DismissError
  <2>1. /\ stage = "reporting" /\ stage' = "closing" /\ UNCHANGED outcome /\ released' = HasPreview
        /\ UNCHANGED <<leaseVars, proposal, files, completed, decisionVars, tabs, tabEvent, expired,
                       folderVars, hostVars, ghosts>>
    BY <1>4 DEF DismissError, Close
  <2>2. LeaseInv'
    BY <2>1, LeaseKept DEF LeaseInv, decisionVars, ghosts, Stages, Outcomes, Proposed, Accepted, InLoop
  <2>3. FilesInv' /\ DecisionInv'
    BY <2>1, FilesKept, DecisionKept DEF leaseVars, ghosts, Unopened
  <2>4. ProgressInv'
    BY <2>1 DEF ProgressInv, OutcomeTruthful, Unwritten, BeforeWrite, Ending, Target, ghosts
  <2>5. PreviewInv' /\ AuthorityInv'
    BY <2>1, ClosingKeeps DEF AuthorityInv, hostVars, ghosts
  <2>6. QED
    BY <2>2, <2>3, <2>4, <2>5
<1>5. CASE Finish
  <2>1. LeaseInv'
    BY <1>5 DEF Finish, LeaseInv, NoDecisionLost, Stages, Outcomes, Proposed, Accepted, InLoop, decisionVars,
       hostVars
  <2>2. FilesInv'
    BY <1>5, EmptySeq, LenProperties DEF Finish, FilesInv
  <2>3. DecisionInv'
    BY <1>5 DEF Finish, LeaseInv, DecisionInv, decisionVars
  <2>4. ProgressInv'
    BY <1>5, NothingWritten DEF Finish, Unwritten
  <2>5. PreviewInv' /\ AuthorityInv'
    BY <1>5 DEF Finish, PreviewInv, AuthorityInv, HasPreview, Unopened, Accepted, InLoop
  <2>6. QED
    BY <2>1, <2>2, <2>3, <2>4, <2>5
<1>6. QED
  BY <1>1, <1>2, <1>3, <1>4, <1>5

(* A proposal is made, or the command ends without one.                    *)
LEMMA Proposing ==
  ASSUME WorkflowInvariant, NEW p \in Proposals, Propose(p)
  PROVE  WorkflowInvariant'
<1> USE DEF WorkflowInvariant
<1>1. /\ stage = "planning" /\ proposal' = p /\ files' = [i \in DOMAIN p |-> "expected"]
      /\ UNCHANGED <<leaseVars, completed, decisionVars, tabs, tabEvent, expired, folderOpen,
                     folderEvent, hostVars, approved, revoked, written, wrote, reviewClaims>>
  BY DEF Propose
<1>2. /\ session' \in {"none", "valid"}
      /\ session' = "valid" => trusted /\ p # <<>> /\ folderOpen /\ ~disposed
  BY DEF Propose
<1>3. /\ claims' \in {claims, claims \cup {lease}}
      /\ \/ stage' = "reporting" /\ outcome' = "refused" /\ UNCHANGED released
         \/ stage' = "closing" /\ outcome' = "unchanged" /\ released' = HasPreview
         \/ stage' = "preflight" /\ UNCHANGED <<outcome, released>> /\ session' = "valid"
  BY DEF Propose, Report, Close, Refuse, SayNothingWritten
<1>4. LeaseInv'
  <2>1. /\ stage' \in Stages /\ outcome' \in Outcomes /\ stage' \notin {"idle", "deciding"}
        /\ stage' \in Proposed => proposal' # <<>>
        /\ stage' \notin InLoop
    BY <1>1, <1>2, <1>3 DEF LeaseInv, Stages, Outcomes, Proposed, Accepted, InLoop
  <2>2. QED
    BY <1>1, <1>3, <2>1, LeaseKept DEF LeaseInv, decisionVars
<1>5. FilesInv'
  <2>1. completed = 0 /\ written = {} /\ p \in Seq({"create", "update"})
    BY <1>1, ProposalsAssumption DEF ProgressInv, Unwritten
  <2>2. 0 \in 0..Len(p)
    BY <2>1, LenProperties
  <2>3. QED
    BY <1>1, <2>1, <2>2 DEF FilesInv
<1>6. DecisionInv'
  BY <1>1, DecisionKept DEF leaseVars, Unopened
<1>7. ProgressInv'
  BY <1>1, <1>3, NothingWritten DEF ProgressInv, Unwritten, Ending
<1>8. ~HasPreview /\ ~released /\ ~revoked
  BY <1>1 DEF PreviewInv, AuthorityInv, Unopened
<1>9. PreviewInv'
  BY <1>1, <1>3, <1>8 DEF PreviewInv, HasPreview, Unopened
<1>10. AuthorityInv'
  BY <1>1, <1>2, <1>3, <1>8 DEF AuthorityInv, Accepted, InLoop, hostVars
<1>11. QED
  BY <1>4, <1>5, <1>6, <1>7, <1>9, <1>10

(* An await of the workflow ends with an error that is reported.           *)
LEMMA Reporting ==
  ASSUME WorkflowInvariant, UNCHANGED awaitUnchanged,
         stage \in Accepted \cup {"preflight", "opening"}, stage' = "reporting",
         claims' \subseteq claims \cup {lease},
         outcome' = "failed" \/ (outcome' = "refused" /\ written = {} /\ completed = 0),
         UNCHANGED <<previewVars, folderVars>> \/ Latch
  PROVE  WorkflowInvariant'
<1> USE DEF WorkflowInvariant
<1>1. UNCHANGED <<leaseVars, proposal, files, completed, written, wrote, decisionVars, hostVars,
                  approved, revoked, reviewClaims>>
  BY DEF awaitUnchanged, applyUnchanged
<1>2. LeaseInv'
  BY <1>1, LeaseKept DEF LeaseInv, decisionVars, Stages, Outcomes, Proposed, Accepted, InLoop
<1>3. FilesInv' /\ DecisionInv'
  BY <1>1, FilesKept, DecisionKept DEF leaseVars, Unopened
<1>4. ProgressInv'
  <2>1. CASE outcome' = "failed"
    BY <1>1, <2>1, WrittenSoFar, StoppedThere DEF Proposed, Target
  <2>2. CASE outcome' = "refused" /\ written = {} /\ completed = 0
    BY <1>1, <2>2, NothingWritten DEF Ending
  <2>3. QED
    BY <2>1, <2>2
<1>5. PreviewInv' /\ AuthorityInv'
  <2>1. approved' \in BOOLEAN /\ UNCHANGED <<disposed, approved>>
    BY <1>1 DEF AuthorityInv, hostVars
  <2>2. CASE UNCHANGED <<previewVars, folderVars>>
    BY <1>1, <2>1, <2>2, AuthorityKept DEF Unopened, Accepted, InLoop
  <2>3. CASE Latch
    BY <1>1, <2>1, <2>3, LatchKeeps DEF Ending
  <2>4. QED
    BY <2>2, <2>3
<1>6. QED
  BY <1>2, <1>3, <1>4, <1>5

(* An await of the application ends, and the application goes on.          *)
LEMMA Continuing ==
  ASSUME WorkflowInvariant, UNCHANGED awaitUnchanged,
         NEW next \in Accepted, Continue(next), stage \in Accepted,
         \/ stage \in Unwritten /\ next \in Unwritten \cup {"ancestors"}
         \/ stage \in BeforeWrite /\ next \in BeforeWrite
  PROVE  WorkflowInvariant'
<1> USE DEF WorkflowInvariant
<1>1. /\ UNCHANGED <<leaseVars, proposal, files, completed, written, wrote, decisionVars, hostVars,
                     approved, revoked, reviewClaims>>
      /\ stage' = next /\ UNCHANGED <<outcome, claims, previewVars, folderVars>>
  BY DEF awaitUnchanged, applyUnchanged, Continue
<1>2. LeaseInv'
  <2>1. proposal # <<>> /\ outcome' \in Outcomes /\ next \in Stages
        /\ stage \notin {"idle", "deciding"} /\ next \notin {"idle", "deciding"}
    BY <1>1 DEF LeaseInv, Proposed, Accepted, InLoop, Stages
  <2>2. completed < Len(proposal)
    <3>1. CASE stage \in InLoop
      BY <3>1 DEF LeaseInv
    <3>2. CASE stage \in Unwritten
      BY <2>1, <3>2, Lengths DEF ProgressInv
    <3>3. QED
      BY <3>1, <3>2 DEF InLoop, BeforeWrite
  <2>3. QED
    BY <1>1, <2>1, <2>2, LeaseKept DEF LeaseInv, decisionVars
<1>3. FilesInv' /\ DecisionInv'
  BY <1>1, FilesKept, DecisionKept DEF leaseVars, Unopened, Accepted, InLoop
<1>4. ProgressInv'
  <2>1. CASE stage \in Unwritten /\ next \in Unwritten \cup {"ancestors"}
    BY <1>1, <2>1, NothingWritten DEF ProgressInv, Unwritten, Ending
  <2>2. CASE stage \in BeforeWrite /\ next \in BeforeWrite
    BY <1>1, <2>2 DEF ProgressInv, OutcomeTruthful, Unwritten, BeforeWrite, Ending
  <2>3. QED
    BY <2>1, <2>2
<1>5. PreviewInv' /\ AuthorityInv'
  BY <1>1, AuthorityKept DEF AuthorityInv, hostVars, Unopened, Accepted, InLoop
<1>6. QED
  BY <1>2, <1>3, <1>4, <1>5

(* The preflight of a new proposal, and the opening of its preview.        *)
LEMMA Opening ==
  ASSUME WorkflowInvariant,
         \/ FirstPreflight \/ PreviewOpens \/ PreviewFails
  PROVE  WorkflowInvariant'
<1> USE DEF WorkflowInvariant
<1>1. CASE FirstPreflight
  <2>1. /\ stage = "preflight" /\ written = {} /\ completed = 0 /\ outcome = "none" /\ ~HasPreview
        /\ UNCHANGED <<leaseVars, proposal, files, completed, decisionVars, previewVars, folderVars,
                       hostVars, approved, revoked, written, wrote, reviewClaims>>
    BY <1>1 DEF FirstPreflight, ProgressInv, PreviewInv, Unwritten, Ending, Unopened
  <2>2. /\ claims' \subseteq claims \cup {lease}
        /\ \/ stage' = "reporting" /\ outcome' \in {"failed", "refused"}
           \/ stage' = "opening" /\ outcome' = "none" /\ ~CreateOnly
           \/ stage' = "applying" /\ outcome' = "none" /\ CreateOnly
    BY <1>1, <2>1 DEF FirstPreflight, FailUnwritten, SayNothingWritten, Report
  <2>3. LeaseInv'
    <3>1. /\ stage' \in Stages /\ outcome' \in Outcomes /\ stage' \notin {"idle", "deciding"}
          /\ stage' \notin InLoop /\ proposal # <<>>
      BY <2>1, <2>2 DEF LeaseInv, Stages, Outcomes, InLoop, Proposed
    <3>2. QED
      BY <2>1, <2>2, <3>1, LeaseKept DEF LeaseInv, decisionVars
  <2>4. FilesInv' /\ DecisionInv'
    BY <2>1, <2>2, FilesKept, DecisionKept DEF leaseVars, Unopened
  <2>5. ProgressInv'
    BY <2>1, <2>2, NothingWritten DEF Unwritten, Ending
  <2>6. PreviewInv'
    BY <2>1, <2>2 DEF PreviewInv, HasPreview, CreateOnly, previewVars, Unopened
  <2>7. AuthorityInv'
    BY <2>1, <2>2 DEF AuthorityInv, CreateOnly, previewVars, folderVars, hostVars, Accepted, InLoop
  <2>8. QED
    BY <2>3, <2>4, <2>5, <2>6, <2>7
<1>2. CASE PreviewOpens
  <2>1. /\ stage = "opening" /\ ~CreateOnly /\ ~HasPreview /\ outcome = "none"
        /\ written = {} /\ completed = 0 /\ lease # 0 /\ lease \notin reviews
        /\ tabEvent = "none" /\ ~expired /\ ~disposed
        /\ tabs' = "bound" /\ released' = FolderProblem
        /\ session' = IF ~folderOpen THEN "invalid" ELSE session
        /\ UNCHANGED <<leaseVars, proposal, files, completed, notices, reviews, tabEvent, expired,
                       folderOpen, folderEvent, hostVars, approved, revoked, written, wrote, reviewClaims>>
    BY <1>2 DEF PreviewOpens, LeaseInv, ProgressInv, PreviewInv, DecisionInv, Unwritten, Ending, Unopened
  <2>2. \/ /\ stage' = "reporting" /\ outcome' = "refused" /\ claims' = claims \cup {lease}
           /\ UNCHANGED <<pending, attempt, prompts>>
        \/ /\ stage' = "deciding" /\ pending' = lease /\ UNCHANGED <<outcome, claims>>
           /\ attempt' = 1
           /\ prompts' \subseteq prompts \cup {[command |-> lease, attempt |-> 1]}
    BY <1>2 DEF PreviewOpens, Refuse, Report, SayNothingWritten, Prompt
  <2>3. /\ lease = commands /\ lease \in 1..MaxCommands /\ 1 \in 1..MaxAttempts /\ MaxAttempts \in Nat
    BY <2>1, BoundsAssumption DEF LeaseInv
  <2>4. LeaseInv'
    <3>1. claims' \subseteq 1..MaxCommands
      BY <2>2, <2>3 DEF LeaseInv
    <3>2. pending = 0 /\ proposal # <<>>
      BY <2>1 DEF LeaseInv, NoDecisionLost, Proposed
    <3>3. QED
      BY <2>1, <2>2, <3>1, <3>2 DEF LeaseInv, NoDecisionLost, leaseVars, hostVars, Stages, Outcomes,
         Proposed, Accepted, InLoop
  <2>5. FilesInv'
    BY <2>1, FilesKept
  <2>6. ProgressInv'
    BY <2>1, <2>2, NothingWritten DEF Unwritten, Ending
  <2>7. DecisionInv'
    <3>1. prompts' \subseteq [command : 1..MaxCommands, attempt : 1..MaxAttempts]
      BY <2>2, <2>3 DEF DecisionInv
    <3>2. pending' \in {0, commands} /\ attempt' \in 0..MaxAttempts
      BY <2>2, <2>3 DEF DecisionInv
    <3>3. QED
      BY <2>1, <3>1, <3>2 DEF DecisionInv, leaseVars
  <2>8. PreviewInv'
    BY <2>1, <2>2 DEF PreviewInv, HasPreview, CreateOnly, FolderProblem, Unopened
  <2>9. AuthorityInv'
    BY <2>1, <2>2 DEF AuthorityInv, PreviewInv, FolderProblem, HasPreview, hostVars, Accepted, InLoop
  <2>10. QED
    BY <2>4, <2>5, <2>6, <2>7, <2>8, <2>9
<1>3. CASE PreviewFails
  <2>1. /\ stage = "opening" /\ stage' = "reporting" /\ outcome' = "failed"
        /\ claims' = claims \cup {lease} /\ UNCHANGED awaitUnchanged /\ UNCHANGED <<previewVars, folderVars>>
    BY <1>3 DEF PreviewFails, FailUnwritten, Report, SayNothingWritten, awaitUnchanged, applyUnchanged
  <2>2. QED
    BY <2>1, Reporting
<1>4. QED
  BY <1>1, <1>2, <1>3

-------------------------------------------------------------------------------
(* The guarded application *)

(* An await before the provider call: its files or its authorization are
   found wanting, or the application goes on.                              *)
LEMMA Awaiting ==
  ASSUME WorkflowInvariant,
         \/ SecondPreflight \/ ApplyPreflight \/ Guard \/ PostGuardPreflight
         \/ CheckAncestors \/ CheckExpected \/ StartWrite
  PROVE  WorkflowInvariant'
<1>1. UNCHANGED awaitUnchanged
  BY DEF SecondPreflight, ApplyPreflight, Guard, PostGuardPreflight, CheckAncestors, CheckExpected, StartWrite
<1>2. stage \in Accepted
  BY DEF SecondPreflight, ApplyPreflight, Guard, PostGuardPreflight, CheckAncestors, CheckExpected, StartWrite,
     Accepted, InLoop
<1>3. ASSUME Stop PROVE WorkflowInvariant'
  <2>1. /\ stage' = "reporting" /\ outcome' = "failed" /\ UNCHANGED <<previewVars, folderVars>>
        /\ claims' \subseteq claims \cup {lease}
    BY <1>3 DEF Stop, FailReport, Report, SayNothingWritten
  <2>2. QED
    BY <1>1, <1>2, <2>1, Reporting
<1>4. ASSUME Latch, Refuse, stage \in Unwritten \/ completed = 0 PROVE WorkflowInvariant'
  <2>1. written = {} /\ completed = 0
    <3>1. CASE stage \in Unwritten
      BY <3>1 DEF WorkflowInvariant, ProgressInv
    <3>2. CASE stage \notin Unwritten
      <4>1. completed = 0 /\ stage \in BeforeWrite
        BY <1>2, <1>4, <3>2 DEF SecondPreflight, ApplyPreflight, Guard, PostGuardPreflight, CheckAncestors,
           CheckExpected, StartWrite, Unwritten, BeforeWrite
      <4>2. written = 1..0
        BY <4>1 DEF WorkflowInvariant, ProgressInv
      <4>3. QED
        BY <4>1, <4>2
    <3>3. QED
      BY <3>1, <3>2
  <2>2. stage' = "reporting" /\ outcome' = "refused" /\ claims' = claims \cup {lease}
    BY <1>4 DEF Refuse, Report, SayNothingWritten
  <2>3. QED
    BY <1>1, <1>2, <1>4, <2>1, <2>2, Reporting
<1>5. ASSUME Latch, FailReport PROVE WorkflowInvariant'
  <2>1. stage' = "reporting" /\ outcome' = "failed" /\ claims' \subseteq claims \cup {lease}
    BY <1>5 DEF FailReport, Report, SayNothingWritten
  <2>2. QED
    BY <1>1, <1>2, <1>5, <2>1, Reporting
<1>6. ASSUME NEW next \in Accepted, Continue(next),
             \/ stage \in Unwritten /\ next \in Unwritten \cup {"ancestors"}
             \/ stage \in BeforeWrite /\ next \in BeforeWrite
      PROVE  WorkflowInvariant'
  BY <1>1, <1>2, <1>6, Continuing
<1>7. CASE SecondPreflight
  <2>1. CASE FailUnwritten /\ UNCHANGED <<previewVars, folderVars>>
    <3>1. /\ stage' = "reporting" /\ outcome' = "failed" /\ claims' = claims \cup {lease}
      BY <2>1 DEF FailUnwritten, Report, SayNothingWritten
    <3>2. QED
      BY <1>1, <1>2, <2>1, <3>1, Reporting
  <2>2. CASE Proceed("applying")
    BY <1>4, <1>6, <1>7, <2>2 DEF SecondPreflight, Proceed, Accepted, Unwritten
  <2>3. QED
    BY <1>7, <2>1, <2>2 DEF SecondPreflight
<1>8. CASE ApplyPreflight
  BY <1>3, <1>4, <1>6, <1>8 DEF ApplyPreflight, Proceed, Accepted, Unwritten
<1>9. CASE Guard
  BY <1>4, <1>6, <1>9 DEF Guard, Proceed, Accepted, Unwritten
<1>10. CASE PostGuardPreflight
  BY <1>3, <1>6, <1>10 DEF PostGuardPreflight, Accepted, InLoop, Unwritten
<1>11. CASE CheckAncestors
  BY <1>3, <1>4, <1>5, <1>6, <1>11 DEF CheckAncestors, Unauthorised, Accepted, InLoop, BeforeWrite
<1>12. CASE CheckExpected
  BY <1>3, <1>6, <1>12 DEF CheckExpected, Accepted, InLoop, BeforeWrite
<1>13. CASE StartWrite
  BY <1>5, <1>6, <1>13 DEF StartWrite, Accepted, InLoop, BeforeWrite
<1>14. QED
  BY <1>7, <1>8, <1>9, <1>10, <1>11, <1>12, <1>13

(* The provider call settles: the target is changed or it is not.          *)
LEMMA Writing ==
  ASSUME WorkflowInvariant, WriteSettles
  PROVE  WorkflowInvariant'
<1> USE DEF WorkflowInvariant
<1>1. /\ stage = "writing" /\ written = 1..completed /\ proposal # <<>>
      /\ UNCHANGED <<leaseVars, proposal, decisionVars, hostVars, approved, revoked, reviewClaims, completed>>
      /\ UNCHANGED <<previewVars, folderVars>>
  BY DEF WriteSettles, CreateSettles, UpdateSettles, Continue, Stop, applyUnchanged, ProgressInv, BeforeWrite,
     LeaseInv, Proposed, Accepted, InLoop
<1>2. /\ \/ UNCHANGED <<files, written, wrote>>
         \/ \E content \in {"proposed", "foreign"} : Write(content)
      /\ \/ stage' = "reporting" /\ outcome' = "failed" /\ claims' \subseteq claims \cup {lease}
         \/ stage' = "verifying" /\ UNCHANGED <<outcome, claims>> /\ Write("proposed")
  BY DEF WriteSettles, CreateSettles, UpdateSettles, Continue, Stop, FailReport, Report, SayNothingWritten
<1>3. /\ completed \in Nat /\ Target = completed + 1 /\ completed < Len(proposal)
      /\ DOMAIN proposal = 1..Len(proposal) /\ Len(proposal) \in Nat
  BY <1>1, Lengths DEF Target, LeaseInv, InLoop
<1>4. LeaseInv'
  <2>1. /\ stage' \in Stages /\ outcome' \in Outcomes /\ stage' \notin {"idle", "deciding"}
        /\ wrote' \subseteq wrote \cup {lease} /\ claims' \subseteq claims \cup {lease}
    BY <1>2 DEF Write, LeaseInv, Stages, Outcomes
  <2>2. QED
    BY <1>1, <1>3, <2>1, LeaseKept DEF LeaseInv, decisionVars
<1>5. written' \in {1..completed, 1..Target}
  <2>1. (1..completed) \cup {completed + 1} = 1..(completed + 1)
    BY <1>3
  <2>2. QED
    BY <1>1, <1>2, <1>3, <2>1 DEF Write
<1>6. FilesInv'
  <2>1. files' \in [DOMAIN proposal -> {"expected", "proposed", "foreign"}]
    <3>1. ASSUME NEW content \in {"proposed", "foreign"}, Write(content)
          PROVE  files' \in [DOMAIN proposal -> {"expected", "proposed", "foreign"}]
      BY <3>1 DEF Write, FilesInv
    <3>2. QED
      BY <1>2, <3>1 DEF FilesInv
  <2>2. written' \subseteq DOMAIN proposal
    BY <1>3, <1>5
  <2>3. QED
    BY <1>1, <2>1, <2>2 DEF FilesInv
<1>7. ProgressInv'
  <2>1. CASE stage' = "reporting" /\ outcome' = "failed"
    <3>1. 1..completed' \subseteq written' /\ written' \subseteq 1..(completed' + 1)
      BY <1>1, <1>3, <1>5
    <3>2. QED
      BY <2>1, <3>1, StoppedThere
  <2>2. CASE stage' = "verifying" /\ UNCHANGED outcome /\ Write("proposed")
    <3>1. written' = 1..(completed + 1)
      BY <1>1, <1>3, <2>2 DEF Write
    <3>2. QED
      BY <1>1, <2>2, <3>1 DEF ProgressInv, OutcomeTruthful, Unwritten, BeforeWrite, Ending, Target
  <2>3. QED
    BY <1>2, <2>1, <2>2
<1>8. DecisionInv'
  BY <1>1, <1>2, DecisionKept DEF leaseVars, Unopened
<1>9. PreviewInv' /\ AuthorityInv'
  BY <1>1, <1>2, AuthorityKept DEF AuthorityInv, hostVars, Unopened, Accepted, InLoop
<1>10. QED
  BY <1>4, <1>6, <1>7, <1>8, <1>9

(* What was written is read back; the application goes on or is done.      *)
LEMMA Verifying ==
  ASSUME WorkflowInvariant, Verify
  PROVE  WorkflowInvariant'
<1> USE DEF WorkflowInvariant
<1>1. /\ stage = "verifying" /\ written = 1..Target /\ outcome = "none"
      /\ UNCHANGED <<leaseVars, proposal, decisionVars, hostVars, approved, revoked, reviewClaims,
                     files, written, wrote>>
  BY DEF Verify, applyUnchanged, ProgressInv, Ending
<1>2. /\ completed \in Nat /\ Target = completed + 1 /\ completed < Len(proposal)
      /\ DOMAIN proposal = 1..Len(proposal) /\ Len(proposal) \in Nat
  BY <1>1, Lengths DEF Target, LeaseInv, InLoop
<1>3. CASE Stop /\ UNCHANGED completed
  <2>1. /\ stage' = "reporting" /\ outcome' = "failed" /\ UNCHANGED <<previewVars, folderVars>>
        /\ claims' \subseteq claims \cup {lease}
    BY <1>3 DEF Stop, FailReport, Report, SayNothingWritten
  <2>2. UNCHANGED awaitUnchanged /\ stage \in Accepted
    BY <1>1, <1>3 DEF awaitUnchanged, applyUnchanged, Accepted, InLoop
  <2>3. QED
    BY <2>1, <2>2, Reporting
<1>4. CASE completed' = completed + 1 /\ ~LastTarget /\ Continue("ancestors")
  <2>1. stage' = "ancestors" /\ UNCHANGED <<outcome, claims, previewVars, folderVars>>
    BY <1>4 DEF Continue
  <2>2. completed' < Len(proposal) /\ proposal # <<>>
    <3>1. completed + 1 # Len(proposal)
      BY <1>2, <1>4 DEF LastTarget
    <3>2. completed + 1 < Len(proposal)
      <4>1. \A m, n \in Nat : m < n /\ m + 1 # n => m + 1 < n
        OBVIOUS
      <4>2. QED
        BY <1>2, <3>1, <4>1
    <3>3. completed' < Len(proposal)
      BY <1>4, <3>2
    <3>4. proposal # <<>>
      BY <1>1 DEF LeaseInv, Proposed, Accepted, InLoop
    <3>5. QED
      BY <3>3, <3>4
  <2>3. LeaseInv'
    BY <1>1, <2>1, <2>2, LeaseKept DEF LeaseInv, decisionVars, Stages
  <2>4. FilesInv'
    BY <1>1, <1>2, <1>4, <2>2 DEF FilesInv
  <2>5. ProgressInv'
    BY <1>1, <1>2, <1>4, <2>1 DEF ProgressInv, OutcomeTruthful, Unwritten, BeforeWrite, Ending
  <2>6. DecisionInv'
    BY <1>1, <2>1, DecisionKept DEF leaseVars, Unopened
  <2>7. PreviewInv' /\ AuthorityInv'
    BY <1>1, <2>1, AuthorityKept DEF AuthorityInv, hostVars, Unopened, Accepted, InLoop
  <2>8. QED
    BY <2>3, <2>4, <2>5, <2>6, <2>7
<1>5. CASE /\ completed' = completed + 1 /\ LastTarget /\ Close("applied")
           /\ UNCHANGED <<claims, tabs, tabEvent, expired, folderVars>>
  <2>1. stage' = "closing" /\ outcome' = "applied" /\ released' = HasPreview
    BY <1>5 DEF Close
  <2>2. completed' = Len(proposal)
    BY <1>2, <1>5 DEF LastTarget
  <2>3. LeaseInv'
    BY <1>1, <1>5, <2>1, LeaseKept DEF LeaseInv, decisionVars, Stages, Outcomes, Proposed, Accepted, InLoop
  <2>4. FilesInv'
    BY <1>1, <1>2, <2>2 DEF FilesInv
  <2>5. ProgressInv'
    BY <1>1, <1>2, <1>5, <2>1, <2>2 DEF ProgressInv, OutcomeTruthful, LastTarget, Unwritten, BeforeWrite, Ending
  <2>6. DecisionInv'
    BY <1>1, <2>1, DecisionKept DEF leaseVars, Unopened
  <2>7. PreviewInv' /\ AuthorityInv'
    BY <1>1, <1>5, <2>1, ClosingKeeps DEF AuthorityInv, hostVars
  <2>8. QED
    BY <2>3, <2>4, <2>5, <2>6, <2>7
<1>6. QED
  BY <1>3, <1>4, <1>5 DEF Verify

-------------------------------------------------------------------------------
(* The decision *)

(* The user, a review or the end of the host settles the pending decision. *)
LEMMA Settling ==
  ASSUME WorkflowInvariant, NEW apply \in BOOLEAN, pending # 0, pending' = 0, Decided(apply),
         UNCHANGED <<leaseVars, proposal, files, completed, attempt, hostVars, revoked, written, wrote>>,
         prompts' \subseteq prompts, notices' \subseteq notices, reviews' \subseteq reviews,
         reviewClaims' \subseteq 1..MaxCommands,
         approved' \in BOOLEAN, approved => approved', apply => approved'
  PROVE  WorkflowInvariant'
<1> USE DEF WorkflowInvariant
<1>1. /\ stage = "deciding" /\ outcome = "none" /\ written = {} /\ completed = 0
      /\ lease # 0 /\ proposal # <<>>
  BY DEF LeaseInv, NoDecisionLost, ProgressInv, Unwritten, Ending, Proposed
<1>2. /\ claims' \subseteq claims \cup {lease}
      /\ \/ stage' = "preflight2" /\ outcome' = "none" /\ apply
         \/ stage' = "reporting" /\ outcome' = "refused"
         \/ stage' = "closing" /\ outcome' = "cancelled"
  BY <1>1 DEF Decided, Refuse, Report, SayNothingWritten, Close
<1>3. LeaseInv'
  <2>1. lease \in 1..MaxCommands /\ claims' \subseteq 1..MaxCommands
    BY <1>1, <1>2, BoundsAssumption DEF LeaseInv
  <2>2. /\ stage' \in {"preflight2", "reporting", "closing"}
        /\ outcome' \in Outcomes
    BY <1>2 DEF Outcomes
  <2>3. /\ UNCHANGED <<commands, lease, noticed, trusted, disposed, proposal, wrote>> /\ pending' = 0
    BY DEF leaseVars, hostVars
  <2>4. QED
    BY <1>1, <2>1, <2>2, <2>3 DEF LeaseInv, NoDecisionLost, Stages, Proposed, Accepted, InLoop
<1>4. FilesInv'
  BY FilesKept
<1>5. ProgressInv'
  BY <1>1, <1>2, NothingWritten DEF Unwritten, Ending
<1>6. DecisionInv'
  BY <1>2 DEF DecisionInv, leaseVars, Unopened
<1>7. PreviewInv' /\ AuthorityInv'
  <2>1. UNCHANGED disposed
    BY DEF hostVars
  <2>2. CASE Latch /\ stage' = "reporting"
    BY <2>1, <2>2, LatchKeeps DEF Ending
  <2>3. CASE /\ UNCHANGED <<tabs, tabEvent, expired, folderVars>>
             /\ stage' = "closing" /\ released' = HasPreview
    BY <2>1, <2>3, ClosingKeeps
  <2>4. CASE /\ UNCHANGED <<tabs, tabEvent, expired, folderVars, released>>
             /\ stage' = "reporting" \/ (stage' = "preflight2" /\ apply)
    BY <2>1, <2>4, AuthorityKept DEF previewVars, Unopened, Accepted, InLoop
  <2>5. QED
    BY <2>2, <2>3, <2>4 DEF Decided, Refuse, Report, Close
<1>8. QED
  BY <1>3, <1>4, <1>5, <1>6, <1>7

(* What does not settle the decision: prompts, warnings and reviews come
   and go.                                                                 *)
LEMMA Undecided ==
  ASSUME WorkflowInvariant, NoDecision,
         UNCHANGED <<leaseVars, proposal, files, completed, hostVars, revoked, written, wrote>>,
         reviewClaims' \subseteq 1..MaxCommands,
         approved' \in BOOLEAN, approved => approved',
         DecisionInv'
  PROVE  WorkflowInvariant'
<1> USE DEF WorkflowInvariant
<1>1. UNCHANGED <<stage, outcome, claims, pending, previewVars, folderVars>>
  BY DEF NoDecision
<1>2. LeaseInv'
  BY <1>1 DEF LeaseInv, NoDecisionLost, leaseVars, hostVars
<1>3. FilesInv'
  BY FilesKept
<1>4. ProgressInv'
  BY <1>1 DEF ProgressInv, OutcomeTruthful, Target
<1>5. PreviewInv' /\ AuthorityInv'
  BY <1>1, AuthorityKept DEF hostVars
<1>6. QED
  BY <1>2, <1>3, <1>4, <1>5

(* A prompt with the next number, or none because the host throws.         *)
LEMMA Prompting ==
  ASSUME LeaseInv, DecisionInv, NEW c \in 1..MaxCommands, NEW number \in 1..MaxAttempts,
         Prompt(c, number)
  PROVE  /\ attempt' \in 1..MaxAttempts
         /\ prompts' \subseteq [command : 1..MaxCommands, attempt : 1..MaxAttempts]
<1>1. [command |-> c, attempt |-> number] \in [command : 1..MaxCommands, attempt : 1..MaxAttempts]
  OBVIOUS
<1>2. QED
  BY <1>1 DEF Prompt, DecisionInv

(* A review begins for the decision that is pending.                       *)
LEMMA Reviewing ==
  ASSUME WorkflowInvariant, pending # 0, CanReview, BeginReview,
         UNCHANGED <<leaseVars, proposal, files, completed, attempt, prompts, hostVars, approved,
                     revoked, written, wrote>>,
         notices' \subseteq notices
  PROVE  WorkflowInvariant'
<1> USE DEF WorkflowInvariant
<1>1. /\ pending = lease /\ pending \in 1..MaxCommands /\ pending \in 1..commands
      /\ stage = "deciding" /\ approved \in BOOLEAN
  BY BoundsAssumption DEF LeaseInv, NoDecisionLost, DecisionInv, AuthorityInv
<1>2. CASE PreviewProblem
  <2>1. /\ pending' = 0 /\ Decided(FALSE) /\ UNCHANGED reviews
        /\ reviewClaims' \subseteq 1..MaxCommands
    BY <1>1, <1>2 DEF BeginReview, Settle, LeaseInv
  <2>2. QED
    BY <1>1, <2>1, Settling
<1>3. CASE ~PreviewProblem
  <2>1. reviews' = reviews \cup {pending} /\ NoDecision /\ UNCHANGED <<pending, reviewClaims>>
    BY <1>3 DEF BeginReview, NoDecision
  <2>2. DecisionInv'
    BY <1>1, <2>1 DEF DecisionInv, CanReview, NoDecision, leaseVars, Unopened
  <2>3. QED
    BY <1>1, <2>1, <2>2, Undecided DEF LeaseInv
<1>4. QED
  BY <1>2, <1>3

(* Answers to prompts and warnings, and reviews, of any command.           *)
LEMMA Deciding ==
  ASSUME WorkflowInvariant,
         \/ \E prompt \in prompts : \E choice \in Choices(prompt) : Answer(prompt, choice)
         \/ \E c \in notices : \E choice \in {"review", "cancel", "dismiss"} : AnswerBusy(c, choice)
         \/ Review
         \/ \E c \in reviews : FinishReview(c)
  PROVE  WorkflowInvariant'
<1> USE DEF WorkflowInvariant
<1>1. approved \in BOOLEAN /\ reviewClaims \subseteq 1..MaxCommands /\ (pending # 0 => pending = lease)
  BY DEF AuthorityInv, LeaseInv, NoDecisionLost
<1>2. ASSUME NEW prompt \in prompts, NEW choice \in Choices(prompt), Answer(prompt, choice)
      PROVE  WorkflowInvariant'
  <2>1. /\ prompts' \subseteq prompts
        /\ UNCHANGED <<leaseVars, proposal, files, completed, attempt, notices, reviews, hostVars,
                       revoked, written, wrote, reviewClaims>>
        /\ approved' \in BOOLEAN /\ (approved => approved')
        /\ choice = "apply" /\ prompt.command = lease /\ prompt.attempt = attempt => approved'
    BY <1>1, <1>2 DEF Answer
  <2>2. prompt.command # 0
    BY DEF DecisionInv
  <2>3. CASE Newest(prompt) /\ choice # "dismiss"
    <3>1. pending # 0 /\ pending' = 0 /\ Decided(choice = "apply")
      BY <1>2, <2>2, <2>3 DEF Answer, Newest, Settle
    <3>2. (choice = "apply") => approved'
      BY <1>1, <2>1, <2>3, <3>1 DEF Newest
    <3>3. QED
      BY <1>1, <2>1, <3>1, <3>2, Settling
  <2>4. CASE ~(Newest(prompt) /\ choice # "dismiss")
    <3>1. NoDecision
      BY <1>2, <2>4 DEF Answer
    <3>2. DecisionInv'
      BY <2>1, <3>1 DEF NoDecision, DecisionInv, leaseVars
    <3>3. QED
      BY <1>1, <2>1, <3>1, <3>2, Undecided
  <2>5. QED
    BY <2>3, <2>4
<1>3. ASSUME NEW c \in notices, NEW choice \in {"review", "cancel", "dismiss"}, AnswerBusy(c, choice)
      PROVE  WorkflowInvariant'
  <2>1. /\ notices' \subseteq notices /\ c # 0
        /\ UNCHANGED <<leaseVars, proposal, files, completed, attempt, prompts, hostVars, approved,
                       revoked, written, wrote>>
    BY <1>3 DEF AnswerBusy, DecisionInv
  <2>2. CASE pending = c /\ choice = "review"
    BY <1>3, <2>1, <2>2, Reviewing DEF AnswerBusy
  <2>3. CASE pending = c /\ choice = "cancel"
    <3>1. pending' = 0 /\ Decided(FALSE) /\ UNCHANGED <<reviews, reviewClaims>>
      BY <1>3, <2>3 DEF AnswerBusy, Settle
    <3>2. QED
      BY <1>1, <2>1, <2>3, <3>1, Settling
  <2>4. CASE pending # c \/ choice = "dismiss"
    <3>1. NoDecision /\ UNCHANGED <<reviews, reviewClaims>>
      BY <1>3, <2>4 DEF AnswerBusy
    <3>2. DecisionInv'
      BY <2>1, <3>1 DEF NoDecision, DecisionInv, leaseVars
    <3>3. QED
      BY <1>1, <2>1, <3>1, <3>2, Undecided
  <2>5. QED
    BY <2>2, <2>3, <2>4
<1>4. CASE Review
  BY <1>4, Reviewing DEF Review
<1>5. ASSUME NEW c \in reviews, FinishReview(c)
      PROVE  WorkflowInvariant'
  <2>1. /\ reviews' = reviews \ {c} /\ c \in 1..MaxCommands /\ c # 0
        /\ UNCHANGED <<leaseVars, proposal, files, completed, notices, hostVars, approved, revoked,
                       written, wrote>>
    <3>1. c \in 1..commands /\ commands \in 0..MaxCommands
      BY DEF DecisionInv, LeaseInv
    <3>2. c \in 1..MaxCommands /\ c # 0
      BY <3>1, BoundsAssumption
    <3>3. QED
      BY <1>5, <3>2 DEF FinishReview
  <2>2. CASE /\ StillActive(c) /\ tabs' = "bound" /\ Prompt(c, attempt + 1)
             /\ UNCHANGED <<stage, outcome, claims, pending, tabEvent, expired, released, folderVars,
                            reviewClaims>>
    <3>1. c = lease /\ HasPreview /\ tabs # "closed" /\ (tabs = "reopened" => ~released /\ ~expired)
      BY <2>2 DEF StillActive, PreviewProblem, Rebinds
    <3>2. LeaseInv'
      BY <2>1, <2>2 DEF LeaseInv, NoDecisionLost, leaseVars, hostVars
    <3>3. FilesInv'
      BY <2>1, FilesKept
    <3>4. ProgressInv'
      BY <2>1, <2>2 DEF ProgressInv, OutcomeTruthful, Target
    <3>5. DecisionInv'
      <4>1. attempt + 1 \in 1..MaxAttempts
        BY <3>1, BoundsAssumption DEF DecisionInv
      <4>2. /\ attempt' \in 1..MaxAttempts
            /\ prompts' \subseteq [command : 1..MaxCommands, attempt : 1..MaxAttempts]
        BY <2>1, <2>2, <4>1, Prompting
      <4>3. attempt' \in 0..MaxAttempts /\ lease' \notin reviews'
        BY <2>1, <3>1, <4>2 DEF leaseVars
      <4>4. QED
        BY <2>1, <2>2, <4>2, <4>3 DEF DecisionInv, leaseVars
    <3>6. PreviewInv'
      BY <2>1, <2>2, <3>1 DEF PreviewInv, HasPreview, CreateOnly
    <3>7. AuthorityInv'
      BY <2>1, <2>2, <3>1 DEF AuthorityInv, CreateOnly, folderVars, hostVars
    <3>8. QED
      BY <3>2, <3>3, <3>4, <3>5, <3>6, <3>7
  <2>3. CASE Settle(c, FALSE) /\ reviewClaims' = reviewClaims \cup {c} /\ UNCHANGED <<attempt, prompts>>
    <3>1. reviewClaims' \subseteq 1..MaxCommands
      BY <1>1, <2>1, <2>3
    <3>2. CASE pending = c
      <4>1. pending # 0 /\ pending' = 0 /\ Decided(FALSE)
        BY <2>1, <2>3, <3>2 DEF Settle
      <4>2. QED
        BY <1>1, <2>1, <2>3, <3>1, <4>1, Settling
    <3>3. CASE pending # c
      <4>1. NoDecision
        BY <2>3, <3>3 DEF Settle
      <4>2. DecisionInv'
        BY <2>1, <2>3, <4>1 DEF NoDecision, DecisionInv, leaseVars
      <4>3. QED
        BY <1>1, <2>1, <3>1, <4>1, <4>2, Undecided
    <3>4. QED
      BY <3>2, <3>3
  <2>4. QED
    BY <1>5, <2>2, <2>3 DEF FinishReview
<1>6. QED
  BY <1>2, <1>3, <1>4, <1>5

-------------------------------------------------------------------------------
(* The editor, the user and other programs *)

(* The end of the host settles a pending decision and ends every authority. *)
LEMMA Deactivating ==
  ASSUME WorkflowInvariant, Deactivate
  PROVE  WorkflowInvariant'
<1> USE DEF WorkflowInvariant
<1>1. /\ disposed' = TRUE /\ released' = HasPreview /\ pending' = 0
      /\ session' = (IF session = "valid" THEN "invalid" ELSE session)
      /\ revoked' = (revoked \/ session = "valid")
      /\ UNCHANGED <<commands, lease, noticed, proposal, files, completed, attempt, prompts, notices,
                     reviews, tabs, tabEvent, expired, folderOpen, folderEvent, trusted, approved,
                     written, wrote, reviewClaims>>
  BY DEF Deactivate, leaseVars
<1>2. CASE pending # 0
  <2>1. /\ stage = "deciding" /\ written = {} /\ completed = 0 /\ lease # 0 /\ lease \in 1..MaxCommands
        /\ stage' = "reporting" /\ outcome' = "refused" /\ claims' = claims \cup {lease}
    BY <1>2, BoundsAssumption DEF Deactivate, Refuse, Report, SayNothingWritten, LeaseInv, NoDecisionLost,
       ProgressInv, Unwritten
  <2>2. claims' \subseteq 1..MaxCommands
    BY <2>1 DEF LeaseInv
  <2>3. LeaseInv'
    BY <1>1, <2>1, <2>2 DEF LeaseInv, NoDecisionLost, Stages, Outcomes, Proposed, Accepted, InLoop
  <2>4. ProgressInv'
    BY <1>1, <2>1, NothingWritten DEF Ending
  <2>5. QED
    BY <1>1, <2>1, <2>3, <2>4, FilesKept DEF DecisionInv, PreviewInv, AuthorityInv, HasPreview, CreateOnly,
       Unopened, Accepted, InLoop
<1>3. CASE pending = 0
  <2>1. UNCHANGED <<stage, outcome, claims>>
    BY <1>3 DEF Deactivate
  <2>2. LeaseInv' /\ DecisionInv'
    BY <1>1, <1>3, <2>1 DEF LeaseInv, NoDecisionLost, DecisionInv
  <2>3. FilesInv'
    BY <1>1, FilesKept
  <2>4. ProgressInv'
    BY <1>1, <2>1 DEF ProgressInv, OutcomeTruthful, Target
  <2>5. PreviewInv'
    BY <1>1, <2>1 DEF PreviewInv, HasPreview, CreateOnly
  <2>6. AuthorityInv'
    BY <1>1, <2>1 DEF AuthorityInv, PreviewInv, HasPreview, CreateOnly
  <2>7. QED
    BY <2>2, <2>3, <2>4, <2>5, <2>6
<1>4. QED
  BY <1>2, <1>3

(* What the workflow itself does not notice.                               *)
LEMMA Surroundings ==
  ASSUME WorkflowInvariant, UNCHANGED environmentUnchanged, PreviewInv', AuthorityInv'
  PROVE  WorkflowInvariant'
<1>1. UNCHANGED <<leaseVars, proposal, files, completed, outcome, stage, decisionVars, hostVars,
                  approved, written, wrote, claims, reviewClaims>>
  BY DEF environmentUnchanged
<1>2. LeaseInv'
  BY <1>1 DEF WorkflowInvariant, LeaseInv, NoDecisionLost, leaseVars, decisionVars, hostVars
<1>3. FilesInv' /\ DecisionInv'
  BY <1>1, FilesKept, DecisionKept DEF WorkflowInvariant, leaseVars
<1>4. ProgressInv'
  BY <1>1 DEF WorkflowInvariant, ProgressInv, OutcomeTruthful, Target
<1>5. QED
  BY <1>2, <1>3, <1>4 DEF WorkflowInvariant

(* Other programs change files, the user moves, closes and opens tabs and
   folders, and the host hears of it later.                                *)
LEMMA Environment ==
  ASSUME WorkflowInvariant,
         \/ \E i \in DOMAIN files : Touch(i)
         \/ EditorChangesTabs \/ DeliverTabEvent
         \/ ChangeFolder \/ DeliverFolderEvent \/ ChangeTrust
  PROVE  WorkflowInvariant'
<1> USE DEF WorkflowInvariant
<1>1. ASSUME NEW i \in DOMAIN files, Touch(i)
      PROVE  WorkflowInvariant'
  <2>1. /\ files' = [files EXCEPT ![i] = "foreign"]
        /\ UNCHANGED <<leaseVars, stage, proposal, completed, outcome, decisionVars, previewVars,
                       folderVars, hostVars, ghosts>>
    BY <1>1 DEF Touch
  <2>2. LeaseInv' /\ DecisionInv'
    BY <2>1 DEF LeaseInv, NoDecisionLost, DecisionInv, leaseVars, decisionVars, hostVars, ghosts
  <2>3. FilesInv'
    BY <2>1 DEF FilesInv, ghosts
  <2>4. ProgressInv'
    BY <2>1 DEF ProgressInv, OutcomeTruthful, Target, ghosts
  <2>5. PreviewInv' /\ AuthorityInv'
    BY <2>1, AuthorityKept DEF AuthorityInv, hostVars, ghosts
  <2>6. QED
    BY <2>2, <2>3, <2>4, <2>5
<1>2. CASE ChangeTrust
  <2>1. /\ trusted' = ~trusted
        /\ UNCHANGED <<leaseVars, stage, proposal, files, completed, outcome, decisionVars, previewVars,
                       folderVars, disposed, ghosts>>
    BY <1>2 DEF ChangeTrust
  <2>2. LeaseInv' /\ DecisionInv'
    BY <2>1 DEF LeaseInv, NoDecisionLost, DecisionInv, leaseVars, decisionVars, ghosts
  <2>3. FilesInv'
    BY <2>1, FilesKept DEF ghosts
  <2>4. ProgressInv'
    BY <2>1 DEF ProgressInv, OutcomeTruthful, Target, ghosts
  <2>5. PreviewInv' /\ AuthorityInv'
    BY <2>1, AuthorityKept DEF AuthorityInv, ghosts
  <2>6. QED
    BY <2>2, <2>3, <2>4, <2>5
<1>3. CASE EditorChangesTabs
  <2>1. /\ tabEvent = "none" /\ ~released /\ HasPreview
        /\ tabs' \in {"closed", "moved", "reopened"} /\ tabEvent' \in {"closed", "regrouped"}
        /\ tabs' = "reopened" => tabs = "closed"
        /\ tabs' = "moved" => tabs = "bound"
        /\ revoked' = (revoked \/ tabs' = "closed")
        /\ UNCHANGED <<expired, released, folderVars, environmentUnchanged>>
    BY <1>3 DEF EditorChangesTabs, ChangeTabs, HasPreview
  <2>2. UNCHANGED <<stage, proposal, approved, disposed>>
    BY <2>1 DEF environmentUnchanged, hostVars
  <2>3. PreviewInv'
    <3>1. ~CreateOnly /\ stage \notin Unopened /\ (tabs = "closed" => expired)
      BY <2>1 DEF PreviewInv
    <3>2. ~CreateOnly' /\ stage' \notin Unopened
      BY <2>2, <3>1 DEF CreateOnly
    <3>3. expired' \in BOOLEAN /\ ~released' /\ (tabs' = "reopened" => expired')
      BY <2>1, <3>1 DEF PreviewInv
    <3>4. QED
      BY <2>1, <3>2, <3>3 DEF PreviewInv, HasPreview, Unopened
  <2>4. AuthorityInv'
    <3>1. /\ UNCHANGED <<stage, approved, disposed, folderOpen, folderEvent, session, expired, released>>
          /\ CreateOnly' = CreateOnly /\ revoked' \in BOOLEAN
      BY <2>1, <2>2 DEF folderVars, CreateOnly, AuthorityInv
    <3>2. stage \notin Unopened /\ (tabs = "closed" => expired)
      BY <2>1 DEF PreviewInv
    <3>3. revoked' => session' # "valid" \/ ~folderOpen' \/ expired' \/ released' \/ tabs' = "closed"
      BY <2>1, <3>1, <3>2 DEF AuthorityInv
    <3>4. QED
      BY <3>1, <3>2, <3>3 DEF AuthorityInv, Unopened
  <2>5. QED
    BY <2>1, <2>3, <2>4, Surroundings
<1>4. CASE DeliverTabEvent
  <2>1. /\ tabEvent # "none" /\ tabEvent' = "none"
        /\ tabs' = IF tabEvent = "regrouped" /\ Rebinds THEN "bound" ELSE tabs
        /\ expired' = (expired \/ (~released /\ tabs' = "closed"))
        /\ UNCHANGED <<released, folderVars, revoked, environmentUnchanged>>
    BY <1>4 DEF DeliverTabEvent
  <2>2. UNCHANGED <<stage, proposal, approved, disposed>>
    BY <2>1 DEF environmentUnchanged, hostVars
  <2>3. HasPreview /\ HasPreview' /\ (tabs = "closed" => tabs' = "closed")
    BY <2>1 DEF PreviewInv, HasPreview, Rebinds
  <2>4. PreviewInv'
    BY <2>1, <2>2, <2>3 DEF PreviewInv, HasPreview, CreateOnly, Rebinds
  <2>5. AuthorityInv'
    BY <2>1, <2>2, <2>3 DEF AuthorityInv, PreviewInv, CreateOnly, folderVars
  <2>6. QED
    BY <2>1, <2>4, <2>5, Surroundings
<1>5. CASE ChangeFolder
  <2>1. /\ ~folderEvent /\ folderOpen' \in BOOLEAN /\ folderEvent' \in BOOLEAN
        /\ folderOpen => folderEvent'
        /\ ~folderOpen => folderOpen'
        /\ revoked' = (revoked \/ (session = "valid" /\ ~folderOpen'))
        /\ UNCHANGED <<session, previewVars, environmentUnchanged>>
    BY <1>5 DEF ChangeFolder, AuthorityInv
  <2>2. UNCHANGED <<stage, proposal, approved, disposed>>
    BY <2>1 DEF environmentUnchanged, hostVars
  <2>3. PreviewInv'
    BY <2>1, <2>2 DEF PreviewInv, HasPreview, CreateOnly, previewVars
  <2>4. AuthorityInv'
    BY <2>1, <2>2 DEF AuthorityInv, CreateOnly, previewVars
  <2>5. QED
    BY <2>1, <2>3, <2>4, Surroundings
<1>6. CASE DeliverFolderEvent
  <2>1. /\ folderEvent' = FALSE
        /\ session' = IF session = "valid" THEN "invalid" ELSE session
        /\ released' = (released \/ (HasPreview /\ session' = "invalid"))
        /\ revoked' = (revoked \/ session = "valid")
        /\ UNCHANGED <<folderOpen, tabs, tabEvent, expired, environmentUnchanged>>
    BY <1>6 DEF DeliverFolderEvent, Survives
  <2>2. UNCHANGED <<stage, proposal, approved, disposed>>
    BY <2>1 DEF environmentUnchanged, hostVars
  <2>3. PreviewInv'
    BY <2>1, <2>2 DEF PreviewInv, HasPreview, CreateOnly
  <2>4. AuthorityInv'
    BY <2>1, <2>2 DEF AuthorityInv, CreateOnly
  <2>5. QED
    BY <2>1, <2>3, <2>4, Surroundings
<1>7. QED
  BY <1>1, <1>2, <1>3, <1>4, <1>5, <1>6

-------------------------------------------------------------------------------
(* Theorems *)

(* No workflow has begun: nothing is leased, pending, open or written.     *)
LEMMA InitialWorkflow == Init => WorkflowInvariant
<1>1. <<>> \in Seq({"create", "update"}) /\ DOMAIN <<>> = {} /\ Len(<<>>) = 0
  OBVIOUS
<1>2. SUFFICES ASSUME Init PROVE WorkflowInvariant
  OBVIOUS
<1>3. LeaseInv /\ DecisionInv
  <2>1. 0 \in 0..MaxCommands /\ 0 \in 0..MaxAttempts
    BY BoundsAssumption
  <2>2. LeaseInv
    BY <1>2, <2>1 DEF Init, LeaseInv, NoDecisionLost, Stages, Outcomes, Proposed, Accepted, InLoop
  <2>3. DecisionInv
    BY <1>2, <2>1 DEF Init, DecisionInv
  <2>4. QED
    BY <2>2, <2>3
<1>4. FilesInv
  BY <1>1, <1>2 DEF Init, FilesInv
<1>5. ProgressInv
  BY <1>2 DEF Init, ProgressInv, OutcomeTruthful, BeforeWrite, Ending
<1>6. PreviewInv /\ AuthorityInv
  BY <1>2 DEF Init, PreviewInv, AuthorityInv, HasPreview, Accepted, InLoop
<1>7. QED
  BY <1>3, <1>4, <1>5, <1>6 DEF WorkflowInvariant

(* The invariant of the write workflow, whatever the user, the editor, the
   provider and other programs do between two of its awaits.               *)
THEOREM WorkflowInvariantHolds == Spec => []WorkflowInvariant
<1>1. ASSUME WorkflowInvariant, [Next]_vars PROVE WorkflowInvariant'
  <2>1. CASE Admit \/ RefuseBusy \/ Abandon \/ DismissError \/ Finish
    BY <1>1, <2>1, StartAndEnd
  <2>2. CASE \E p \in Proposals : Propose(p)
    BY <1>1, <2>2, Proposing
  <2>3. CASE FirstPreflight \/ PreviewOpens \/ PreviewFails
    BY <1>1, <2>3, Opening
  <2>4. CASE \/ SecondPreflight \/ ApplyPreflight \/ Guard \/ PostGuardPreflight
             \/ CheckAncestors \/ CheckExpected \/ StartWrite
    BY <1>1, <2>4, Awaiting
  <2>5. CASE WriteSettles
    BY <1>1, <2>5, Writing
  <2>6. CASE Verify
    BY <1>1, <2>6, Verifying
  <2>7. CASE \/ \E prompt \in prompts : \E choice \in Choices(prompt) : Answer(prompt, choice)
             \/ \E c \in notices : \E choice \in {"review", "cancel", "dismiss"} : AnswerBusy(c, choice)
             \/ Review
             \/ \E c \in reviews : FinishReview(c)
    BY <1>1, <2>7, Deciding
  <2>8. CASE Deactivate
    BY <1>1, <2>8, Deactivating
  <2>9. CASE \/ \E i \in DOMAIN files : Touch(i)
             \/ EditorChangesTabs \/ DeliverTabEvent
             \/ ChangeFolder \/ DeliverFolderEvent \/ ChangeTrust
    BY <1>1, <2>9, Environment
  <2>10. CASE UNCHANGED vars
    <3>1. /\ UNCHANGED <<leaseVars, stage, proposal, files, completed, outcome, decisionVars, previewVars,
                         folderVars, hostVars, ghosts>>
      BY <2>10 DEF vars
    <3>2. PreviewInv' /\ AuthorityInv'
      BY <1>1, <3>1, AuthorityKept DEF WorkflowInvariant, AuthorityInv, hostVars, ghosts
    <3>3. UNCHANGED environmentUnchanged
      BY <3>1 DEF environmentUnchanged, ghosts
    <3>4. QED
      BY <1>1, <3>2, <3>3, Surroundings
  <2>11. QED
    BY <1>1, <2>1, <2>2, <2>3, <2>4, <2>5, <2>6, <2>7, <2>8, <2>9, <2>10 DEF Next, WorkflowStep, EventStep
<1>2. QED
  BY InitialWorkflow, <1>1, PTL DEF Spec

(* Every variable of the write workflow keeps its type.                    *)
THEOREM TypeCorrect == Spec => []TypeOK
<1>1. ASSUME WorkflowInvariant PROVE TypeOK
  <2>1. commands \in Nat /\ commands <= MaxCommands /\ MaxCommands \in Nat
    BY <1>1, BoundsAssumption DEF WorkflowInvariant, LeaseInv
  <2>2. notices \subseteq 1..MaxCommands /\ reviews \subseteq 1..MaxCommands
    BY <1>1, <2>1 DEF WorkflowInvariant, DecisionInv
  <2>3. QED
    BY <1>1, <2>2 DEF WorkflowInvariant, LeaseInv, FilesInv, DecisionInv, PreviewInv, AuthorityInv, TypeOK
<1>2. QED
  BY WorkflowInvariantHolds, <1>1, PTL

(* A decision is never lost: the decision controller has a pending decision
   exactly while a workflow awaits one, and of the command that holds the
   lease, for any number of commands, prompts, warnings and reviews.       *)
THEOREM DecisionsAreNeverLost == Spec => []NoDecisionLost
<1>1. WorkflowInvariant => NoDecisionLost
  BY DEF WorkflowInvariant, LeaseInv
<1>2. QED
  BY WorkflowInvariantHolds, <1>1, PTL

(* The outcome that is reported is true to the files, for proposals of any
   length: nothing is written by a command that is refused, cancelled or
   unchanged, every target by one that is applied, and by one that failed the
   targets it completed and at most the one that it was at.                *)
THEOREM OutcomesAreTruthful == Spec => []OutcomeTruthful
<1>1. WorkflowInvariant => OutcomeTruthful
  BY DEF WorkflowInvariant, ProgressInv
<1>2. QED
  BY WorkflowInvariantHolds, <1>1, PTL

(* A provider call starts from the last check and from nowhere else.       *)
LEMMA OneWayToWrite ==
  ASSUME Next, stage # "writing", stage' = "writing"
  PROVE  StartWrite
<1> USE DEF Report, Close, Refuse, FailReport, FailUnwritten, Stop
<1>1. ~(Admit \/ RefuseBusy \/ Abandon \/ DismissError \/ Finish)
  BY DEF Admit, RefuseBusy, Abandon, DismissError, Finish
<1>2. ~\E p \in Proposals : Propose(p)
  BY DEF Propose
<1>3. ~(FirstPreflight \/ PreviewOpens \/ PreviewFails)
  BY DEF FirstPreflight, PreviewOpens, PreviewFails
<1>4. ~(\/ SecondPreflight \/ ApplyPreflight \/ Guard \/ PostGuardPreflight
       \/ CheckAncestors \/ CheckExpected)
  BY DEF SecondPreflight, ApplyPreflight, Guard, PostGuardPreflight, CheckAncestors, CheckExpected,
     Proceed, Continue, Unauthorised
<1>5. ~(WriteSettles \/ Verify)
  BY DEF WriteSettles, CreateSettles, UpdateSettles, Verify, Continue
<1>6. ASSUME NEW c, NEW apply PROVE ~Settle(c, apply) /\ ~NoDecision
  BY DEF Settle, NoDecision, Decided
<1>7. ~BeginReview
  BY <1>6 DEF BeginReview
<1>8. ~\E prompt \in prompts : \E choice \in Choices(prompt) : Answer(prompt, choice)
  BY <1>6 DEF Answer
<1>9. ~\E c \in notices : \E choice \in {"review", "cancel", "dismiss"} : AnswerBusy(c, choice)
  BY <1>6, <1>7 DEF AnswerBusy
<1>10. ~Review /\ ~\E c \in reviews : FinishReview(c)
  BY <1>6, <1>7 DEF Review, FinishReview
<1>11. ~Deactivate
  BY DEF Deactivate
<1>12. ~(\/ \E i \in DOMAIN files : Touch(i)
        \/ EditorChangesTabs \/ DeliverTabEvent
        \/ ChangeFolder \/ DeliverFolderEvent \/ ChangeTrust)
  BY DEF Touch, EditorChangesTabs, ChangeTabs, DeliverTabEvent, ChangeFolder, DeliverFolderEvent, ChangeTrust,
     environmentUnchanged
<1>13. QED
  BY <1>1, <1>2, <1>3, <1>4, <1>5, <1>8, <1>9, <1>10, <1>11, <1>12 DEF Next, WorkflowStep, EventStep

(* A provider call starts only under an authorization that nothing revoked:
   not the folder, not the host, not the preview, and not without Apply.   *)
THEOREM WritesAreAuthorised == Spec => WritesAuthorised
<1> DEFINE Step == stage # "writing" /\ stage' = "writing" =>
                     ~revoked /\ folderOpen /\ ~disposed /\ (CreateOnly \/ approved)
<1>1. ASSUME WorkflowInvariant, [Next]_vars PROVE [Step]_vars
  <2>1. SUFFICES ASSUME Next, stage # "writing", stage' = "writing"
                 PROVE  ~revoked /\ folderOpen /\ ~disposed /\ (CreateOnly \/ approved)
    BY <1>1
  <2>2. stage = "checked" /\ MayWrite
    BY <2>1, OneWayToWrite DEF StartWrite, Latch, FailReport, Report
  <2>3. QED
    BY <1>1, <2>2 DEF WorkflowInvariant, PreviewInv, AuthorityInv, MayWrite, Authorised, FolderProblem,
       PreviewProblem, HasPreview, Accepted, InLoop
<1>2. QED
  BY WorkflowInvariantHolds, <1>1, PTL DEF Spec, WritesAuthorised

(* Files change when a proposal begins or ends, and when somebody writes.    *)
LEMMA OnlyWritersChangeFiles ==
  ASSUME Next
  PROVE  \/ UNCHANGED files \/ WriteSettles \/ Finish
         \/ \E p \in Proposals : Propose(p)
         \/ \E i \in DOMAIN files : Touch(i)
<1>1. ASSUME Admit \/ RefuseBusy \/ Abandon \/ DismissError \/ FirstPreflight \/ PreviewOpens \/ PreviewFails
      PROVE  UNCHANGED files
  BY <1>1 DEF Admit, RefuseBusy, Abandon, DismissError, FirstPreflight, PreviewOpens, PreviewFails
<1>2. ASSUME \/ SecondPreflight \/ ApplyPreflight \/ Guard \/ PostGuardPreflight
             \/ CheckAncestors \/ CheckExpected \/ StartWrite \/ Verify
      PROVE  UNCHANGED files
  BY <1>2 DEF SecondPreflight, ApplyPreflight, Guard, PostGuardPreflight, CheckAncestors, CheckExpected,
     StartWrite, Verify, awaitUnchanged
<1>3. ASSUME NEW prompt, NEW choice, Answer(prompt, choice) PROVE UNCHANGED files
  BY <1>3 DEF Answer
<1>4. ASSUME NEW c, NEW choice, AnswerBusy(c, choice) PROVE UNCHANGED files
  BY <1>4 DEF AnswerBusy
<1>5. ASSUME NEW c, Review \/ FinishReview(c) PROVE UNCHANGED files
  BY <1>5 DEF Review, FinishReview
<1>6. ASSUME Deactivate \/ EditorChangesTabs \/ DeliverTabEvent \/ ChangeFolder \/ DeliverFolderEvent \/ ChangeTrust
      PROVE  UNCHANGED files
  BY <1>6 DEF Deactivate, EditorChangesTabs, ChangeTabs, DeliverTabEvent, ChangeFolder, DeliverFolderEvent,
     ChangeTrust, environmentUnchanged
<1>7. QED
  BY <1>1, <1>2, <1>3, <1>4, <1>5, <1>6, Zenon DEF Next, WorkflowStep, EventStep

(* A file that another program has put where the proposal creates one is
   never overwritten, whenever it appears: the provider is asked to create
   and not to overwrite.                                                   *)
THEOREM OthersFilesAreKept == Spec => CreatesNeverReplace
<1>1. ASSUME Next, NEW i \in DOMAIN files, proposal[i] = "create", files[i] = "foreign",
             stage # "planning", stage' # "idle"
      PROVE  files'[i] = "foreign"
  <2>1. CASE UNCHANGED files
    BY <1>1, <2>1
  <2>2. CASE \E j \in DOMAIN files : Touch(j)
    BY <1>1, <2>2 DEF Touch
  <2>3. CASE WriteSettles
    <3>1. ASSUME NEW content, Write(content), Target # i PROVE files'[i] = "foreign"
      BY <1>1, <3>1 DEF Write
    <3>2. CASE CreateSettles
      BY <1>1, <2>1, <3>1, <3>2 DEF CreateSettles, Creatable
    <3>3. CASE UpdateSettles
      BY <1>1, <2>1, <3>1, <3>3 DEF UpdateSettles
    <3>4. QED
      BY <2>3, <3>2, <3>3 DEF WriteSettles
  <2>4. CASE (\E p \in Proposals : Propose(p)) \/ Finish
    BY <1>1, <2>4 DEF Propose, Finish
  <2>5. QED
    BY <1>1, <2>1, <2>2, <2>3, <2>4, OnlyWritersChangeFiles
<1>2. ASSUME [Next]_vars
      PROVE  [ \A i \in DOMAIN files :
                 proposal[i] = "create" /\ files[i] = "foreign" /\ stage # "planning" /\ stage' # "idle"
                   => files'[i] = "foreign" ]_vars
  BY <1>1, <1>2
<1>3. QED
  BY <1>2, PTL DEF Spec, CreatesNeverReplace
================================================================================
