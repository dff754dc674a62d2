------------------------------- MODULE BundleView -------------------------------
(***************************************************************************)
(* What the refresh service promises the rest of the extension, without    *)
(* its queue, timers, generations and aborted loads: every request made    *)
(* for the selected bundle is answered, and an answer is never older than  *)
(* the newest change that was reported before it.  RefreshCoordinator      *)
(* implements this specification; Workbench is built on it.                *)
(***************************************************************************)
EXTENDS Integers

CONSTANTS
  Roots,     \* bundle roots that can be selected
  NoRoot     \* the root of an absent selection

VARIABLES
  selected,  \* root of the current context, or NoRoot
  disk,      \* version of each root on disk
  floor,     \* newest version reported for the selection
  owed,      \* a request for the selection has not been answered
  shown      \* the answer the selection has had, if any

viewVars == <<selected, disk, floor, owed, shown>>

Nothing == [kind |-> "none", version |-> 0]
Answer == [kind : {"none", "published", "failed"}, version : Nat]

ViewTypeOK ==
  /\ selected \in Roots \cup {NoRoot}
  /\ disk \in [Roots -> Nat]
  /\ floor \in Nat
  /\ owed \in BOOLEAN
  /\ shown \in Answer

ViewInit ==
  /\ selected = NoRoot
  /\ disk = [r \in Roots |-> 0]
  /\ floor = 0
  /\ owed = FALSE
  /\ shown = Nothing

(* Selecting, even the selected root again, starts over with a full refresh. *)
SelectRoot(r) ==
  /\ selected' = r
  /\ floor' = disk[r]
  /\ owed' = TRUE
  /\ shown' = Nothing
  /\ UNCHANGED disk

Deselect ==
  /\ selected' = NoRoot
  /\ floor' = 0
  /\ owed' = FALSE
  /\ shown' = Nothing
  /\ UNCHANGED disk

Modify(r) ==
  /\ disk' = [disk EXCEPT ![r] = @ + 1]
  /\ UNCHANGED <<selected, floor, owed, shown>>

(* A watcher event or a command asks for a refresh that covers version v.  *)
Ask(v) ==
  /\ selected # NoRoot
  /\ v \in floor..disk[selected]
  /\ floor' = v
  /\ owed' = TRUE
  /\ UNCHANGED <<selected, disk, shown>>

Show(v) ==
  /\ owed
  /\ v \in floor..disk[selected]
  /\ shown' = [kind |-> "published", version |-> v]
  /\ owed' = FALSE
  /\ UNCHANGED <<selected, disk, floor>>

FailRefresh ==
  /\ owed
  /\ shown' = [kind |-> "failed", version |-> floor]
  /\ owed' = FALSE
  /\ UNCHANGED <<selected, disk, floor>>

ShowSome == selected # NoRoot /\ \E v \in floor..disk[selected] : Show(v)
AskSome == selected # NoRoot /\ \E v \in floor..disk[selected] : Ask(v)

ViewNext ==
  \/ \E r \in Roots : SelectRoot(r) \/ Modify(r)
  \/ Deselect
  \/ AskSome
  \/ ShowSome
  \/ FailRefresh

ViewSpec == ViewInit /\ [][ViewNext]_viewVars

(* A request is not left unanswered for ever.                              *)
ViewLive == owed ~> ~owed

===============================================================================
