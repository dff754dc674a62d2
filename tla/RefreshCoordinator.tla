--------------------------- MODULE RefreshCoordinator ---------------------------
(***************************************************************************)
(* RefreshCoordinator (src/extension/workspace/refreshCoordinator.ts): the *)
(* single-flight scheduler that turns the watcher events of one selected   *)
(* bundle into full refreshes and publishes only current results.          *)
(*                                                                         *)
(* The bundle on disk is a version number per root.  A refresh is a load   *)
(* that reads that number at one moment between its start and its          *)
(* settlement.  The clock counts ticks, so a timer is the number of ticks  *)
(* it has left; setTimeout and clearTimeout are exact.                     *)
(***************************************************************************)
EXTENDS Integers, FiniteSets

CONSTANTS
  Roots,            \* bundle roots that can be selected
  NoRoot,           \* the root of an absent context
  Changes,          \* workspace changes: records with a kind and a set of paths
  MaxPendingPaths,  \* WORKSPACE_REFRESH_MAX_PENDING_PATHS
  Debounce,         \* WORKSPACE_REFRESH_DEBOUNCE_MILLISECONDS, in ticks
  MaxLatency,       \* WORKSPACE_REFRESH_MAX_LATENCY_MILLISECONDS, in ticks
  MaxGeneration,    \* bound: generation at which the user stops acting
  MaxDisk           \* bound: modifications of each root

Rescan == [kind |-> "rescan", paths |-> {}]

ASSUME RootsAssumption == NoRoot \notin Roots
ASSUME ChangesAssumption == Rescan \in Changes
ASSUME PathsAssumption == \A c \in Changes : IsFiniteSet(c.paths)
ASSUME LimitsAssumption ==
  /\ MaxPendingPaths \in Nat
  /\ Debounce \in Nat \ {0}
  /\ MaxLatency \in Nat \ {0}
  /\ MaxGeneration \in Nat
  /\ MaxDisk \in Nat

VARIABLES
  context,          \* #context, an object identity: its root and a unique id
  generation,       \* #generation
  pending,          \* #pending: the key is the whole change, so the map is a set
  collapsed,        \* #pendingCollapsedToRescan
  ready,            \* #pendingReady
  debounce,         \* #debounceTimer
  maximum,          \* #maximumLatencyTimer
  inFlight,         \* #inFlight is a promise
  abortController,  \* #abortController: the generation of the load it aborts, or 0
  revision,         \* #revision
  disposed,         \* #disposed
  loads,            \* refresh callbacks that were called and have not settled
  outcome,          \* what the last publish or onError callback reported, and
                    \* the version it answers for: that of the result it shows,
                    \* or the newest one whose refresh is reported as failed
  disk,             \* version of each root on disk
  events,           \* watcher events of the current subscription, not delivered
  floor,            \* ghost: newest version a request for this context reported
  waited            \* ghost: ticks the oldest unscheduled change has waited

coordinatorVars == <<context, generation, pending, collapsed, ready, debounce,
                     maximum, inFlight, abortController, revision, disposed>>
vars == <<coordinatorVars, loads, outcome, disk, events, floor, waited>>

Off == -1
NoContext == [root |-> NoRoot, id |-> 0]
ActiveContext == [root : Roots, id : Nat]
Context == ActiveContext \cup {NoContext}
FileChanges == Changes \ {Rescan}
Load == [context : ActiveContext, generation : Nat, aborted : BOOLEAN,
         read : BOOLEAN, version : Nat]
Outcome == [kind : {"none", "published", "failed"}, context : Context, version : Nat]

(* Every variable holds a value the coordinator can store in it.           *)
TypeOK ==
  /\ context \in Context
  /\ generation \in Nat /\ revision \in Nat
  /\ pending \subseteq Changes
  /\ collapsed \in BOOLEAN /\ ready \in BOOLEAN
  /\ inFlight \in BOOLEAN /\ disposed \in BOOLEAN
  /\ debounce \in Off..Debounce
  /\ maximum \in Off..MaxLatency
  /\ abortController \in Nat
  /\ loads \subseteq Load
  /\ outcome \in Outcome
  /\ disk \in [Roots -> Nat]
  /\ events \subseteq [change : FileChanges, version : Nat]
  /\ floor \in Nat
  /\ waited \in Nat

Init ==
  /\ context = NoContext
  /\ generation = 0 /\ revision = 0
  /\ pending = {}
  /\ collapsed = FALSE /\ ready = FALSE
  /\ inFlight = FALSE /\ disposed = FALSE
  /\ debounce = Off /\ maximum = Off
  /\ abortController = 0
  /\ loads = {}
  /\ outcome = [kind |-> "none", context |-> NoContext, version |-> 0]
  /\ disk = [r \in Roots |-> 0]
  /\ events = {}
  /\ floor = 0
  /\ waited = 0

-------------------------------------------------------------------------------
(* Pending changes and timers *)

Larger(a, b) == IF a >= b THEN a ELSE b

PathsOf(changes) == UNION {c.paths : c \in changes}

(* Mutant of Overflows: only paths are counted, not the changes to them.   *)
OverflowsByPath(c) == Cardinality(PathsOf(pending \cup {c})) > MaxPendingPaths

Overflows(c) ==
  \/ c \notin pending /\ Cardinality(pending) >= MaxPendingPaths + 1
  \/ Cardinality(PathsOf(pending \cup {c})) > MaxPendingPaths

(* Mutant of RetainPending: the load in flight is trusted to see the change. *)
RetainWhenIdle(c) ==
  IF collapsed \/ inFlight THEN UNCHANGED <<pending, collapsed>>
  ELSE IF Overflows(c) THEN pending' = {Rescan} /\ collapsed' = TRUE
  ELSE pending' = pending \cup {c} /\ UNCHANGED collapsed

RetainPending(c) ==
  IF collapsed THEN UNCHANGED <<pending, collapsed>>
  ELSE IF Overflows(c) THEN /\ pending' = {Rescan}
                            /\ collapsed' = TRUE
  ELSE /\ pending' = pending \cup {c}
       /\ UNCHANGED collapsed

(* Mutants of SchedulePending: the latency timer is restarted with the
   debounce; the debounce is extended instead of restarted.                *)
RestartBothTimers ==
  IF ready THEN UNCHANGED <<debounce, maximum>>
  ELSE debounce' = Debounce /\ maximum' = MaxLatency

ExtendDebounce ==
  IF ready THEN UNCHANGED <<debounce, maximum>>
  ELSE /\ debounce' = Larger(debounce, 0) + Debounce
       /\ maximum' = IF maximum = Off THEN MaxLatency ELSE maximum

SchedulePending ==
  IF ready THEN UNCHANGED <<debounce, maximum>>
  ELSE /\ debounce' = Debounce
       /\ maximum' = IF maximum = Off THEN MaxLatency ELSE maximum

ClearTimers ==
  /\ debounce' = Off
  /\ maximum' = Off
  /\ waited' = 0

(* Mutant of ClearPending: the collapse outlives the rescan it stands for. *)
ClearPendingKeepingCollapse ==
  /\ pending' = {}
  /\ ready' = FALSE
  /\ ClearTimers
  /\ UNCHANGED collapsed

ClearPending ==
  /\ pending' = {}
  /\ collapsed' = FALSE
  /\ ready' = FALSE
  /\ ClearTimers

(* abort() of the controller that the coordinator holds, if it holds one.  *)
Abort == loads' = {IF l.generation = abortController
                     THEN [l EXCEPT !.aborted = TRUE] ELSE l : l \in loads}

(* request(change) with a context; v is the disk version it reports.       *)
Request(c, v) ==
  /\ ~disposed
  /\ context # NoContext
  /\ generation' = generation + 1
  /\ Abort
  /\ RetainPending(c)
  /\ SchedulePending
  /\ floor' = Larger(floor, v)
  /\ UNCHANGED <<context, ready, inFlight, abortController, revision, disposed,
                 outcome, disk, waited>>

-------------------------------------------------------------------------------
(* Selection: switchContext, clearContext, dispose *)

(* stopCurrent aborts, forgets the pending work and drops the subscription;
   switchContext then subscribes and requests a rescan of the new context.  *)
SwitchContext(r) ==
  /\ ~disposed
  /\ generation + 1 < MaxGeneration
  /\ generation' = generation + 2
  /\ Abort
  /\ context' = [root |-> r, id |-> generation + 1]
  /\ pending' = {Rescan}
  /\ collapsed' = FALSE
  /\ ready' = FALSE
  /\ debounce' = Debounce
  /\ maximum' = MaxLatency
  /\ waited' = 0
  /\ events' = {}
  /\ floor' = disk[r]
  /\ UNCHANGED <<inFlight, abortController, revision, disposed, outcome, disk>>

StopCurrent ==
  /\ generation' = generation + 1
  /\ ClearPending
  /\ Abort
  /\ events' = {}
  /\ context' = NoContext
  /\ floor' = 0
  /\ UNCHANGED <<inFlight, abortController, revision, outcome, disk>>

ClearContext ==
  /\ ~disposed
  /\ generation < MaxGeneration
  /\ StopCurrent
  /\ UNCHANGED disposed

Dispose ==
  /\ ~disposed
  /\ disposed' = TRUE
  /\ StopCurrent

-------------------------------------------------------------------------------
(* The refresh: runRefresh and the timers that start it *)

NewLoad == [context |-> context, generation |-> generation, aborted |-> FALSE,
            read |-> FALSE, version |-> 0]

(* runRefresh up to its await: the pending work becomes a load.            *)
RunRefresh(others) ==
  /\ loads' = others \cup {NewLoad}
  /\ inFlight' = TRUE
  /\ abortController' = generation
  /\ ClearPending

Startable == ~disposed /\ context # NoContext /\ pending # {}

(* Mutant of MarkPendingReady: the load in flight is not waited for.       *)
StartAtOnce ==
  /\ Startable
  /\ RunRefresh(loads)
  /\ UNCHANGED <<context, generation, revision, disposed, outcome, disk, events, floor>>

MarkPendingReady ==
  /\ Startable
  /\ IF inFlight
       THEN /\ ready' = TRUE
            /\ ClearTimers
            /\ UNCHANGED <<pending, collapsed, loads, inFlight, abortController>>
       ELSE RunRefresh(loads)
  /\ UNCHANGED <<context, generation, revision, disposed, outcome, disk, events, floor>>

DebounceFires == debounce = 0 /\ MarkPendingReady

MaximumFires == maximum = 0 /\ MarkPendingReady

(* Mutant of Current: only the context is compared.                        *)
SameContext(l) == ~disposed /\ l.context = context

(* The guards that a settled load must pass to reach publish or onError.   *)
Current(l) ==
  /\ ~disposed
  /\ ~l.aborted
  /\ l.generation = generation
  /\ l.context = context

(* Mutant of FinishRefresh: the next refresh is left to a later request.   *)
FinishOnly(l) ==
  /\ loads' = loads \ {l}
  /\ inFlight' = FALSE
  /\ abortController' = IF abortController = l.generation THEN 0 ELSE abortController
  /\ UNCHANGED <<pending, collapsed, ready, debounce, maximum, waited>>

(* The finally block: the next refresh starts at once if one is ready.     *)
FinishRefresh(l) ==
  IF ready /\ Startable
    THEN RunRefresh(loads \ {l})
    ELSE /\ loads' = loads \ {l}
         /\ inFlight' = FALSE
         /\ abortController' = IF abortController = l.generation THEN 0 ELSE abortController
         /\ UNCHANGED <<pending, collapsed, ready, debounce, maximum, waited>>

(* The load read the bundle and its publish callback returned.             *)
Publish(l) ==
  /\ l.read /\ Current(l)
  /\ revision' = revision + 1
  /\ outcome' = [kind |-> "published", context |-> l.context, version |-> l.version]
  /\ FinishRefresh(l)
  /\ UNCHANGED <<context, generation, disposed, disk, events, floor>>

(* The load rejected, or it was read and the publish callback threw after
   the revision had been counted.                                          *)
Fail(l) ==
  /\ Current(l)
  /\ revision' \in IF l.read THEN {revision + 1} ELSE {revision}
  /\ outcome' = [kind |-> "failed", context |-> l.context, version |-> floor]
  /\ FinishRefresh(l)
  /\ UNCHANGED <<context, generation, disposed, disk, events, floor>>

(* A superseded load settles, with a result or an error: nobody is told.   *)
Discard(l) ==
  /\ ~Current(l)
  /\ FinishRefresh(l)
  /\ UNCHANGED <<context, generation, revision, disposed, outcome, disk, events, floor>>

Settle(l) == Publish(l) \/ Fail(l) \/ Discard(l)

-------------------------------------------------------------------------------
(* The environment: the disk, the watcher, the provider and the clock *)

ModifyDisk(r, c) ==
  /\ disk[r] < MaxDisk
  /\ disk' = [disk EXCEPT ![r] = @ + 1]
  /\ events' = IF context.root = r
                 THEN events \cup {[change |-> c, version |-> disk[r] + 1]}
                 ELSE events
  /\ UNCHANGED <<coordinatorVars, loads, outcome, floor, waited>>

DeliverEvent(e) ==
  /\ Request(e.change, e.version)
  /\ events' = events \ {e}

(* An explicit refresh or validation asks for what is on disk now.         *)
RequestRescan ==
  /\ generation < MaxGeneration
  /\ context # NoContext
  /\ Request(Rescan, disk[context.root])
  /\ UNCHANGED events

(* The load takes its view of the disk; it checks the signal first.        *)
ReadBundle(l) ==
  /\ ~l.read /\ ~l.aborted
  /\ loads' = (loads \ {l}) \cup
                {[l EXCEPT !.read = TRUE, !.version = disk[l.context.root]]}
  /\ UNCHANGED <<coordinatorVars, outcome, disk, events, floor, waited>>

Remaining(timer) == IF timer = Off THEN Off ELSE timer - 1

Tick ==
  /\ debounce # 0 /\ maximum # 0
  /\ debounce > 0 \/ maximum > 0
  /\ debounce' = Remaining(debounce)
  /\ maximum' = Remaining(maximum)
  /\ waited' = waited + 1
  /\ UNCHANGED <<context, generation, pending, collapsed, ready, inFlight,
                 abortController, revision, disposed, loads, outcome, disk,
                 events, floor>>

Timers == Tick \/ DebounceFires \/ MaximumFires

Next ==
  \/ \E r \in Roots : SwitchContext(r)
  \/ \E r \in Roots, c \in FileChanges : ModifyDisk(r, c)
  \/ \E e \in events : DeliverEvent(e)
  \/ \E l \in loads : ReadBundle(l) \/ Settle(l)
  \/ RequestRescan
  \/ ClearContext
  \/ Dispose
  \/ Timers

Spec == Init /\ [][Next]_vars

(* Timers fire, watcher events arrive and provider calls settle.  Nothing
   obliges the user to select, refresh or close anything.                  *)
Fairness ==
  /\ WF_vars(Timers)
  /\ WF_vars(\E e \in events : DeliverEvent(e))
  /\ WF_vars(\E l \in loads : ReadBundle(l) \/ Settle(l))

FairSpec == Spec /\ Fairness

-------------------------------------------------------------------------------
(* Properties *)

(* No refresh starts while the provider calls of the previous one are
   outstanding, even after a switch, a clear or an abort: FR-089 of
   docs/functional-requirements.md.                                        *)
SingleFlight == \A k, l \in loads : k = l

(* A result that is published was read after every change that had been
   reported for the context it is published for, and that context is the
   selected one: a slow load of an earlier generation never wins.          *)
FreshPublication ==
  revision' # revision /\ outcome'.kind = "published" =>
    /\ ~disposed
    /\ outcome'.context = context
    /\ outcome'.version >= floor

(* One load at a time, and none of them late: two loads of a bundle never
   race, and the one that runs publishes only what is still current.       *)
OneFreshLoad == [][SingleFlight' /\ FreshPublication]_vars

(* When the coordinator is idle, the selected bundle has had an answer that
   covers every reported change: a change that arrives while a load is in
   flight, or while one is being aborted, is not forgotten.                *)
NoLostChange ==
  context # NoContext /\ pending = {} /\ loads = {} =>
    /\ outcome.context = context
    /\ outcome.version >= floor

(* A burst never keeps a change waiting longer than the maximum latency
   before a refresh is due, however often the debounce is restarted.       *)
LatencyBound == waited <= MaxLatency

(* The retained work is bounded whatever the burst.                        *)
PendingBounded ==
  /\ Cardinality(pending) <= MaxPendingPaths + 1
  /\ Cardinality(PathsOf(pending)) <= MaxPendingPaths

(* A burst of changes, however long and however they repeat, is bounded in
   time and in memory: it neither defers the refresh for ever nor fills the
   queue it waits in.                                                      *)
BurstBounded == LatencyBound /\ PendingBounded

(* The inductive invariant behind the safety properties.                   *)

Selected == context # NoContext

(* Work is only retained for a context, and a refresh that is ready is only
   held back by one in flight.                                             *)
WorkInv ==
  /\ disposed => ~Selected
  /\ ~Selected => pending = {} /\ events = {}
  /\ ready => inFlight /\ pending # {}
  /\ collapsed => pending = {Rescan}
  /\ inFlight <=> loads # {}
  /\ SingleFlight

(* Identities come from the generation counter, so a newer one is unused.  *)
IdentityInv ==
  /\ context.id <= generation
  /\ outcome.context.id <= generation
  /\ \A l \in loads : l.generation <= generation

(* No version is reported, read or due before it is on disk, and a load that
   may still be published has read every version reported so far.          *)
VersionInv ==
  /\ Selected => floor <= disk[context.root]
  /\ \A e \in events : e.version <= disk[context.root]
  /\ \A l \in loads : l.read => l.version <= disk[l.context.root]
  /\ \A l \in loads : Current(l) /\ l.read => floor <= l.version

(* Either work is pending, or a load that is current is in flight, or the
   newest request has been answered; and never the first two at once.      *)
AnswerInv ==
  /\ \A l \in loads : pending # {} => ~Current(l)
  /\ Selected /\ pending = {} =>
       \/ \E l \in loads : Current(l)
       \/ outcome.context = context /\ floor <= outcome.version

(* Both timers run exactly while unscheduled work is pending.              *)
TimerInv ==
  /\ debounce # Off <=> pending # {} /\ ~ready
  /\ maximum # Off <=> pending # {} /\ ~ready
  /\ maximum = Off => waited = 0
  /\ maximum # Off => waited + maximum = MaxLatency

RefreshInvariant == WorkInv /\ IdentityInv /\ VersionInv /\ AnswerInv /\ TimerInv

(* A change on disk of the bundle that stays selected is eventually covered
   by a publication or by a reported failure.                              *)
Answered(r, v) ==
  \/ context.root # r
  \/ outcome.context = context /\ outcome.version >= v

EventuallyReflected ==
  \A r \in Roots, v \in 1..MaxDisk :
    (context.root = r /\ disk[r] >= v) ~> Answered(r, v)

(* The coordinator implements BundleView: an answer is owed while work is
   pending or the load in flight may still be published.                   *)
Owed == pending # {} \/ \E l \in loads : Current(l)
Shown == IF outcome.context = context /\ context # NoContext
           THEN [kind |-> outcome.kind, version |-> outcome.version]
           ELSE [kind |-> "none", version |-> 0]

View == INSTANCE BundleView WITH selected <- context.root, owed <- Owed, shown <- Shown

ImplementsBundleView == View!ViewSpec

(* Every request for a refresh is answered, or its bundle is deselected.   *)
RequestsAnswered == View!ViewLive

(* Both promises of progress: modifications are reflected and requests are *)
(* answered, whatever load was aborted or failed on the way.               *)
ChangesAnswered == EventuallyReflected /\ RequestsAnswered

===============================================================================
