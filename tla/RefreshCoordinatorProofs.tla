------------------------ MODULE RefreshCoordinatorProofs ------------------------
(***************************************************************************)
(* Proofs about RefreshCoordinator for every set of roots and changes, and *)
(* for every debounce, latency and pending limit, and the proof that it    *)
(* implements BundleView.                                                  *)
(***************************************************************************)
EXTENDS RefreshCoordinator, FiniteSetTheorems, TLAPS

(* abort() only raises the aborted flag of outstanding loads.              *)
LEMMA AbortFacts ==
  ASSUME TypeOK, Abort
  PROVE  /\ loads' \subseteq Load
         /\ \A m \in loads' : \E l \in loads :
               /\ m.context = l.context /\ m.generation = l.generation
               /\ m.read = l.read /\ m.version = l.version
               /\ l.aborted => m.aborted
         /\ \A l \in loads : \E m \in loads' : m.generation = l.generation
         /\ SingleFlight => SingleFlight'
         /\ loads = {} <=> loads' = {}
  <1> DEFINE A(l) == IF l.generation = abortController
                       THEN [l EXCEPT !.aborted = TRUE] ELSE l
  <1>1. loads' = {A(l) : l \in loads}
    BY DEF Abort
  <1>2. \A l \in loads : /\ A(l) \in Load
                         /\ A(l).context = l.context /\ A(l).generation = l.generation
                         /\ A(l).read = l.read /\ A(l).version = l.version
                         /\ l.aborted => A(l).aborted
    BY DEF TypeOK, Load
  <1> HIDE DEF A
  <1>3. SingleFlight => SingleFlight'
    BY <1>1 DEF SingleFlight
  <1> QED
    BY <1>1, <1>2, <1>3

-------------------------------------------------------------------------------
(* Type correctness *)

LEMMA ContextFacts ==
  /\ NoContext \in Context
  /\ NoContext.root = NoRoot /\ NoContext.id = 0
  /\ \A c \in Context : c # NoContext <=> c \in ActiveContext
  /\ \A c \in Context : c # NoContext <=> c.root \in Roots
  /\ \A c \in ActiveContext : c.root \in Roots
  /\ \A c \in Context : c.id \in Nat
  /\ \A r \in Roots, n \in Nat : [root |-> r, id |-> n] \in Context
  BY RootsAssumption DEF Context, ActiveContext, NoContext

LEMMA RunRefreshType ==
  ASSUME TypeOK, Startable, NEW others \in SUBSET Load, RunRefresh(others)
  PROVE  /\ loads' \subseteq Load
         /\ inFlight' \in BOOLEAN /\ abortController' \in Nat
         /\ pending' \subseteq Changes
         /\ collapsed' \in BOOLEAN /\ ready' \in BOOLEAN
         /\ debounce' \in Off..Debounce /\ maximum' \in Off..MaxLatency
         /\ waited' \in Nat
  <1>1. NewLoad \in Load
    BY ContextFacts DEF TypeOK, NewLoad, Load, Startable
  <1>2. Off \in Off..Debounce /\ Off \in Off..MaxLatency
    BY LimitsAssumption DEF Off
  <1> QED
    BY <1>1, <1>2 DEF RunRefresh, ClearPending, ClearTimers, TypeOK

LEMMA FinishRefreshType ==
  ASSUME TypeOK, NEW l \in loads, FinishRefresh(l)
  PROVE  /\ loads' \subseteq Load
         /\ inFlight' \in BOOLEAN /\ abortController' \in Nat
         /\ pending' \subseteq Changes
         /\ collapsed' \in BOOLEAN /\ ready' \in BOOLEAN
         /\ debounce' \in Off..Debounce /\ maximum' \in Off..MaxLatency
         /\ waited' \in Nat
  <1>1. loads \ {l} \in SUBSET Load
    BY DEF TypeOK
  <1>2. CASE ready /\ Startable
    BY <1>1, <1>2, RunRefreshType DEF FinishRefresh
  <1>3. CASE ~(ready /\ Startable)
    <2>1. loads' \subseteq Load /\ inFlight' \in BOOLEAN
      BY <1>1, <1>3 DEF FinishRefresh
    <2>2. abortController' \in {0, abortController}
      BY <1>3 DEF FinishRefresh
    <2>3. UNCHANGED <<pending, collapsed, ready, debounce, maximum, waited>>
      BY <1>3 DEF FinishRefresh
    <2> QED
      BY <2>1, <2>2, <2>3 DEF TypeOK
  <1> QED
    BY <1>2, <1>3

LEMMA RequestType ==
  ASSUME TypeOK, NEW c \in Changes, NEW v \in Nat, Request(c, v), events' \subseteq events
  PROVE  TypeOK'
  <1>1. loads' \subseteq Load
    BY AbortFacts DEF Request
  <1>2. pending' \subseteq Changes /\ collapsed' \in BOOLEAN
    BY ChangesAssumption DEF Request, RetainPending, TypeOK
  <1>3. debounce' \in Off..Debounce /\ maximum' \in Off..MaxLatency
    BY LimitsAssumption DEF Request, SchedulePending, TypeOK, Off
  <1>4. floor' \in Nat
    BY DEF Request, Larger, TypeOK
  <1> QED
    BY <1>1, <1>2, <1>3, <1>4 DEF Request, TypeOK

(* Every reachable state is well typed.                                    *)
THEOREM TypeCorrect == Spec => []TypeOK
  <1>1. Init => TypeOK
    <2> SUFFICES ASSUME Init PROVE TypeOK
      OBVIOUS
    <2>1. outcome \in Outcome /\ context \in Context
      BY ContextFacts DEF Init, Outcome
    <2>2. debounce \in Off..Debounce /\ maximum \in Off..MaxLatency
      BY LimitsAssumption DEF Init, Off
    <2> QED
      BY <2>1, <2>2 DEF Init, TypeOK
  <1>2. TypeOK /\ [Next]_vars => TypeOK'
    <2> SUFFICES ASSUME TypeOK, [Next]_vars PROVE TypeOK'
      OBVIOUS
    <2>1. ASSUME NEW r \in Roots, SwitchContext(r) PROVE TypeOK'
      <3>1. loads' \subseteq Load
        BY <2>1, AbortFacts DEF SwitchContext
      <3>2. context' \in Context /\ floor' \in Nat
        BY <2>1, ContextFacts DEF SwitchContext, TypeOK
      <3>3. pending' \subseteq Changes
        BY <2>1, ChangesAssumption DEF SwitchContext
      <3>4. debounce' \in Off..Debounce /\ maximum' \in Off..MaxLatency
        BY <2>1, LimitsAssumption DEF SwitchContext, Off
      <3> QED
        <4>1. generation' \in Nat /\ waited' \in Nat
          BY <2>1 DEF SwitchContext, TypeOK
        <4> QED
          BY <2>1, <3>1, <3>2, <3>3, <3>4, <4>1 DEF SwitchContext, TypeOK
    <2>2. ASSUME NEW r \in Roots, NEW c \in FileChanges, ModifyDisk(r, c) PROVE TypeOK'
      <3>1. disk[r] + 1 \in Nat
        BY <2>2 DEF TypeOK
      <3>2. disk' \in [Roots -> Nat]
        BY <2>2, <3>1 DEF ModifyDisk, TypeOK
      <3>3. events' \subseteq [change : FileChanges, version : Nat]
        BY <2>2, <3>1 DEF ModifyDisk, TypeOK
      <3> QED
        BY <2>2, <3>2, <3>3 DEF ModifyDisk, TypeOK, coordinatorVars
    <2>3. ASSUME NEW e \in events, DeliverEvent(e) PROVE TypeOK'
      <3>1. e.change \in Changes /\ e.version \in Nat
        BY <2>3 DEF TypeOK, FileChanges
      <3> QED
        BY <2>3, <3>1, RequestType DEF DeliverEvent
    <2>4. CASE RequestRescan
      <3>1. disk[context.root] \in Nat
        BY <2>4, ContextFacts DEF RequestRescan, TypeOK
      <3> QED
        BY <2>4, <3>1, RequestType, ChangesAssumption DEF RequestRescan
    <2>5. ASSUME NEW l \in loads, ReadBundle(l) PROVE TypeOK'
      <3>1. disk[l.context.root] \in Nat /\ l \in Load
        BY ContextFacts DEF TypeOK, Load
      <3>2. [l EXCEPT !.read = TRUE, !.version = disk[l.context.root]] \in Load
        BY <3>1 DEF Load
      <3> QED
        BY <2>5, <3>2 DEF ReadBundle, TypeOK, coordinatorVars
    <2>6. ASSUME NEW l \in loads, Settle(l) PROVE TypeOK'
      <3>1. l.context \in Context /\ l.version \in Nat /\ floor \in Nat
        BY DEF TypeOK, Load, Context
      <3>2. outcome' \in Outcome /\ revision' \in Nat
        BY <2>6, <3>1 DEF Settle, Publish, Fail, Discard, TypeOK, Outcome
      <3>3. FinishRefresh(l)
        BY <2>6 DEF Settle, Publish, Fail, Discard
      <3> QED
        BY <2>6, <3>2, <3>3, FinishRefreshType DEF Settle, Publish, Fail, Discard, TypeOK
    <2>7. ASSUME StopCurrent, disposed' \in BOOLEAN PROVE TypeOK'
      <3>1. loads' \subseteq Load
        BY <2>7, AbortFacts DEF StopCurrent
      <3>2. Off \in Off..Debounce /\ Off \in Off..MaxLatency
        BY LimitsAssumption DEF Off
      <3> QED
        <4>1. generation' \in Nat /\ waited' \in Nat /\ floor' \in Nat
          BY <2>7 DEF StopCurrent, ClearPending, ClearTimers, TypeOK
        <4> QED
          BY <2>7, <3>1, <3>2, <4>1, ContextFacts
             DEF StopCurrent, ClearPending, ClearTimers, TypeOK
    <2>8. CASE ClearContext
      BY <2>7, <2>8 DEF ClearContext, TypeOK
    <2>9. CASE Dispose
      BY <2>7, <2>9 DEF Dispose
    <2>10. CASE Tick
      <3>1. debounce' \in Off..Debounce /\ maximum' \in Off..MaxLatency
        BY <2>10, LimitsAssumption DEF Tick, Remaining, TypeOK, Off
      <3> QED
        BY <2>10, <3>1 DEF Tick, TypeOK
    <2>11. CASE MarkPendingReady
      <3>1. CASE inFlight
        <4>1. Off \in Off..Debounce /\ Off \in Off..MaxLatency
          BY LimitsAssumption DEF Off
        <4> QED
          BY <2>11, <3>1, <4>1 DEF MarkPendingReady, ClearTimers, TypeOK
      <3>2. CASE ~inFlight
        <4>1. RunRefresh(loads) /\ Startable /\ loads \in SUBSET Load
          BY <2>11, <3>2 DEF MarkPendingReady, TypeOK
        <4> QED
          BY <2>11, <4>1, RunRefreshType DEF MarkPendingReady, TypeOK
      <3> QED
        BY <3>1, <3>2 DEF TypeOK
    <2>12. CASE UNCHANGED vars
      BY <2>12 DEF vars, coordinatorVars, TypeOK
    <2> QED
      BY <2>1, <2>2, <2>3, <2>4, <2>5, <2>6, <2>8, <2>9, <2>10, <2>11, <2>12
         DEF Next, Timers, DebounceFires, MaximumFires
  <1> QED
    BY <1>1, <1>2, PTL DEF Spec

-------------------------------------------------------------------------------
(* The inductive invariant *)

(* What a new generation does to the outstanding loads: none stays current. *)
LEMMA NewGeneration ==
  ASSUME TypeOK, TypeOK', WorkInv, IdentityInv, VersionInv, Abort,
         generation' > generation, UNCHANGED <<disk, inFlight>>
  PROVE  /\ \A m \in loads' : m.generation < generation'
         /\ \A m \in loads' : m.read => m.version <= disk'[m.context.root]
         /\ \A m \in loads' : ~Current(m)'
         /\ SingleFlight' /\ (inFlight' <=> loads' # {})
  <1>1. \A m \in loads' : m.generation < generation'
    <2> TAKE m \in loads'
    <2>1. PICK l \in loads : m.generation = l.generation
      BY AbortFacts
    <2>2. l.generation <= generation /\ l.generation \in Nat
      BY DEF IdentityInv, TypeOK, Load
    <2> QED
      BY <2>1, <2>2 DEF TypeOK
  <1>2. \A m \in loads' : m.read => m.version <= disk'[m.context.root]
    BY AbortFacts DEF VersionInv
  <1>3. \A m \in loads' : ~Current(m)'
    BY <1>1 DEF Current, TypeOK
  <1>4. SingleFlight' /\ (inFlight' <=> loads' # {})
    BY AbortFacts DEF WorkInv, TypeOK
  <1> QED
    BY <1>1, <1>2, <1>3, <1>4

LEMMA RequestInvariant ==
  ASSUME TypeOK, TypeOK', RefreshInvariant, NEW c \in Changes, NEW v \in Nat,
         v <= disk[context.root], Request(c, v), events' \subseteq events
  PROVE  RefreshInvariant'
  <1> USE DEF RefreshInvariant, Selected
  <1>1. /\ Abort /\ generation' = generation + 1 /\ generation' > generation
        /\ UNCHANGED <<disk, inFlight, ready, context, outcome, disposed, waited>>
        /\ context # NoContext /\ ~disposed
    BY DEF Request, TypeOK
  <1>2. pending' # {}
    BY DEF Request, RetainPending, WorkInv, TypeOK
  <1>3. WorkInv'
    <2>1. collapsed' => pending' = {Rescan}
      BY DEF Request, RetainPending, WorkInv
    <2> QED
      BY <1>1, <1>2, <2>1, NewGeneration DEF WorkInv
  <1>4. IdentityInv'
    <2>1. context.id \in Nat /\ outcome.context.id \in Nat
      BY ContextFacts DEF TypeOK, Outcome
    <2>2. \A m \in loads' : m.generation <= generation'
      BY <1>1, NewGeneration DEF TypeOK, Load
    <2> QED
      BY <1>1, <2>1, <2>2 DEF IdentityInv, TypeOK
  <1>5. VersionInv'
    <2>1. floor' <= disk'[context'.root]
      BY <1>1 DEF Request, Larger, VersionInv
    <2> QED
      BY <1>1, <2>1, NewGeneration DEF VersionInv
  <1>6. AnswerInv'
    BY <1>1, <1>2, NewGeneration DEF AnswerInv
  <1>7. TimerInv'
    <2>1. CASE ready
      BY <1>1, <1>2, <2>1 DEF Request, SchedulePending, TimerInv
    <2>2. CASE ~ready
      <3>1. debounce' # Off
        BY <2>2, LimitsAssumption DEF Request, SchedulePending, Off
      <3>2. maximum = Off => maximum' = MaxLatency /\ maximum' # Off /\ waited = 0
        BY <2>2, LimitsAssumption DEF Request, SchedulePending, Off, TimerInv
      <3>3. maximum # Off => maximum' = maximum /\ waited + maximum' = MaxLatency
        BY <2>2 DEF Request, SchedulePending, TimerInv
      <3>4. maximum' # Off /\ waited' + maximum' = MaxLatency
        BY <1>1, <3>2, <3>3, LimitsAssumption
      <3> QED
        BY <1>1, <1>2, <2>2, <3>1, <3>4 DEF TimerInv
    <2> QED
      BY <2>1, <2>2
  <1> QED
    BY <1>3, <1>4, <1>5, <1>6, <1>7

LEMMA SwitchInvariant ==
  ASSUME TypeOK, TypeOK', RefreshInvariant, NEW r \in Roots, SwitchContext(r)
  PROVE  RefreshInvariant'
  <1> USE DEF RefreshInvariant, Selected
  <1>1. /\ Abort /\ generation' = generation + 2 /\ generation' > generation
        /\ UNCHANGED <<disk, inFlight, outcome, disposed>>
        /\ ~disposed /\ pending' = {Rescan} /\ events' = {}
    BY DEF SwitchContext, TypeOK
  <1>2. context' = [root |-> r, id |-> generation + 1] /\ context' # NoContext
    BY ContextFacts DEF SwitchContext, TypeOK, NoContext
  <1>3. WorkInv'
    BY <1>1, <1>2, NewGeneration DEF SwitchContext, WorkInv
  <1>4. IdentityInv'
    <2>1. outcome.context.id \in Nat
      BY ContextFacts DEF TypeOK, Outcome
    <2>2. \A m \in loads' : m.generation <= generation'
      BY <1>1, NewGeneration DEF TypeOK, Load
    <2>3. context'.id <= generation'
      BY <1>1, <1>2 DEF TypeOK
    <2> QED
      BY <1>1, <2>1, <2>2, <2>3 DEF IdentityInv, TypeOK
  <1>5. VersionInv'
    <2>1. floor' <= disk'[context'.root]
      BY <1>1, <1>2 DEF SwitchContext, TypeOK
    <2> QED
      BY <1>1, <2>1, NewGeneration DEF VersionInv
  <1>6. AnswerInv'
    BY <1>1, NewGeneration DEF AnswerInv
  <1>7. TimerInv'
    BY <1>1, LimitsAssumption DEF SwitchContext, TimerInv, Off
  <1> QED
    BY <1>3, <1>4, <1>5, <1>6, <1>7

LEMMA StopInvariant ==
  ASSUME TypeOK, TypeOK', RefreshInvariant, StopCurrent
  PROVE  RefreshInvariant'
  <1> USE DEF RefreshInvariant, Selected
  <1>1. /\ Abort /\ generation' = generation + 1 /\ generation' > generation
        /\ UNCHANGED <<disk, inFlight, outcome>>
        /\ pending' = {} /\ events' = {} /\ context' = NoContext
        /\ ready' = FALSE /\ collapsed' = FALSE
    BY DEF StopCurrent, ClearPending, TypeOK
  <1>3. WorkInv'
    BY <1>1, NewGeneration DEF WorkInv
  <1>4. IdentityInv'
    <2>1. outcome.context.id \in Nat /\ NoContext.id = 0
      BY ContextFacts DEF TypeOK, Outcome
    <2>2. \A m \in loads' : m.generation <= generation'
      BY <1>1, NewGeneration DEF TypeOK, Load
    <2> QED
      BY <1>1, <2>1, <2>2 DEF IdentityInv, TypeOK
  <1>5. VersionInv'
    BY <1>1, NewGeneration DEF VersionInv
  <1>6. AnswerInv'
    BY <1>1, NewGeneration DEF AnswerInv
  <1>7. TimerInv'
    BY <1>1 DEF StopCurrent, ClearPending, ClearTimers, TimerInv
  <1> QED
    BY <1>3, <1>4, <1>5, <1>6, <1>7

(* Starting a refresh when no other load is outstanding.                   *)
LEMMA RunRefreshInvariant ==
  ASSUME TypeOK, TypeOK', RefreshInvariant, Startable, RunRefresh({}),
         UNCHANGED <<context, generation, disposed, disk, events, floor>>,
         outcome'.context.id <= generation
  PROVE  RefreshInvariant'
  <1> USE DEF RefreshInvariant, Selected
  <1>1. /\ loads' = {NewLoad} /\ inFlight' = TRUE /\ pending' = {}
        /\ ready' = FALSE /\ collapsed' = FALSE
        /\ context # NoContext /\ ~disposed
    BY DEF RunRefresh, ClearPending, Startable
  <1>2. /\ NewLoad.context = context /\ NewLoad.generation = generation
        /\ ~NewLoad.aborted /\ ~NewLoad.read
    BY DEF NewLoad
  <1>3. WorkInv'
    BY <1>1, <1>2 DEF WorkInv, SingleFlight
  <1>4. IdentityInv'
    BY <1>1, <1>2 DEF IdentityInv, TypeOK
  <1>5. VersionInv'
    BY <1>1, <1>2 DEF VersionInv
  <1>6. AnswerInv'
    BY <1>1, <1>2 DEF AnswerInv, Current
  <1>7. TimerInv'
    BY <1>1 DEF RunRefresh, ClearPending, ClearTimers, TimerInv
  <1> QED
    BY <1>3, <1>4, <1>5, <1>6, <1>7

LEMMA SettleInvariant ==
  ASSUME TypeOK, TypeOK', RefreshInvariant, NEW l \in loads, Settle(l)
  PROVE  RefreshInvariant'
  <1> USE DEF RefreshInvariant, Selected
  <1>1. /\ FinishRefresh(l)
        /\ UNCHANGED <<context, generation, disposed, disk, events, floor>>
    BY DEF Settle, Publish, Fail, Discard
  <1>2. loads \ {l} = {}
    BY DEF WorkInv, SingleFlight
  <1>3. /\ l \in Load /\ l.generation <= generation
        /\ floor \in Nat /\ outcome.context.id <= generation
    BY DEF TypeOK, IdentityInv
  <1>4. outcome' = outcome \/ outcome'.context = context
    BY DEF Settle, Publish, Fail, Discard, Current
  <1>5. outcome'.context.id <= generation
    BY <1>3, <1>4 DEF IdentityInv
  <1>6. CASE ready /\ Startable
    <2>1. RunRefresh({})
      BY <1>1, <1>2, <1>6 DEF FinishRefresh
    <2> QED
      BY <1>1, <1>5, <1>6, <2>1, RunRefreshInvariant
  <1>7. CASE ~(ready /\ Startable)
    <2>1. /\ loads' = {} /\ inFlight' = FALSE
          /\ UNCHANGED <<pending, collapsed, ready, debounce, maximum, waited>>
      BY <1>1, <1>2, <1>7 DEF FinishRefresh
    <2>2. ~ready
      BY <1>7 DEF WorkInv, Startable
    <2>3. WorkInv'
      BY <1>1, <2>1, <2>2 DEF WorkInv, SingleFlight
    <2>4. IdentityInv'
      BY <1>1, <1>5, <2>1 DEF IdentityInv
    <2>5. VersionInv'
      BY <1>1, <2>1 DEF VersionInv
    <2>6. AnswerInv'
      <3>1. CASE Current(l)
        <4>1. outcome'.context = context /\ floor <= outcome'.version
          BY <1>3, <3>1 DEF Settle, Publish, Fail, Discard, Current, VersionInv
        <4> QED
          BY <1>1, <2>1, <4>1 DEF AnswerInv
      <3>2. CASE ~Current(l)
        <4>1. outcome' = outcome
          BY <3>2 DEF Settle, Publish, Fail, Discard
        <4>2. \A m \in loads : ~Current(m)
          BY <1>2, <3>2
        <4> QED
          BY <1>1, <2>1, <4>1, <4>2 DEF AnswerInv
      <3> QED
        BY <3>1, <3>2
    <2>7. TimerInv'
      BY <2>1 DEF TimerInv
    <2> QED
      BY <2>3, <2>4, <2>5, <2>6, <2>7
  <1> QED
    BY <1>6, <1>7

LEMMA DueInvariant ==
  ASSUME TypeOK, TypeOK', RefreshInvariant, MarkPendingReady
  PROVE  RefreshInvariant'
  <1> USE DEF RefreshInvariant, Selected
  <1>1. /\ UNCHANGED <<context, generation, disposed, outcome, disk, events, floor>>
        /\ Startable
    BY DEF MarkPendingReady
  <1>2. CASE inFlight
    <2>1. /\ ready' = TRUE /\ ClearTimers
          /\ UNCHANGED <<pending, collapsed, loads, inFlight, abortController>>
      BY <1>2 DEF MarkPendingReady
    <2>2. WorkInv'
      BY <1>1, <1>2, <2>1 DEF WorkInv, SingleFlight, Startable
    <2>3. IdentityInv'
      BY <1>1, <2>1 DEF IdentityInv
    <2>4. VersionInv'
      BY <1>1, <2>1 DEF VersionInv, Current
    <2>5. AnswerInv'
      BY <1>1, <2>1 DEF AnswerInv, Current
    <2>6. TimerInv'
      BY <2>1 DEF ClearTimers, TimerInv
    <2> QED
      BY <2>2, <2>3, <2>4, <2>5, <2>6
  <1>3. CASE ~inFlight
    <2>1. loads = {} /\ RunRefresh(loads)
      BY <1>3 DEF MarkPendingReady, WorkInv
    <2>2. outcome'.context.id <= generation
      BY <1>1 DEF IdentityInv
    <2> QED
      BY <1>1, <2>1, <2>2, RunRefreshInvariant
  <1> QED
    BY <1>2, <1>3 DEF TypeOK

(* The environment: nothing it does makes an answer stale or forgets one.  *)
LEMMA EnvironmentInvariant ==
  ASSUME TypeOK, TypeOK', RefreshInvariant,
         \/ \E r \in Roots, c \in FileChanges : ModifyDisk(r, c)
         \/ \E l \in loads : ReadBundle(l)
         \/ Tick
         \/ UNCHANGED vars
  PROVE  RefreshInvariant'
  <1> USE DEF RefreshInvariant, Selected
  <1>1. ASSUME NEW r \in Roots, NEW c \in FileChanges, ModifyDisk(r, c)
        PROVE  RefreshInvariant'
    <2>1. UNCHANGED <<coordinatorVars, loads, outcome, floor, waited>>
      BY <1>1 DEF ModifyDisk
    <2>2. /\ \A q \in Roots : disk[q] \in Nat /\ disk'[q] \in Nat /\ disk[q] <= disk'[q]
          /\ disk'[r] = disk[r] + 1
      BY <1>1 DEF ModifyDisk, TypeOK
    <2>3. WorkInv'
      <3>1. ~Selected => events' = {}
        BY <1>1, ContextFacts DEF ModifyDisk, WorkInv, TypeOK
      <3> QED
        BY <2>1, <3>1 DEF WorkInv, SingleFlight, coordinatorVars
    <2>4. VersionInv'
      <3>1. Selected => floor <= disk'[context.root]
        BY <2>2, ContextFacts DEF VersionInv, TypeOK
      <3>2. \A e \in events' : e.version <= disk'[context.root]
        <4>1. CASE context.root = r
          <5> SUFFICES ASSUME NEW e \in events' PROVE e.version <= disk'[r]
            BY <4>1
          <5>1. CASE e \in events
            BY <2>2, <4>1, <5>1 DEF VersionInv, TypeOK
          <5>2. CASE e = [change |-> c, version |-> disk[r] + 1]
            BY <2>2, <5>2
          <5> QED
            BY <1>1, <4>1, <5>1, <5>2 DEF ModifyDisk
        <4>2. CASE context.root # r
          BY <1>1, <2>1, <4>2 DEF ModifyDisk, VersionInv, TypeOK, coordinatorVars
        <4> QED
          BY <4>1, <4>2
      <3>3. \A l \in loads : l.read => l.version <= disk'[l.context.root]
        BY <2>2, ContextFacts DEF VersionInv, TypeOK, Load
      <3> QED
        BY <2>1, <3>1, <3>2, <3>3 DEF VersionInv, Current, coordinatorVars
    <2> QED
      BY <2>1, <2>3, <2>4 DEF IdentityInv, AnswerInv, TimerInv, Current, coordinatorVars
  <1>2. ASSUME NEW l \in loads, ReadBundle(l)
        PROVE  RefreshInvariant'
    <2> DEFINE m == [l EXCEPT !.read = TRUE, !.version = disk[l.context.root]]
    <2>1. /\ UNCHANGED <<coordinatorVars, outcome, disk, events, floor, waited>>
          /\ loads' = {m}
      BY <1>2 DEF ReadBundle, WorkInv, SingleFlight
    <2>2. /\ m.context = l.context /\ m.generation = l.generation
          /\ m.aborted = l.aborted /\ m.read /\ m.version = disk[l.context.root]
          /\ disk[l.context.root] \in Nat
      BY ContextFacts DEF TypeOK, Load
    <2> HIDE DEF m
    <2>3. WorkInv'
      BY <2>1 DEF WorkInv, SingleFlight, coordinatorVars
    <2>4. IdentityInv'
      BY <2>1, <2>2 DEF IdentityInv, coordinatorVars
    <2>5. VersionInv'
      <3>1. Current(m) => l.context = context /\ context # NoContext
        BY <2>2, ContextFacts DEF Current, TypeOK, Load
      <3> QED
        BY <2>1, <2>2, <3>1 DEF VersionInv, Current, coordinatorVars
    <2>6. AnswerInv'
      <3>1. Current(m) <=> Current(l)
        BY <2>2 DEF Current
      <3>2. loads = {l}
        BY DEF WorkInv, SingleFlight
      <3> QED
        BY <2>1, <3>1, <3>2 DEF AnswerInv, Current, coordinatorVars
    <2> QED
      BY <2>1, <2>3, <2>4, <2>5, <2>6 DEF TimerInv, coordinatorVars
  <1>3. CASE Tick
    <2>1. UNCHANGED <<context, generation, pending, collapsed, ready, inFlight,
                 abortController, revision, disposed, loads, outcome, disk,
                 events, floor>>
      BY <1>3 DEF Tick
    <2>2. TimerInv'
      <3>1. debounce # Off /\ maximum # Off /\ waited + maximum = MaxLatency
        BY <1>3 DEF Tick, TimerInv, Off
      <3>2. debounce' # Off /\ maximum' # Off /\ waited' + maximum' = MaxLatency
        BY <1>3, <3>1, LimitsAssumption DEF Tick, Remaining, TypeOK, Off
      <3> QED
        BY <2>1, <3>1, <3>2 DEF TimerInv
    <2> QED
      BY <2>1, <2>2 DEF WorkInv, SingleFlight, IdentityInv, VersionInv, AnswerInv, Current
  <1>4. CASE UNCHANGED vars
    BY <1>4 DEF vars, coordinatorVars, WorkInv, SingleFlight, IdentityInv, VersionInv,
                AnswerInv, Current, TimerInv
  <1> QED
    BY <1>1, <1>2, <1>3, <1>4

(* The invariant holds in every reachable state.                           *)
THEOREM Invariant == Spec => []RefreshInvariant
  <1>1. Init => RefreshInvariant
    BY LimitsAssumption DEF Init, RefreshInvariant, Selected, WorkInv, SingleFlight,
       IdentityInv, VersionInv, AnswerInv, TimerInv, NoContext, Off
  <1>2. TypeOK /\ TypeOK' /\ RefreshInvariant /\ [Next]_vars => RefreshInvariant'
    <2> SUFFICES ASSUME TypeOK, TypeOK', RefreshInvariant, [Next]_vars
                 PROVE  RefreshInvariant'
      OBVIOUS
    <2>1. ASSUME NEW r \in Roots, SwitchContext(r) PROVE RefreshInvariant'
      BY <2>1, SwitchInvariant
    <2>2. ASSUME NEW e \in events, DeliverEvent(e) PROVE RefreshInvariant'
      <3>1. /\ e.change \in Changes /\ e.version \in Nat
            /\ e.version <= disk[context.root]
        BY DEF TypeOK, FileChanges, RefreshInvariant, VersionInv
      <3> QED
        BY <2>2, <3>1, RequestInvariant DEF DeliverEvent
    <2>3. CASE RequestRescan
      <3>1. disk[context.root] \in Nat /\ disk[context.root] <= disk[context.root]
        BY <2>3, ContextFacts DEF RequestRescan, TypeOK
      <3> QED
        BY <2>3, <3>1, RequestInvariant, ChangesAssumption DEF RequestRescan
    <2>4. ASSUME NEW l \in loads, Settle(l) PROVE RefreshInvariant'
      BY <2>4, SettleInvariant
    <2>5. CASE ClearContext
      BY <2>5, StopInvariant DEF ClearContext
    <2>6. CASE Dispose
      BY <2>6, StopInvariant DEF Dispose
    <2>7. CASE DebounceFires \/ MaximumFires
      BY <2>7, DueInvariant DEF DebounceFires, MaximumFires
    <2> QED
      BY <2>1, <2>2, <2>3, <2>4, <2>5, <2>6, <2>7, EnvironmentInvariant DEF Next, Timers
  <1> QED
    BY <1>1, <1>2, TypeCorrect, PTL DEF Spec

(* FR-089: at most one refresh has provider calls outstanding.             *)
THEOREM OneRefreshAtATime == Spec => []SingleFlight
  BY Invariant, PTL DEF RefreshInvariant, WorkInv

(* An idle coordinator has answered everything it was asked.               *)
THEOREM NothingForgotten == Spec => []NoLostChange
  <1>1. RefreshInvariant => NoLostChange
    BY DEF RefreshInvariant, AnswerInv, NoLostChange, Selected, VersionInv
  <1> QED
    BY <1>1, Invariant, PTL

(* The maximum latency bounds how long a burst defers a refresh.           *)
THEOREM LatencyIsBounded == Spec => []LatencyBound
  <1>1. TypeOK /\ RefreshInvariant => LatencyBound
    BY LimitsAssumption DEF TypeOK, RefreshInvariant, TimerInv, LatencyBound, Off
  <1> QED
    BY <1>1, Invariant, TypeCorrect, PTL

(* No two loads race, and a publication is for the selected context and
   covers every change that had been reported for it: no slow load of an
   earlier generation wins.                                                *)
THEOREM OneLoadAndFresh == Spec => OneFreshLoad
  <1>1. TypeOK /\ RefreshInvariant /\ [Next]_vars => [FreshPublication]_vars
    <2> SUFFICES ASSUME TypeOK, RefreshInvariant, Next PROVE FreshPublication
      OBVIOUS
    <2>1. ASSUME NEW l \in loads, Publish(l) PROVE FreshPublication
      <3>1. /\ l.read /\ Current(l) /\ floor <= l.version
            /\ l.version \in Nat /\ floor \in Nat
        BY <2>1 DEF Publish, RefreshInvariant, VersionInv, TypeOK, Load
      <3> QED
        BY <2>1, <3>1 DEF Publish, Current, FreshPublication
    <2>2. ASSUME NEW l \in loads, Fail(l) PROVE FreshPublication
      BY <2>2 DEF Fail, FreshPublication
    <2>3. CASE UNCHANGED revision
      BY <2>3 DEF FreshPublication
    <2> QED
      BY <2>1, <2>2, <2>3 DEF Next, Settle, Timers, SwitchContext, ModifyDisk,
         DeliverEvent, Request, ReadBundle, Discard, RequestRescan, ClearContext,
         Dispose, StopCurrent, Tick, DebounceFires, MaximumFires, MarkPendingReady,
         coordinatorVars
  <1>2. RefreshInvariant => SingleFlight
    BY DEF RefreshInvariant, WorkInv
  <1> QED
    BY <1>1, <1>2, Invariant, TypeCorrect, PTL DEF Spec, OneFreshLoad

-------------------------------------------------------------------------------
(* The queue of pending changes *)

(* PendingBounded is about cardinalities, so its sets must be known finite. *)
QueueInv ==
  /\ IsFiniteSet(pending) /\ IsFiniteSet(PathsOf(pending))
  /\ PendingBounded

(* Nothing, or one rescan, is within every limit.                           *)
LEMMA SmallQueue ==
  ASSUME pending' \in {{}, {Rescan}}
  PROVE  QueueInv'
  <1>1. PathsOf(pending)' = {}
    BY DEF PathsOf, Rescan
  <1>2. /\ IsFiniteSet({}) /\ Cardinality({}) = 0
        /\ IsFiniteSet({Rescan}) /\ Cardinality({Rescan}) = 1
    BY FS_EmptySet, FS_Singleton
  <1> QED
    BY <1>1, <1>2, LimitsAssumption DEF QueueInv, PendingBounded

(* A change that does not overflow the queue fits in it.                    *)
LEMMA RetainedQueue ==
  ASSUME QueueInv, NEW c \in Changes, RetainPending(c)
  PROVE  QueueInv'
  <1>1. CASE collapsed
    BY <1>1 DEF RetainPending, QueueInv, PendingBounded, PathsOf
  <1>2. CASE ~collapsed /\ Overflows(c)
    BY <1>2, SmallQueue DEF RetainPending
  <1>3. CASE ~collapsed /\ ~Overflows(c)
    <2>1. pending' = pending \cup {c}
      BY <1>3 DEF RetainPending
    <2>2. PathsOf(pending \cup {c}) = PathsOf(pending) \cup c.paths
      BY DEF PathsOf
    <2>3. IsFiniteSet(PathsOf(pending \cup {c}))
      BY <2>2, PathsAssumption, FS_Union DEF QueueInv
    <2>4. Cardinality(PathsOf(pending \cup {c})) <= MaxPendingPaths
      BY <1>3, <2>3, FS_CardinalityType, LimitsAssumption DEF Overflows
    <2>5. IsFiniteSet(pending \cup {c}) /\ Cardinality(pending \cup {c}) <= MaxPendingPaths + 1
      <3>1. Cardinality(pending) \in Nat
        BY FS_CardinalityType DEF QueueInv
      <3>2. /\ IsFiniteSet(pending \cup {c})
            /\ Cardinality(pending \cup {c}) =
                 IF c \in pending THEN Cardinality(pending) ELSE Cardinality(pending) + 1
        BY FS_AddElement DEF QueueInv
      <3>3. /\ c \notin pending => ~(Cardinality(pending) >= MaxPendingPaths + 1)
            /\ Cardinality(pending) <= MaxPendingPaths + 1
        BY <1>3 DEF QueueInv, PendingBounded, Overflows
      <3>4. CASE c \in pending
        BY <3>2, <3>3, <3>4
      <3>5. CASE c \notin pending
        BY <3>1, <3>2, <3>3, <3>5, LimitsAssumption
      <3> QED
        BY <3>4, <3>5
    <2>6. PathsOf(pending)' = PathsOf(pending \cup {c})
      BY <2>1 DEF PathsOf
    <2> QED
      BY <2>1, <2>3, <2>4, <2>5, <2>6 DEF QueueInv, PendingBounded
  <1> QED
    BY <1>1, <1>2, <1>3

(* However many changes arrive while a refresh cannot start, the queue they *)
(* wait in stays within its limits.                                         *)
THEOREM QueueIsBounded == Spec => []PendingBounded
  <1>1. Init => QueueInv
    <2> SUFFICES ASSUME Init PROVE QueueInv
      OBVIOUS
    <2>1. pending = {} /\ PathsOf(pending) = {}
      BY DEF Init, PathsOf
    <2> QED
      BY <2>1, FS_EmptySet, LimitsAssumption DEF QueueInv, PendingBounded
  <1>2. TypeOK /\ QueueInv /\ [Next]_vars => QueueInv'
    <2> SUFFICES ASSUME TypeOK, QueueInv, [Next]_vars PROVE QueueInv'
      OBVIOUS
    <2>1. ASSUME pending' = pending PROVE QueueInv'
      BY <2>1 DEF QueueInv, PendingBounded, PathsOf
    <2>2. ASSUME NEW c \in Changes, NEW v, Request(c, v) PROVE QueueInv'
      BY <2>2, RetainedQueue DEF Request
    <2>3. ASSUME NEW r \in Roots, SwitchContext(r) PROVE QueueInv'
      BY <2>3, SmallQueue DEF SwitchContext
    <2>4. ASSUME NEW e \in events, DeliverEvent(e) PROVE QueueInv'
      BY <2>2, <2>4 DEF DeliverEvent, TypeOK, FileChanges
    <2>5. CASE RequestRescan
      BY <2>2, <2>5, ChangesAssumption DEF RequestRescan
    <2>6. ASSUME NEW l \in loads, Settle(l) PROVE QueueInv'
      <3>1. FinishRefresh(l)
        BY <2>6 DEF Settle, Publish, Fail, Discard
      <3> QED
        BY <3>1, <2>1, SmallQueue DEF FinishRefresh, RunRefresh, ClearPending
    <2>7. CASE ClearContext \/ Dispose
      BY <2>7, SmallQueue DEF ClearContext, Dispose, StopCurrent, ClearPending
    <2>8. CASE DebounceFires \/ MaximumFires
      BY <2>8, <2>1, SmallQueue DEF DebounceFires, MaximumFires, MarkPendingReady, RunRefresh, ClearPending
    <2>9. ASSUME \/ \E r \in Roots, c \in FileChanges : ModifyDisk(r, c)
                 \/ \E l \in loads : ReadBundle(l)
                 \/ Tick \/ UNCHANGED vars
          PROVE  QueueInv'
      BY <2>9, <2>1 DEF ModifyDisk, ReadBundle, Tick, vars, coordinatorVars
    <2> QED
      BY <2>3, <2>4, <2>5, <2>6, <2>7, <2>8, <2>9 DEF Next, Timers
  <1>3. QueueInv => PendingBounded
    BY DEF QueueInv
  <1> QED
    BY <1>1, <1>2, <1>3, TypeCorrect, PTL DEF Spec

(* A burst is bounded in time and in memory.                                *)
THEOREM BurstIsBounded == Spec => []BurstBounded
  BY LatencyIsBounded, QueueIsBounded, PTL DEF BurstBounded

-----------------------------------------------------------------------------
(* RefreshCoordinator implements BundleView: every step of the coordinator *)
(* is a step of the abstract service or leaves what it shows alone.  The   *)
(* invariant is needed where the abstraction could be lied to: a switch    *)
(* must make the old answer unrecognisable (IdentityInv), an answer must   *)
(* discharge all the work that is owed (AnswerInv) and must not be older   *)
(* than what was reported (VersionInv).                                    *)

Step == [View!ViewNext]_(View!viewVars)

(* A request that is accepted leaves work to do.                           *)
LEMMA RequestAsks ==
  ASSUME TypeOK, RefreshInvariant, NEW c \in Changes, NEW v \in Nat,
         v <= disk[context.root], Request(c, v)
  PROVE  View!AskSome
  <1>1. /\ context # NoContext /\ context.root \in Roots /\ context.root # NoRoot
        /\ disk[context.root] \in Nat /\ floor \in Nat /\ floor <= disk[context.root]
    BY ContextFacts, RootsAssumption DEF Request, TypeOK, Context, ActiveContext,
       RefreshInvariant, VersionInv, Selected
  <1>2. /\ floor' = Larger(floor, v)
        /\ UNCHANGED <<context, disk, outcome>>
    BY DEF Request
  <1>3. floor' \in floor..disk[context.root]
    BY <1>1, <1>2 DEF Larger
  <1>4. pending' # {}
    BY DEF Request, RetainPending, RefreshInvariant, WorkInv
  <1>5. Owed' = TRUE
    BY <1>4 DEF Owed
  <1>6. Shown' = Shown
    BY <1>2 DEF Shown
  <1>7. View!Ask(floor')
    BY <1>1, <1>2, <1>3, <1>5, <1>6 DEF View!Ask
  <1> QED
    BY <1>1, <1>3, <1>7 DEF View!AskSome

(* A switch starts over: the answer of the old context is not shown.       *)
LEMMA SwitchSelects ==
  ASSUME TypeOK, RefreshInvariant, NEW r \in Roots, SwitchContext(r)
  PROVE  View!SelectRoot(r)
  <1>1. /\ context' = [root |-> r, id |-> generation + 1]
        /\ pending' # {} /\ floor' = disk[r] /\ UNCHANGED <<disk, outcome>>
    BY DEF SwitchContext
  <1>2. outcome'.context.id <= generation /\ generation \in Nat
    BY <1>1 DEF TypeOK, RefreshInvariant, IdentityInv
  <1>3. outcome'.context.id # context'.id
    <2>1. outcome'.context.id \in Nat
      BY <1>1, ContextFacts DEF TypeOK, Outcome, Context, ActiveContext
    <2> QED
      BY <1>1, <1>2, <2>1
  <1>4. Owed' = TRUE
    BY <1>1 DEF Owed
  <1>5. Shown' = View!Nothing
    BY <1>3 DEF Shown, View!Nothing
  <1> QED
    BY <1>1, <1>4, <1>5 DEF View!SelectRoot

LEMMA StopDeselects ==
  ASSUME TypeOK, RefreshInvariant, StopCurrent
  PROVE  View!Deselect
  <1>1. /\ generation' = generation + 1 /\ pending' = {} /\ context' = NoContext
        /\ floor' = 0 /\ Abort /\ UNCHANGED disk
    BY DEF StopCurrent, ClearPending
  <1>2. \A l \in loads' : l.generation <= generation /\ l.generation \in Nat
    BY <1>1, AbortFacts DEF RefreshInvariant, IdentityInv, Abort, TypeOK, Load
  <1>3. Owed' = FALSE
    BY <1>1, <1>2 DEF Owed, Current, TypeOK
  <1>4. Shown' = View!Nothing
    BY <1>1 DEF Shown, View!Nothing
  <1> QED
    BY <1>1, <1>3, <1>4, ContextFacts DEF View!Deselect

(* Starting a load keeps the answer owed: the new load is current.         *)
LEMMA RunRefreshOwes ==
  ASSUME TypeOK, Startable, NEW others, RunRefresh(others),
         UNCHANGED <<context, generation, disposed>>
  PROVE  Owed /\ Owed' = TRUE
  <1>1. Owed
    BY DEF Startable, Owed
  <1>2. NewLoad' \in loads'
    BY DEF RunRefresh, NewLoad
  <1>3. Current(NewLoad)'
    BY DEF NewLoad, Current, Startable
  <1> QED
    BY <1>1, <1>2, <1>3 DEF Owed

(* A result or an error that is told discharges everything that is owed.   *)
LEMMA AnswerDischarges ==
  ASSUME TypeOK, RefreshInvariant, NEW l \in loads, Current(l), FinishRefresh(l)
  PROVE  Owed /\ Owed' = FALSE
  <1>1. loads \ {l} = {} /\ pending = {} /\ ~ready
    BY DEF RefreshInvariant, WorkInv, SingleFlight, AnswerInv
  <1>2. loads' = {} /\ pending' = {}
    BY <1>1 DEF FinishRefresh
  <1> QED
    BY <1>2 DEF Owed

LEMMA SettleAnswers ==
  ASSUME TypeOK, RefreshInvariant, NEW l \in loads, Settle(l)
  PROVE  View!ShowSome \/ View!FailRefresh \/ UNCHANGED View!viewVars
  <1>1. /\ l \in Load /\ l.context \in ActiveContext /\ l.context # NoContext
        /\ l.context.root \in Roots /\ l.context.root # NoRoot
        /\ l.version \in Nat /\ floor \in Nat /\ disk[l.context.root] \in Nat
    BY ContextFacts, RootsAssumption DEF TypeOK, Load, ActiveContext
  <1>2. CASE Publish(l)
    <2>1. Current(l) /\ l.read /\ l.context = context /\ FinishRefresh(l)
      BY <1>2 DEF Publish, Current
    <2>2. l.version \in floor..disk[context.root]
      BY <1>1, <2>1 DEF RefreshInvariant, VersionInv
    <2>3. Owed /\ Owed' = FALSE
      BY <2>1, AnswerDischarges
    <2>4. Shown' = [kind |-> "published", version |-> l.version]
      BY <1>1, <1>2, <2>1 DEF Publish, Shown
    <2>5. View!Show(l.version)
      BY <1>2, <2>2, <2>3, <2>4 DEF Publish, View!Show
    <2> QED
      BY <1>1, <2>1, <2>2, <2>5 DEF View!ShowSome
  <1>3. CASE Fail(l)
    <2>1. Current(l) /\ l.context = context /\ FinishRefresh(l)
      BY <1>3 DEF Fail, Current
    <2>2. Owed /\ Owed' = FALSE
      BY <2>1, AnswerDischarges
    <2>3. Shown' = [kind |-> "failed", version |-> floor]
      BY <1>1, <1>3, <2>1 DEF Fail, Shown
    <2> QED
      BY <1>3, <2>2, <2>3 DEF Fail, View!FailRefresh
  <1>4. CASE Discard(l)
    <2>1. /\ ~Current(l) /\ FinishRefresh(l)
          /\ UNCHANGED <<context, generation, disposed, outcome, disk, floor>>
      BY <1>4 DEF Discard
    <2>2. Shown' = Shown
      BY <2>1 DEF Shown
    <2>3. Owed' = Owed
      <3>1. CASE ready /\ Startable
        <4>1. RunRefresh(loads \ {l})
          BY <2>1, <3>1 DEF FinishRefresh
        <4> QED
          BY <2>1, <3>1, <4>1, RunRefreshOwes DEF Owed
      <3>2. CASE ~(ready /\ Startable)
        <4>1. loads' = {} /\ pending' = pending
          BY <2>1, <3>2 DEF FinishRefresh, RefreshInvariant, WorkInv, SingleFlight
        <4>2. \A m \in loads : ~Current(m)
          BY <2>1 DEF RefreshInvariant, WorkInv, SingleFlight
        <4> QED
          BY <4>1, <4>2 DEF Owed
      <3> QED
        BY <3>1, <3>2
    <2> QED
      BY <2>1, <2>2, <2>3 DEF View!viewVars
  <1> QED
    BY <1>2, <1>3, <1>4 DEF Settle

(* A timer that fires turns pending work into a load, or leaves it ready.  *)
LEMMA DueStutters ==
  ASSUME TypeOK, MarkPendingReady
  PROVE  UNCHANGED View!viewVars
  <1>1. UNCHANGED <<context, generation, disposed, outcome, disk, floor>>
    BY DEF MarkPendingReady
  <1>2. Shown' = Shown
    BY <1>1 DEF Shown
  <1>3. Owed' = Owed
    <2>1. CASE inFlight
      BY <2>1 DEF MarkPendingReady, Owed, Startable
    <2>2. CASE ~inFlight
      BY <1>1, <2>2, RunRefreshOwes DEF MarkPendingReady, Owed
    <2> QED
      BY <2>1, <2>2
  <1> QED
    BY <1>1, <1>2, <1>3 DEF View!viewVars

LEMMA ReadStutters ==
  ASSUME TypeOK, NEW l \in loads, ReadBundle(l)
  PROVE  UNCHANGED View!viewVars
  <1> DEFINE r == [l EXCEPT !.read = TRUE, !.version = disk[l.context.root]]
  <1>1. /\ loads' = (loads \ {l}) \cup {r}
        /\ UNCHANGED <<context, generation, disposed, pending, outcome, disk, floor>>
    BY DEF ReadBundle, coordinatorVars
  <1>2. /\ r.aborted = l.aborted /\ r.generation = l.generation
        /\ r.context = l.context
    BY DEF TypeOK, Load
  <1>3. \A m : Current(m)' <=> Current(m)
    BY <1>1 DEF Current
  <1>4. Current(r) <=> Current(l)
    BY <1>2 DEF Current
  <1>5. (\E m \in loads' : Current(m)') <=> (\E m \in loads : Current(m))
    BY <1>1, <1>3, <1>4
  <1>6. Owed' = Owed
    BY <1>1, <1>5 DEF Owed
  <1>7. Shown' = Shown
    BY <1>1 DEF Shown
  <1> QED
    BY <1>1, <1>6, <1>7 DEF View!viewVars

(* What neither moves the clock nor the coordinator shows nothing.         *)
LEMMA QuietStutters ==
  ASSUME UNCHANGED <<context, generation, disposed, pending, loads, outcome, disk, floor>>
  PROVE  UNCHANGED View!viewVars
  BY DEF View!viewVars, Owed, Shown, Current

LEMMA ModifyModifies ==
  ASSUME NEW r \in Roots, NEW c, ModifyDisk(r, c)
  PROVE  View!Modify(r)
  BY DEF ModifyDisk, coordinatorVars, View!Modify, Owed, Shown, Current

(* FR-089 and FR-090: the coordinator implements the abstract refresh
   service that the rest of the extension is modelled on.                  *)
THEOREM CoordinatorImplementsView == Spec => ImplementsBundleView
  <1>1. Init => View!ViewInit
    BY ContextFacts DEF Init, View!ViewInit, View!Nothing, Owed, Shown
  <1>2. TypeOK /\ RefreshInvariant /\ [Next]_vars => Step
    <2> SUFFICES ASSUME TypeOK, RefreshInvariant, [Next]_vars PROVE Step
      OBVIOUS
    <2> USE DEF Step, View!ViewNext
    <2>1. ASSUME NEW r \in Roots, SwitchContext(r) PROVE Step
      BY <2>1, SwitchSelects
    <2>2. ASSUME NEW r \in Roots, NEW c \in FileChanges, ModifyDisk(r, c) PROVE Step
      BY <2>2, ModifyModifies
    <2>3. ASSUME NEW e \in events, DeliverEvent(e) PROVE Step
      <3>1. /\ e.change \in Changes /\ e.version \in Nat
            /\ e.version <= disk[context.root]
        BY DEF TypeOK, FileChanges, RefreshInvariant, VersionInv
      <3> QED
        BY <2>3, <3>1, RequestAsks DEF DeliverEvent
    <2>4. CASE RequestRescan
      <3>1. disk[context.root] \in Nat /\ disk[context.root] <= disk[context.root]
        BY <2>4, ContextFacts DEF RequestRescan, TypeOK
      <3> QED
        BY <2>4, <3>1, RequestAsks, ChangesAssumption DEF RequestRescan
    <2>5. ASSUME NEW l \in loads, Settle(l) PROVE Step
      BY <2>5, SettleAnswers
    <2>6. ASSUME NEW l \in loads, ReadBundle(l) PROVE Step
      BY <2>6, ReadStutters
    <2>7. CASE ClearContext \/ Dispose
      BY <2>7, StopDeselects DEF ClearContext, Dispose
    <2>8. CASE DebounceFires \/ MaximumFires
      BY <2>8, DueStutters DEF DebounceFires, MaximumFires
    <2>9. CASE Tick \/ UNCHANGED vars
      BY <2>9, QuietStutters DEF Tick, vars, coordinatorVars
    <2> QED
      BY <2>1, <2>2, <2>3, <2>4, <2>5, <2>6, <2>7, <2>8, <2>9 DEF Next, Timers
  <1> QED
    BY <1>1, <1>2, Invariant, TypeCorrect, PTL
    DEF Spec, ImplementsBundleView, View!ViewSpec, Step

===============================================================================
