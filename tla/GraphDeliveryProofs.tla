-------------------------- MODULE GraphDeliveryProofs --------------------------
(***************************************************************************)
(* DeliveryOfGraph and PageNeverAhead of GraphDelivery, for any number of  *)
(* revisions, commands, deliveries and pages, however many messages are    *)
(* under way.                                                              *)
(***************************************************************************)
EXTENDS GraphDelivery, SequenceTheorems, TLAPS

PageState == [alive : BOOLEAN, loaded : BOOLEAN, shows : Delivery, operational : BOOLEAN, failed : Nat]

TypeInv ==
  /\ graph \in Nat /\ deliveries \in Nat
  /\ toPage \in Seq(Delivery)
  /\ current \in Delivery
  /\ page \in PageState
  /\ page.loaded => page.alive

(* A disposed panel has no page left, so nothing is shown any more.        *)
ClosedInv == disposed => ~page.alive

(* Whatever is under way to the page is no newer than the retained graph.  *)
UnderWayInv == ~disposed => \A i \in 1..Len(toPage) : toPage[i].revision <= graph

DeliveryInvariant ==
  TypeInv /\ ClosedInv /\ UnderWayInv /\ DeliveryOfGraph /\ PageNeverAhead

(* Deliveries under way, and the one that is shown, are of some revision.  *)
LEMMA UnderWayTyped ==
  ASSUME DeliveryInvariant
  PROVE  /\ Len(toPage) \in Nat
         /\ \A i \in 1..Len(toPage) : toPage[i] \in Delivery /\ toPage[i].revision \in Nat
         /\ page.shows \in Delivery /\ page.shows.revision \in Nat
<1>1. toPage \in Seq(Delivery)
  BY DEF DeliveryInvariant, TypeInv
<1>2. \A d \in Delivery : d.revision \in Nat
  BY DEF Delivery
<1>3. Len(toPage) \in Nat /\ \A i \in 1..Len(toPage) : toPage[i] \in Delivery
  BY <1>1, ElementOfSeq, LenProperties
<1>4. page.shows \in Delivery
  BY DEF DeliveryInvariant, TypeInv, PageState
<1>5. QED
  BY <1>2, <1>3, <1>4

(* Pages that show nothing.                                                *)
LEMMA BlankPages ==
  /\ NoDelivery \in Delivery /\ NoDelivery.revision = 0
  /\ NoPage \in PageState /\ ~NoPage.alive /\ ~NoPage.loaded /\ NoPage.shows = NoDelivery
  /\ NewPage \in PageState /\ NewPage.alive /\ ~NewPage.loaded /\ NewPage.shows = NoDelivery
<1>1. NoDelivery \in Delivery /\ NoDelivery.revision = 0
  BY DEF NoDelivery, Delivery
<1>2. NoPage \in PageState /\ ~NoPage.alive /\ ~NoPage.loaded /\ NoPage.shows = NoDelivery
  BY <1>1 DEF NoPage, PageState
<1>3. /\ NewPage \in PageState /\ NewPage.alive /\ NewPage.loaded = NoPage.loaded
      /\ NewPage.shows = NoPage.shows
  BY <1>2 DEF NewPage, PageState
<1>4. QED
  BY <1>1, <1>2, <1>3

(* What happens to a page keeps it a page.                                 *)
LEMMA PageUpdates ==
  ASSUME page \in PageState, NEW d \in Delivery
  PROVE  /\ [page EXCEPT !.shows = d, !.failed = 0] \in PageState
         /\ [page EXCEPT !.shows = d, !.failed = 0].shows = d
         /\ [page EXCEPT !.shows = d, !.failed = 0].loaded = page.loaded
         /\ [page EXCEPT !.shows = d, !.failed = 0].alive = page.alive
         /\ [page EXCEPT !.shows = d, !.operational = FALSE, !.failed = d.delivery] \in PageState
         /\ [page EXCEPT !.shows = d, !.operational = FALSE, !.failed = d.delivery].shows = d
         /\ [page EXCEPT !.shows = d, !.operational = FALSE, !.failed = d.delivery].loaded = page.loaded
         /\ [page EXCEPT !.shows = d, !.operational = FALSE, !.failed = d.delivery].alive = page.alive
<1>1. d.delivery \in Nat
  BY DEF Delivery
<1>2. QED
  BY <1>1 DEF PageState

(* A panel that was never opened, with no page, satisfies the invariant.   *)
LEMMA InitialDelivery == Init => DeliveryInvariant
<1>1. ASSUME Init PROVE TypeInv
  BY <1>1, BlankPages DEF Init, TypeInv
<1>2. ASSUME Init PROVE ClosedInv /\ UnderWayInv /\ DeliveryOfGraph /\ PageNeverAhead
  BY <1>2, BlankPages DEF Init, ClosedInv, UnderWayInv, DeliveryOfGraph, PageNeverAhead
<1>3. QED
  BY <1>1, <1>2 DEF DeliveryInvariant

(* The host retains graph g, of which no delivery is current.              *)
LEMMA Retaining ==
  ASSUME DeliveryInvariant, NEW g \in Nat, g >= graph, graph' = g, deliveries' \in Nat,
         current' = NoDelivery, UNCHANGED <<disposed, toPage, page>>
  PROVE  DeliveryInvariant'
<1>1. TypeInv' /\ ClosedInv' /\ DeliveryOfGraph'
  BY DEF DeliveryInvariant, TypeInv, ClosedInv, DeliveryOfGraph, NoDelivery, Delivery
<1>2. graph \in Nat
  BY DEF DeliveryInvariant, TypeInv
<1>3. UnderWayInv'
  <2>1. \A i \in 1..Len(toPage) : toPage[i].revision \in Nat
    BY UnderWayTyped
  <2>2. ~disposed => \A i \in 1..Len(toPage) : toPage[i].revision <= graph
    BY DEF DeliveryInvariant, UnderWayInv
  <2>3. ~disposed => \A i \in 1..Len(toPage) : toPage[i].revision <= g
    BY <1>2, <2>1, <2>2
  <2>4. QED
    BY <2>3 DEF UnderWayInv
<1>4. PageNeverAhead'
  BY <1>2, UnderWayTyped DEF DeliveryInvariant, PageNeverAhead
<1>5. QED
  BY <1>1, <1>3, <1>4 DEF DeliveryInvariant

(* Posting graph g, which replaces an older one or is the retained one.    *)
LEMMA PostingKeeps ==
  ASSUME DeliveryInvariant, NEW g \in Nat, g >= graph, graph' = g, ~disposed,
         NEW request, NEW results, PostGraph(g, request, results),
         ready', visible', UNCHANGED <<disposed, pageVars>>
  PROVE  DeliveryInvariant'
<1>1. CASE PostFails(request, results) /\ deliveries' \in Nat
  <2>1. current' = NoDelivery /\ UNCHANGED <<disposed, toPage, page>>
    BY <1>1 DEF PostFails, ForgetDelivery, pageVars
  <2>2. QED
    BY <1>1, <2>1, Retaining
<1>2. ASSUME NEW d \in Delivery, d = [revision |-> g, delivery |-> deliveries + 1],
             current' = d, toPage' = Append(toPage, d), deliveries' = deliveries + 1
      PROVE  DeliveryInvariant'
  <2>1. toPage' \in Seq(Delivery) /\ Len(toPage') = Len(toPage) + 1
        /\ \A i \in 1..Len(toPage') : toPage'[i] = IF i <= Len(toPage) THEN toPage[i] ELSE d
    BY <1>2, AppendProperties DEF DeliveryInvariant, TypeInv
  <2>2. UnderWayInv'
    <3>1. d.revision = g
      BY <1>2
    <3>2. \A i \in 1..Len(toPage') : toPage'[i].revision <= g
      BY <2>1, <3>1, UnderWayTyped DEF DeliveryInvariant, TypeInv, UnderWayInv
    <3>3. QED
      BY <3>2 DEF UnderWayInv
  <2>3. TypeInv' /\ ClosedInv' /\ DeliveryOfGraph' /\ PageNeverAhead'
    BY <1>2, <2>1, UnderWayTyped DEF DeliveryInvariant, TypeInv, ClosedInv, DeliveryOfGraph, PageNeverAhead,
                      pageVars, Delivery
  <2>4. QED
    BY <2>2, <2>3 DEF DeliveryInvariant
<1>3. deliveries + 1 \in Nat /\ [revision |-> g, delivery |-> deliveries + 1] \in Delivery
  BY DEF DeliveryInvariant, TypeInv, Delivery
<1>4. QED
  BY <1>1, <1>2, <1>3 DEF PostGraph, DeliveryInvariant, TypeInv

(* What the host does of its own accord or for a caller.                   *)
LEMMA HostActs ==
  ASSUME DeliveryInvariant,
         \/ \E g \in 1..MaxRevision, observed \in BOOLEAN : ReplaceGraph(g, observed)
         \/ \E p \in posts : SettlePost(p)
         \/ Close
  PROVE  DeliveryInvariant'
<1>1. ASSUME NEW g \in 1..MaxRevision, NEW observed \in BOOLEAN, ReplaceGraph(g, observed)
      PROVE  DeliveryInvariant'
  <2>1. g \in Nat
    OBVIOUS
  <2>2. UNCHANGED <<ready, visible, disposed, pageVars>>
    BY <1>1 DEF ReplaceGraph
  <2>3. CASE Replaces(g) /\ ready /\ visible
    <3>1. PICK request, results : PostGraph(g, request, results) /\ graph' = g
      BY <1>1, <2>3, Zenon DEF ReplaceGraph
    <3>2. g >= graph /\ ~disposed
      BY <2>3 DEF Replaces
    <3>3. QED
      BY <2>1, <2>2, <2>3, <3>1, <3>2, PostingKeeps
  <2>4. CASE Replaces(g) /\ ~(ready /\ visible)
    <3>1. graph' = g /\ g >= graph /\ ForgetDelivery /\ UNCHANGED <<deliveries, toPage>>
      BY <1>1, <2>4 DEF ReplaceGraph, Replaces
    <3>2. current' = NoDelivery /\ UNCHANGED <<disposed, toPage, page>> /\ deliveries' \in Nat
      BY <2>2, <3>1 DEF ForgetDelivery, pageVars, DeliveryInvariant, TypeInv
    <3>3. QED
      BY <2>1, <3>1, <3>2, Retaining
  <2>5. CASE ~Replaces(g)
    <3>1. UNCHANGED <<graph, current, deliveries, toPage>>
      BY <1>1, <2>5 DEF ReplaceGraph
    <3>2. QED
      BY <2>2, <3>1 DEF DeliveryInvariant, TypeInv, ClosedInv, UnderWayInv, DeliveryOfGraph,
                        PageNeverAhead, pageVars
  <2>6. QED
    BY <2>3, <2>4, <2>5
<1>2. ASSUME NEW p \in posts, SettlePost(p)
      PROVE  DeliveryInvariant'
  <2>1. /\ UNCHANGED <<graph, ready, visible, disposed, deliveries, toPage, pageVars>>
        /\ current' \in {current, NoDelivery}
    BY <1>2 DEF SettlePost
  <2>2. QED
    BY <2>1 DEF DeliveryInvariant, TypeInv, ClosedInv, UnderWayInv, DeliveryOfGraph,
                PageNeverAhead, pageVars, NoDelivery, Delivery
<1>3. CASE Close
  BY <1>3 DEF Close, ForgetDelivery, DeliveryInvariant, TypeInv, ClosedInv, UnderWayInv,
              DeliveryOfGraph, PageNeverAhead, NoPage, NoDelivery, Delivery, PageState
<1>4. QED
  BY <1>1, <1>2, <1>3

(* What the host does when something arrives.                              *)
LEMMA HostReceivesKeeps ==
  ASSUME DeliveryInvariant, HostReceives
  PROVE  DeliveryInvariant'
<1>1. CASE HandleReady
  <2>1. UNCHANGED <<graph, visible, disposed, pageVars>> /\ ready' = visible /\ ~disposed
    BY <1>1 DEF HandleReady, Arrives
  <2>2. CASE Reposts
    <3>1. visible /\ graph \in Nat /\ PostGraph(graph, waiting, outcome)
      BY <1>1, <2>2 DEF HandleReady, Reposts, DeliveryInvariant, TypeInv
    <3>2. QED
      BY <2>1, <3>1, PostingKeeps
  <2>3. CASE ~Reposts
    BY <1>1, <2>1, <2>3 DEF HandleReady, ForgetDelivery, DeliveryInvariant, TypeInv, ClosedInv,
       UnderWayInv, DeliveryOfGraph, PageNeverAhead, pageVars, NoDelivery, Delivery
  <2>4. QED
    BY <2>2, <2>3
<1>2. CASE HandleViewState
  BY <1>2 DEF HandleViewState, ForgetDelivery, DeliveryInvariant, TypeInv, ClosedInv,
     UnderWayInv, DeliveryOfGraph, PageNeverAhead, pageVars, NoDelivery, Delivery
<1>3. CASE \/ HandleOutcome("graphRendered", "rendered") \/ HandleOutcome("graphRenderFailed", "failed")
           \/ HandleOpenSource
  <2>1. UNCHANGED <<graph, ready, visible, disposed, current, deliveries, toPage, pageVars>>
    BY <1>3 DEF HandleOutcome, HandleOpenSource, hostVars
  <2>2. QED
    BY <2>1 DEF DeliveryInvariant, TypeInv, ClosedInv, UnderWayInv, DeliveryOfGraph,
                PageNeverAhead, pageVars
<1>4. QED
  BY <1>1, <1>2, <1>3 DEF HostReceives

(* The page receives what is under way, in order; any of it may be lost.   *)
LEMMA TakingKeeps ==
  ASSUME DeliveryInvariant, toPage # <<>>, toPage' = Tail(toPage),
         UNCHANGED <<graph, ready, visible, disposed, current, deliveries>>,
         \/ UNCHANGED page
         \/ /\ page.loaded /\ page' \in PageState /\ page'.shows = Head(toPage)
            /\ page'.loaded = page.loaded /\ page'.alive = page.alive
  PROVE  DeliveryInvariant'
<1>1. /\ toPage \in Seq(Delivery) /\ Head(toPage) \in Delivery /\ toPage' \in Seq(Delivery)
      /\ Head(toPage) = toPage[1] /\ Len(toPage) > 0
      /\ Len(toPage') = Len(toPage) - 1
      /\ \A i \in 1..Len(toPage') : toPage'[i] = toPage[i + 1]
  BY HeadTailProperties, EmptySeq DEF DeliveryInvariant, TypeInv
<1>2. UnderWayInv'
  BY <1>1 DEF DeliveryInvariant, UnderWayInv
<1>3. PageNeverAhead'
  BY <1>1, UnderWayTyped DEF DeliveryInvariant, UnderWayInv, PageNeverAhead
<1>4. TypeInv' /\ ClosedInv' /\ DeliveryOfGraph'
  BY <1>1 DEF DeliveryInvariant, TypeInv, ClosedInv, DeliveryOfGraph, PageState
<1>5. QED
  BY <1>2, <1>3, <1>4 DEF DeliveryInvariant

(* The page and the editor.                                                *)
LEMMA PageActs ==
  ASSUME DeliveryInvariant,
         \/ PageLoads \/ PageReceives \/ PostLost \/ RendererFails \/ ClickSource
         \/ HidePage \/ ShowPage \/ RecreatePage
  PROVE  DeliveryInvariant'
<1>1. CASE PageReceives
  <2>1. /\ toPage # <<>> /\ toPage' = Tail(toPage) /\ page.loaded
        /\ page \in PageState
        /\ UNCHANGED <<graph, ready, visible, disposed, current, deliveries>>
    BY <1>1 DEF PageReceives, DeliveryInvariant, TypeInv
  <2>2. \/ UNCHANGED page
        \/ /\ page' \in PageState /\ page'.shows = Head(toPage)
           /\ page'.loaded = page.loaded /\ page'.alive = page.alive
    <3>1. Head(toPage) \in Delivery
      BY <2>1, HeadTailProperties DEF DeliveryInvariant, TypeInv
    <3>2. \/ UNCHANGED <<page, toHost, rendered>>
          \/ page' = [page EXCEPT !.shows = Head(toPage), !.failed = 0]
          \/ page' = [page EXCEPT !.shows = Head(toPage), !.operational = FALSE,
                                  !.failed = Head(toPage).delivery]
      BY <1>1, Zenon DEF PageReceives
    <3>3. QED
      <4>1. CASE UNCHANGED <<page, toHost, rendered>>
        BY <4>1
      <4>2. CASE page' = [page EXCEPT !.shows = Head(toPage), !.failed = 0]
        BY <2>1, <3>1, <4>2, PageUpdates, Zenon
      <4>3. CASE page' = [page EXCEPT !.shows = Head(toPage), !.operational = FALSE,
                                      !.failed = Head(toPage).delivery]
        BY <2>1, <3>1, <4>3, PageUpdates, Zenon
      <4>4. QED
        BY <3>2, <4>1, <4>2, <4>3
  <2>3. QED
    BY <2>1, <2>2, TakingKeeps
<1>2. CASE PostLost
  <2>1. /\ toPage # <<>> /\ toPage' = Tail(toPage)
        /\ UNCHANGED <<graph, ready, visible, disposed, current, deliveries, page>>
    BY <1>2 DEF PostLost, pageVars
  <2>2. QED
    BY <2>1, TakingKeeps
<1>3. ASSUME UNCHANGED <<graph, ready, visible, disposed, current, deliveries, toPage>>,
             page' \in PageState, page'.shows \in {page.shows, NoDelivery}, page'.loaded => page'.alive,
             disposed => ~page'.alive
      PROVE  DeliveryInvariant'
  BY <1>3 DEF DeliveryInvariant, TypeInv, ClosedInv, UnderWayInv, DeliveryOfGraph, PageNeverAhead,
              NoDelivery, Delivery
<1>4. CASE PageLoads \/ RendererFails \/ ClickSource \/ HidePage \/ ShowPage \/ RecreatePage
  <2>1. UNCHANGED <<graph, ready, visible, disposed, current, deliveries, toPage>>
    BY <1>4 DEF PageLoads, RendererFails, ClickSource, HidePage, ShowPage, RecreatePage, hostVars
  <2>2. /\ page' \in PageState
        /\ page'.shows \in {page.shows, NoDelivery}
        /\ page'.loaded => page'.alive
        /\ disposed => ~page'.alive
    <3>1. page \in PageState /\ (disposed => ~page.alive) /\ (page.loaded => page.alive)
      BY DEF DeliveryInvariant, TypeInv, ClosedInv
    <3>2. CASE PageLoads
      BY <3>1, <3>2 DEF PageLoads, PageState
    <3>3. CASE RendererFails
      <4>1. page.shows.delivery \in Nat
        BY UnderWayTyped DEF Delivery
      <4>2. QED
        BY <3>1, <3>3, <4>1 DEF RendererFails, PageState
    <3>4. CASE ClickSource
      BY <3>1, <3>4 DEF ClickSource, pageVars
    <3>5. CASE HidePage \/ ShowPage \/ RecreatePage
      BY <3>1, <3>5, BlankPages DEF HidePage, ShowPage, RecreatePage
    <3>6. QED
      BY <1>4, <3>2, <3>3, <3>4, <3>5
  <2>3. QED
    BY <1>3, <2>1, <2>2
<1>5. QED
  BY <1>1, <1>2, <1>4

(* The invariant of the panel and its page.                                *)
THEOREM DeliveryInvariantHolds == Spec => []DeliveryInvariant
<1>1. DeliveryInvariant /\ [Next]_vars => DeliveryInvariant'
  <2> SUFFICES ASSUME DeliveryInvariant, [Next]_vars PROVE DeliveryInvariant'
    OBVIOUS
  <2>1. CASE \/ \E g \in 1..MaxRevision : ReplaceGraph(g, FALSE)
             \/ \E g \in 1..MaxRevision : Len(outcome) < MaxRequests /\ ReplaceGraph(g, TRUE)
             \/ \E p \in posts : SettlePost(p)
             \/ Close
    BY <2>1, HostActs
  <2>2. CASE HostReceives
    BY <2>2, HostReceivesKeeps
  <2>3. CASE \/ PageLoads \/ PageReceives \/ PostLost \/ RendererFails \/ ClickSource
             \/ HidePage \/ ShowPage \/ RecreatePage
    BY <2>3, PageActs
  <2>4. CASE UNCHANGED vars
    BY <2>4 DEF vars, hostVars, pageVars, DeliveryInvariant, TypeInv, ClosedInv, UnderWayInv,
                DeliveryOfGraph, PageNeverAhead
  <2>5. QED
    BY <2>1, <2>2, <2>3, <2>4 DEF Next
<1>2. QED
  BY InitialDelivery, <1>1, PTL DEF Spec

(* The delivery the host believes is the latest, of the graph it holds.    *)
THEOREM OnlyTheLatestDelivery == Spec => []DeliveryOfGraph
<1>1. DeliveryInvariant => DeliveryOfGraph
  BY DEF DeliveryInvariant
<1>2. QED
  BY DeliveryInvariantHolds, <1>1, PTL

(* The page never shows a graph that is newer than what the host holds.    *)
THEOREM PageIsNeverAhead == Spec => []PageNeverAhead
<1>1. DeliveryInvariant => PageNeverAhead
  BY DEF DeliveryInvariant
<1>2. QED
  BY DeliveryInvariantHolds, <1>1, PTL
===============================================================================
