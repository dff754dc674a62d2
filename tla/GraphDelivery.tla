------------------------------ MODULE GraphDelivery ------------------------------
(***************************************************************************)
(* One graph panel: GraphPanelController in the extension host             *)
(* (src/extension/webview/graphPanelController.ts), the page it hosts      *)
(* (src/webview/app.ts), and the messages between them as the decoders of  *)
(* src/shared/protocol/decode.ts accept them.                              *)
(*                                                                         *)
(* The page is destroyed when its tab is hidden (retainContextWhenHidden   *)
(* is false) and created anew when it is shown.  A graph is its revision.  *)
(* A post to the page may throw, be lost, or reach a later page; messages  *)
(* and view-state events reach the host in the order they were sent.       *)
(***************************************************************************)
EXTENDS Integers, Sequences

CONSTANTS
  MaxRevision,   \* bound: revisions that are published
  MaxRequests,   \* bound: Open Graph commands that observe their delivery
  MaxDelivery,   \* Number.MAX_SAFE_INTEGER, the last delivery identity
  MaxPages,      \* bound: pages that are created
  MaxQueue       \* bound: messages to the host when the user acts again

ASSUME BoundsAssumption ==
  /\ MaxRevision \in Nat \ {0} /\ MaxRequests \in Nat /\ MaxDelivery \in Nat \ {0}
  /\ MaxPages \in Nat \ {0} /\ MaxQueue \in Nat \ {0}

VARIABLES
  graph,        \* revision of #graph, or 0
  ready,        \* #ready
  visible,      \* panel.visible, as the host last heard
  disposed,     \* #disposed
  waiting,      \* #pendingDelivery: a request and its revision, or NoRequest
  attempt,      \* delivery identity of #postAttempt, or 0
  current,      \* #currentDelivery, or NoDelivery
  settled,      \* #settledDeliveryId, or 0
  deliveries,   \* #nextDeliveryId
  posts,        \* promises of posted messages, with the request they carry
  reported,     \* an error was reported since the graph was replaced
  toPage,       \* posted messages that are under way
  toHost,       \* messages and view-state events that are under way
  page,         \* the live page
  pages,        \* pages created so far
  rendered,     \* ghost: deliveries that a page has rendered
  outcome       \* ghost: what the requests made so far have been told

hostVars == <<graph, ready, visible, disposed, waiting, attempt, current, settled,
              deliveries, posts, reported>>
pageVars == <<page, pages, rendered>>
vars == <<hostVars, toPage, toHost, pageVars, outcome>>

NoRequest == [request |-> 0, revision |-> 0, after |-> 0]
NoDelivery == [revision |-> 0, delivery |-> 0]
NoPage == [alive |-> FALSE, loaded |-> FALSE, shows |-> NoDelivery,
           operational |-> FALSE, failed |-> 0]
NewPage == [NoPage EXCEPT !.alive = TRUE, !.operational = TRUE]

Delivery == [revision : Nat, delivery : Nat]
Post == [revision : Nat, delivery : Nat, request : Nat,
         result : {"unknown", "accepted", "failed"}]

(* Every variable holds a value the panel or the page can store in it.     *)
TypeOK ==
  /\ graph \in 0..MaxRevision
  /\ ready \in BOOLEAN /\ visible \in BOOLEAN /\ disposed \in BOOLEAN
  /\ reported \in BOOLEAN
  /\ waiting \in [request : 0..MaxRequests, revision : 0..MaxRevision,
                 after : 0..MaxDelivery]
  /\ attempt \in 0..MaxDelivery /\ settled \in 0..MaxDelivery
  /\ deliveries \in 0..MaxDelivery
  /\ current \in Delivery
  /\ posts \subseteq Post
  /\ toPage \in Seq(Delivery)
  /\ \A i \in DOMAIN toHost :
       toHost[i].type \in {"ready", "graphRendered", "graphRenderFailed",
                           "openSource", "view"}
  /\ page \in [alive : BOOLEAN, loaded : BOOLEAN, shows : Delivery,
               operational : BOOLEAN, failed : 0..MaxDelivery]
  /\ pages \in 0..MaxPages
  /\ rendered \subseteq Delivery
  /\ outcome \in Seq({"waiting", "rendered", "failed"})

Init ==
  /\ graph = 0
  /\ ready = FALSE /\ visible = TRUE /\ disposed = FALSE /\ reported = FALSE
  /\ waiting = NoRequest
  /\ attempt = 0 /\ settled = 0 /\ deliveries = 0
  /\ current = NoDelivery
  /\ posts = {} /\ rendered = {}
  /\ toPage = <<>> /\ toHost = <<>> /\ outcome = <<>>
  /\ page = NewPage /\ pages = 1

-------------------------------------------------------------------------------
(* The host: posting *)

Told(results, request, what) ==
  IF request.request = 0 THEN results ELSE [results EXCEPT ![request.request] = what]

(* Mutant of ForgetDelivery: the delivery outlives what it was made for.   *)
KeepDelivery == UNCHANGED <<attempt, current, settled>>

(* The host expects no message about any delivery that it has made.        *)
ForgetDelivery ==
  /\ attempt' = 0
  /\ current' = NoDelivery
  /\ settled' = 0

(* A post that throws, or that has no identity left: the request fails.    *)
PostFails(request, results) ==
  /\ ForgetDelivery
  /\ reported' = TRUE
  /\ waiting' = NoRequest
  /\ outcome' = Told(results, request, "failed")
  /\ UNCHANGED <<posts, toPage>>

(* Mutant of Exhausted: the identity that follows the last one is used.    *)
NeverExhausted == FALSE

Exhausted == deliveries = MaxDelivery

(* #postGraph of revision g for the request that waits for it, if any.     *)
PostGraph(g, request, results) ==
  IF Exhausted
    THEN PostFails(request, results) /\ UNCHANGED deliveries
    ELSE /\ deliveries' = deliveries + 1
         /\ \/ PostFails(request, results)
            \/ LET delivery == [revision |-> g, delivery |-> deliveries + 1]
               IN  /\ current' = delivery
                   /\ attempt' = deliveries + 1
                   /\ settled' = 0
                   /\ posts' = posts \cup {[revision |-> g, delivery |-> deliveries + 1,
                                            request |-> request.request, result |-> "unknown"]}
                   /\ toPage' = Append(toPage, delivery)
                   /\ waiting' = request
                   /\ outcome' = results
                   /\ reported' = FALSE

(* The request of a caller that passed onDeliveryFailure; after is a ghost:
   the deliveries made before it.                                          *)
NewRequest(g) == [request |-> Len(outcome) + 1, revision |-> g, after |-> deliveries]

(* Mutant of Replaces: an older graph is not refused.                      *)
ReplacesAny(g) == ~disposed

Replaces(g) == ~disposed /\ g >= graph

(* Mutant of Superseded: the request that waits is dropped silently.       *)
Unanswered(results) == results

(* The request that waits for an earlier graph is told.                    *)
Superseded(results) == Told(results, waiting, "failed")

(* replaceGraph; observed says that the caller passed onDeliveryFailure.   *)
ReplaceGraph(g, observed) ==
  LET results == IF observed THEN Append(outcome, "waiting") ELSE outcome
      request == IF observed THEN NewRequest(g) ELSE NoRequest
  IN  /\ IF Replaces(g)
           THEN /\ graph' = g
                /\ IF ready /\ visible
                     THEN PostGraph(g, request, Superseded(results))
                     ELSE /\ ForgetDelivery
                          /\ waiting' = request
                          /\ outcome' = Superseded(results)
                          /\ reported' = FALSE
                          /\ UNCHANGED <<deliveries, posts, toPage>>
           ELSE /\ outcome' = Told(results, request, "failed")
                /\ UNCHANGED <<graph, waiting, attempt, current, settled, deliveries,
                               posts, reported, toPage>>
      /\ UNCHANGED <<ready, visible, disposed, toHost, pageVars>>

(* Mutant of FailRequestOf: the failure is reported, the request not told. *)
ReportOnly(p) == UNCHANGED <<waiting, outcome>>

(* The request that the failed post was made for, if it still waits.       *)
FailRequestOf(p) ==
  IF p.request # 0 /\ waiting.request = p.request
    THEN waiting' = NoRequest /\ outcome' = Told(outcome, waiting, "failed")
    ELSE UNCHANGED <<waiting, outcome>>

(* The promise of a post settles.  Only the attempt that is still current
   counts; its failure is reported and fails the request it was made for.  *)
SettlePost(p) ==
  /\ p.result # "unknown"
  /\ posts' = posts \ {p}
  /\ IF p.delivery # attempt THEN UNCHANGED <<attempt, current, settled, reported, waiting, outcome>>
     ELSE IF p.result = "accepted"
       THEN attempt' = 0 /\ UNCHANGED <<current, settled, reported, waiting, outcome>>
       ELSE /\ attempt' = 0
            /\ IF current.delivery = p.delivery
                 THEN current' = NoDelivery /\ settled' = 0
                 ELSE UNCHANGED <<current, settled>>
            /\ reported' = TRUE
            /\ FailRequestOf(p)
  /\ UNCHANGED <<graph, ready, visible, disposed, deliveries, toPage, toHost, pageVars>>

(* close and dispose: the caller or the user closes the panel.             *)
Close ==
  /\ ~disposed
  /\ disposed' = TRUE
  /\ graph' = 0
  /\ ForgetDelivery
  /\ waiting' = NoRequest
  /\ outcome' = Told(outcome, waiting, "failed")
  /\ page' = NoPage
  /\ UNCHANGED <<ready, visible, deliveries, posts, reported, toPage, toHost, pages,
                 rendered>>

-------------------------------------------------------------------------------
(* The host: what arrives from the page and from the editor *)

Arrives(type) ==
  /\ ~disposed
  /\ toHost # <<>>
  /\ Head(toHost).type = type
  /\ toHost' = Tail(toHost)

(* Mutant of ForCurrent: the deliveries of a revision are not told apart.  *)
ForRevision(m) == m.of.revision = current.revision /\ current # NoDelivery

(* A message counts only for the exact current delivery.                   *)
ForCurrent(m) == m.of = current /\ current # NoDelivery

(* A first outcome of the current delivery.                                *)
Settles(m) == ForCurrent(m) /\ settled # m.of.delivery

(* Mutant of Reposts: a second ready is taken for a repetition.            *)
RepostsOnce == visible /\ ~ready /\ graph # 0

Reposts == visible /\ graph # 0

(* ready: the page of the panel is new; it gets the graph that is retained.
   A page that reports before its panel is known to be visible waits.      *)
HandleReady ==
  /\ Arrives("ready")
  /\ ready' = visible
  /\ IF Reposts
       THEN PostGraph(graph, waiting, outcome)
       ELSE /\ ForgetDelivery
            /\ UNCHANGED <<deliveries, posts, toPage, waiting, reported, outcome>>
  /\ UNCHANGED <<graph, visible, disposed, pageVars>>

(* graphRendered and graphRenderFailed.                                    *)
HandleOutcome(type, what) ==
  /\ Arrives(type)
  /\ LET m == Head(toHost)
     IN  IF Settles(m)
           THEN /\ settled' = m.of.delivery
                /\ attempt' = IF attempt = m.of.delivery THEN 0 ELSE attempt
                /\ IF waiting.revision = m.of.revision
                     THEN /\ waiting' = NoRequest
                          /\ outcome' = Told(outcome, waiting, what)
                     ELSE UNCHANGED <<waiting, outcome>>
           ELSE UNCHANGED <<settled, attempt, waiting, outcome>>
  /\ UNCHANGED <<graph, ready, visible, disposed, current, deliveries, posts, reported,
                 toPage, pageVars>>

(* openSource: for the current delivery the node is looked up among the
   sources of the graph and opened; the panel itself does not change.      *)
HandleOpenSource ==
  /\ Arrives("openSource")
  /\ UNCHANGED <<hostVars, toPage, pageVars, outcome>>

(* onDidChangeViewState: a hidden page may be destroyed.                   *)
HandleViewState ==
  /\ Arrives("view")
  /\ visible' = Head(toHost).visible
  /\ IF visible' THEN UNCHANGED <<ready, attempt, current, settled>>
     ELSE ready' = FALSE /\ ForgetDelivery
  /\ UNCHANGED <<graph, disposed, waiting, deliveries, posts, reported, toPage, pageVars,
                 outcome>>

HostReceives ==
  \/ HandleReady
  \/ HandleOutcome("graphRendered", "rendered")
  \/ HandleOutcome("graphRenderFailed", "failed")
  \/ HandleOpenSource
  \/ HandleViewState

-------------------------------------------------------------------------------
(* The page *)

Send(m) == toHost' = Append(toHost, m)

(* The constructor of WorkbenchApp posts ready.                            *)
PageLoads ==
  /\ page.alive /\ ~page.loaded
  /\ page' = [page EXCEPT !.loaded = TRUE]
  /\ Send([type |-> "ready"])
  /\ UNCHANGED <<hostVars, toPage, pages, rendered, outcome>>

(* The result of the post of delivery d is known.                          *)
Results(d, result) ==
  {IF p.delivery = d THEN [p EXCEPT !.result = result] ELSE p : p \in posts}

(* decodeExtensionToWebviewMessage: a newer revision, or a newer delivery
   of the revision that is shown.                                          *)
Fresh(d) ==
  \/ d.revision > page.shows.revision
  \/ d.revision = page.shows.revision /\ d.delivery > page.shows.delivery

(* The page receives a graph and renders it, or reports that it cannot; a
   renderer that has failed stays unavailable.                             *)
PageReceives ==
  /\ page.loaded
  /\ toPage # <<>>
  /\ toPage' = Tail(toPage)
  /\ posts' = Results(Head(toPage).delivery, "accepted")
  /\ LET d == Head(toPage)
     IN  IF ~Fresh(d) THEN UNCHANGED <<page, toHost, rendered>>
         ELSE \/ /\ page.operational
                 /\ page' = [page EXCEPT !.shows = d, !.failed = 0]
                 /\ rendered' = rendered \cup {d}
                 /\ Send([type |-> "graphRendered", of |-> d])
              \/ /\ page' = [page EXCEPT !.shows = d, !.operational = FALSE,
                                         !.failed = d.delivery]
                 /\ Send([type |-> "graphRenderFailed", of |-> d])
                 /\ UNCHANGED rendered
  /\ UNCHANGED <<graph, ready, visible, disposed, waiting, attempt, current, settled,
                 deliveries, reported, pages, outcome>>

(* A posted message is lost, with its page or without.                     *)
PostLost ==
  /\ toPage # <<>>
  /\ toPage' = Tail(toPage)
  /\ posts' = Results(Head(toPage).delivery, "failed")
  /\ UNCHANGED <<graph, ready, visible, disposed, waiting, attempt, current, settled,
                 deliveries, reported, toHost, pageVars, outcome>>

(* The renderer fails later, while the user interacts with it.             *)
RendererFails ==
  /\ page.loaded /\ page.operational
  /\ page' = [page EXCEPT !.operational = FALSE, !.failed = page.shows.delivery]
  /\ IF page.shows = NoDelivery THEN UNCHANGED toHost
     ELSE Send([type |-> "graphRenderFailed", of |-> page.shows])
  /\ UNCHANGED <<hostVars, toPage, pages, rendered, outcome>>

ClickSource ==
  /\ page.loaded
  /\ page.shows # NoDelivery
  /\ Len(toHost) < MaxQueue
  /\ Send([type |-> "openSource", of |-> page.shows])
  /\ UNCHANGED <<hostVars, toPage, pageVars, outcome>>

HidePage ==
  /\ page.alive
  /\ Len(toHost) < MaxQueue
  /\ page' = NoPage
  /\ Send([type |-> "view", visible |-> FALSE])
  /\ UNCHANGED <<hostVars, toPage, pages, rendered, outcome>>

ShowPage ==
  /\ ~disposed /\ ~page.alive
  /\ pages < MaxPages
  /\ pages' = pages + 1
  /\ page' = NewPage
  /\ Send([type |-> "view", visible |-> TRUE])
  /\ UNCHANGED <<hostVars, toPage, rendered, outcome>>

(* The tab is hidden and shown, or moved, before the host hears of it.     *)
RecreatePage ==
  /\ page.alive
  /\ pages < MaxPages
  /\ pages' = pages + 1
  /\ page' = NewPage
  /\ UNCHANGED <<hostVars, toPage, toHost, rendered, outcome>>

-------------------------------------------------------------------------------

Next ==
  \/ \E g \in 1..MaxRevision : ReplaceGraph(g, FALSE)
  \/ \E g \in 1..MaxRevision : Len(outcome) < MaxRequests /\ ReplaceGraph(g, TRUE)
  \/ \E p \in posts : SettlePost(p)
  \/ Close
  \/ HostReceives
  \/ PageLoads
  \/ PageReceives
  \/ PostLost
  \/ RendererFails
  \/ ClickSource
  \/ HidePage
  \/ ShowPage
  \/ RecreatePage

Spec == Init /\ [][Next]_vars

(* Messages arrive or are lost, promises settle and a page that is created
   loads.  Nobody is obliged to publish, open, hide or show anything.      *)
Fairness ==
  /\ WF_vars(HostReceives)
  /\ WF_vars(\E p \in posts : SettlePost(p))
  /\ WF_vars(PageLoads)
  /\ WF_vars(PageReceives \/ PostLost)

FairSpec == Spec /\ Fairness

-------------------------------------------------------------------------------
(* Properties *)

(* A source is opened, and an outcome is believed, only for the graph that
   the host holds: the delivery the host accepts messages for is the latest
   one, of the retained graph, posted to a page that announced itself.     *)
DeliveryOfGraph ==
  current # NoDelivery => /\ current.revision = graph
                          /\ ready /\ visible /\ ~disposed
                          /\ current.delivery = deliveries

(* The panel never falls back: the host holds at least the newest revision
   that the page has been shown, whatever order publications and cached
   graphs are opened in.                                                   *)
PageNeverAhead == ~disposed => page.shows.revision <= graph

(* A command that observes its delivery is waiting exactly while the panel
   knows of it: it is never forgotten, whichever of the post, the page, the
   next graph and the closing of the panel comes first.                    *)
NoRequestForgotten ==
  \A q \in DOMAIN outcome : outcome[q] = "waiting" <=> waiting.request = q

(* It is told only once, and "rendered" only after a page has rendered a
   delivery of its graph made after the command was given: never on an
   acknowledgement of an earlier delivery of the same revision.            *)
ToldOnce ==
  [][ \A q \in DOMAIN outcome :
        outcome'[q] # outcome[q] =>
          /\ outcome[q] = "waiting"
          /\ outcome'[q] = "rendered" =>
               \E d \in rendered : /\ d.revision = waiting.revision
                                  /\ d.delivery > waiting.after ]_vars

(* The newest graph reaches a page that stays on screen, unless an error was
   reported to the user.                                                   *)
NewestGraphShown ==
  \A g \in 1..MaxRevision :
    graph = g ~> graph # g \/ ~page.alive \/ page.shows.revision = g \/ reported

(* A command that observes its delivery is told, unless the panel is hidden. *)
RequestsSettle ==
  \A q \in 1..MaxRequests :
    waiting.request = q ~> waiting.request # q \/ ~page.alive

(* A command that waits for its graph is told, once, in the end, and truthfully:
   never forgotten while it waits, never told of an earlier delivery.      *)
RequestsAnswered == []NoRequestForgotten /\ ToldOnce /\ RequestsSettle

===============================================================================
