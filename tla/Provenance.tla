------------------------------- MODULE Provenance -------------------------------
(***************************************************************************)
(* The provenance metadata of a concept: how okf-core reads it out of the  *)
(* YAML mapping (crates/okf-core/src/parser.rs, normalized_generated to    *)
(* normalized_endpoint), which trust tier it gives the concept, and what   *)
(* validation reports about it (crates/okf-core/src/validation.rs,         *)
(* validate_v02_metadata).                                                 *)
(*                                                                         *)
(* A YAML value is a record: [is |-> "string", value |-> s], "number",     *)
(* "boolean", [is |-> "mapping", fields |-> f], [is |-> "list", items |->  *)
(* s], [is |-> "tagged", inner |-> v] for a value with an explicit tag, or *)
(* "null".  The metadata of a concept is a function from its keys.         *)
(***************************************************************************)
EXTENDS Integers, SequencesExt

CONSTANTS
  Humans, Machines,  \* valid actors that begin with human:, and the others
  Teams,             \* strings that are no actor but name a team
  Blanks,            \* strings of white space
  Moment,            \* the minute of each explicit-zone timestamp
  Day,               \* the day of each ISO date
  MaxSafeInteger

ASSUME StringsAssumption == Humans \cap Machines = {} /\ Teams \cap (Humans \cup Machines) = {}

Missing == [is |-> "missing"]

Get(fields, key) == IF key \in DOMAIN fields THEN fields[key] ELSE Missing

Has(fields, key) == key \in DOMAIN fields

(* An explicit tag wraps its value in an object of the core's own keys.    *)
IsObject(v) == v.is \in {"mapping", "tagged"}

FieldsOf(v) == IF v.is = "mapping" THEN v.fields ELSE <<>>

Untagged(v) == IF v.is = "tagged" THEN v.inner ELSE v

None == "(none)"

(* object_string: a string, tagged or not; anything else is dropped.       *)
ObjectString(fields, key) ==
  LET v == Untagged(Get(fields, key)) IN IF v.is = "string" THEN v.value ELSE None

NonBlank(s) == s # None /\ s \notin Blanks

ValidActor(s) == s \in Humans \cup Machines

ValidMoment(s) == s \in DOMAIN Moment

ValidDate(s) == s \in DOMAIN Day

-----------------------------------------------------------------------------
(* What is kept of each family.                                            *)

(* One item that is no string drops every tag.                             *)
NormalizedTags(raw) ==
  LET v == Untagged(Get(raw, "tags"))
  IN IF v.is = "list" /\ \A i \in DOMAIN v.items : Untagged(v.items[i]).is = "string"
     THEN [i \in DOMAIN v.items |-> Untagged(v.items[i]).value] ELSE <<>>

NormalizedGenerated(v) ==
  IF IsObject(v) THEN [by |-> ObjectString(FieldsOf(v), "by"), at |-> ObjectString(FieldsOf(v), "at")]
  ELSE [by |-> None, at |-> None]

Objects(items) == SelectSeq(items, IsObject)

Each(s, Op(_)) == [i \in DOMAIN s |-> Op(s[i])]

(* One mapping stands for a list of one.                                   *)
NormalizedVerifications(v) ==
  Each(IF v.is = "list" THEN Objects(v.items) ELSE IF IsObject(v) THEN <<v>> ELSE <<>>, NormalizedGenerated)

TrustTier(events) ==
  LET valid == {i \in DOMAIN events : ValidActor(events[i].by) /\ ValidMoment(events[i].at)}
  IN IF \E i \in valid : events[i].by \in Humans THEN "human-reviewed"
     ELSE IF valid # {} THEN "machine-confirmed" ELSE "unverified"

NormalizedUsageWindow(v) ==
  [given |-> IsObject(v), from |-> ObjectString(FieldsOf(v), "from"), to |-> ObjectString(FieldsOf(v), "to")]

NoCount == -1

SafeCount(v) == IF v.is = "number" /\ v.value \in 0..MaxSafeInteger THEN v.value ELSE NoCount

NormalizedSource(v) ==
  LET string(key) == ObjectString(FieldsOf(v), key)
  IN [id |-> string("id"), resource |-> string("resource"), title |-> string("title"),
      author |-> string("author"), lastModified |-> string("last_modified"),
      usageCount |-> SafeCount(Untagged(Get(FieldsOf(v), "usage_count"))),
      usageWindow |-> NormalizedUsageWindow(Get(FieldsOf(v), "usage_window"))]

NormalizedSources(v) == Each(IF v.is = "list" THEN Objects(v.items) ELSE <<>>, NormalizedSource)

NormalizedParameter(v) ==
  LET required == Untagged(Get(FieldsOf(v), "required"))
  IN [name |-> ObjectString(FieldsOf(v), "name"), type |-> ObjectString(FieldsOf(v), "type"),
      required |-> required.is = "boolean"]

NormalizedParameters(v) == Each(IF v.is = "list" THEN Objects(v.items) ELSE <<>>, NormalizedParameter)

NormalizedEndpoint(v) ==
  LET receipt == Get(FieldsOf(v), "receipt")
  IN [given |-> IsObject(v), resource |-> ObjectString(FieldsOf(v), "resource"),
      receipt |-> IF receipt.is = "list"
                  THEN Each(SelectSeq(Each(receipt.items, Untagged), LAMBDA w : w.is = "string"),
                            LAMBDA w : w.value)
                  ELSE <<>>]

-----------------------------------------------------------------------------
(* What validation reports.  Five minutes of clock skew are allowed.       *)

InFuture(s, now) == Moment[s] > now.minute + 5

GeneratedFindings(raw, now) ==
  LET v == Get(raw, "generated")
      kept == NormalizedGenerated(v)
  IN IF ~Has(raw, "generated") THEN {}
     ELSE IF \/ ~IsObject(v) \/ ~ValidActor(kept.by)
             \/ (Has(FieldsOf(v), "at") /\ ~ValidMoment(kept.at)) THEN {"invalid-generated"}
     ELSE IF Has(FieldsOf(v), "at") /\ InFuture(kept.at, now) THEN {"future-generated-at"} ELSE {}

VerifiedFindings(raw, now) ==
  LET v == Get(raw, "verified")
      values == IF v.is = "list" THEN v.items ELSE <<v>>
      kept == NormalizedVerifications(v)
      sound(i) == /\ IsObject(values[i]) /\ i \in DOMAIN kept
                  /\ ValidActor(kept[i].by) /\ ValidMoment(kept[i].at)
  IN IF ~Has(raw, "verified") THEN {}
     ELSE IF \/ values = <<>> \/ Len(kept) # Len(values)
             \/ \E i \in DOMAIN values : ~sound(i) THEN {"invalid-verified"}
     ELSE IF \E i \in DOMAIN kept : InFuture(kept[i].at, now) THEN {"future-verified-at"} ELSE {}

StatusFindings(raw) ==
  IF Has(raw, "status") /\ ObjectString(raw, "status") \notin {"draft", "stable", "deprecated"}
  THEN {"invalid-status"} ELSE {}

StaleFindings(raw, now) ==
  LET date == ObjectString(raw, "stale_after")
  IN IF ~Has(raw, "stale_after") THEN {}
     ELSE IF ~ValidDate(date) THEN {"invalid-stale-after"}
     ELSE IF Day[date] <= now.day THEN {"stale-concept"} ELSE {}

ValidWindow(w) == w.given /\ ValidDate(w.from) /\ ValidDate(w.to) /\ Day[w.from] <= Day[w.to]

(* A source that counts its uses needs a window, its own or the concept's. *)
ValidSource(v, kept, window) ==
  LET written(key) == Has(FieldsOf(v), key)
  IN /\ IsObject(v)
     /\ NonBlank(kept.resource)
     /\ written("id") => kept.id # None
     /\ written("title") => kept.title # None
     /\ written("author") => ValidActor(kept.author) \/ kept.author \in Teams
     /\ written("usage_count") => /\ kept.usageCount # NoCount
                                  /\ ValidWindow(IF written("usage_window") THEN kept.usageWindow ELSE window)
     /\ written("last_modified") => ValidDate(kept.lastModified)
     /\ written("usage_window") => ValidWindow(kept.usageWindow)

SourcesFindings(raw) ==
  LET v == Get(raw, "sources")
      kept == NormalizedSources(v)
      window == NormalizedUsageWindow(Get(raw, "usage_window"))
  IN IF Has(raw, "sources") /\ ~(/\ v.is = "list" /\ Len(v.items) = Len(kept)
                                 /\ \A i \in DOMAIN kept : ValidSource(v.items[i], kept[i], window))
     THEN {"invalid-sources"} ELSE {}

WindowFindings(raw) ==
  IF Has(raw, "usage_window") /\ ~ValidWindow(NormalizedUsageWindow(Get(raw, "usage_window")))
  THEN {"invalid-usage-window"} ELSE {}

ValidParameters(raw) ==
  LET v == Get(raw, "parameters")
      kept == NormalizedParameters(v)
  IN Has(raw, "parameters") =>
       /\ v.is = "list" /\ Len(v.items) = Len(kept)
       /\ \A i \in DOMAIN kept : NonBlank(kept[i].name) /\ NonBlank(kept[i].type) /\ kept[i].required

ValidEndpoint(raw, key, allowReceipt) ==
  LET v == Get(raw, key)
      kept == NormalizedEndpoint(v)
      receipt == Get(FieldsOf(v), "receipt")
  IN Has(raw, key) =>
       /\ IsObject(v) /\ NonBlank(kept.resource)
       /\ (allowReceipt /\ Has(FieldsOf(v), "receipt")) =>
            /\ receipt.is = "list" /\ Len(receipt.items) = Len(kept.receipt)
            /\ \A i \in DOMAIN kept.receipt : NonBlank(kept.receipt[i])

(* Fenced code below a first-level heading Computation, in the sequence of *)
(* block events of the body; headings in quotes and lists do not count.    *)
InlineComputations(events) ==
  FoldLeft(LAMBDA at, event :
      CASE event = "open"  -> [at EXCEPT !.depth = @ + 1]
        [] event = "close" -> [at EXCEPT !.depth = IF @ > 0 THEN @ - 1 ELSE 0]
        [] event = "computation" -> IF at.depth = 0 THEN [at EXCEPT !.inside = TRUE] ELSE at
        [] event = "heading" -> IF at.depth = 0 THEN [at EXCEPT !.inside = FALSE] ELSE at
        [] event = "fence" -> IF at.inside THEN [at EXCEPT !.count = @ + 1] ELSE at
        [] OTHER -> at,
    [depth |-> 0, inside |-> FALSE, count |-> 0], events).count

ValidComputation(raw, events) ==
  IF Has(raw, "computation") THEN NonBlank(ObjectString(raw, "computation")) /\ InlineComputations(events) = 0
  ELSE InlineComputations(events) = 1

AttestedFindings(raw, events) ==
  IF /\ ObjectString(raw, "type") = "Attested Computation"
     /\ ~(/\ NonBlank(ObjectString(raw, "runtime")) /\ ValidParameters(raw) /\ ValidComputation(raw, events)
          /\ ValidEndpoint(raw, "executor", TRUE) /\ ValidEndpoint(raw, "attester", FALSE))
  THEN {"invalid-attested-computation"} ELSE {}

V02Findings(raw, events, now) ==
  UNION {GeneratedFindings(raw, now), VerifiedFindings(raw, now), StatusFindings(raw),
         StaleFindings(raw, now), SourcesFindings(raw), WindowFindings(raw), AttestedFindings(raw, events)}
================================================================================
