------------------------------- MODULE CoreProofs -------------------------------
(***************************************************************************)
(* The core, for any documents, paths and limits.  First the parser of     *)
(* BundleParse and the requests of BundleInspection: the saturating        *)
(* comparisons of the code, and the charges it takes back when a document  *)
(* fails late, never let a bundle retain more than its limits; the         *)
(* failures it reports say why a document or the bundle is missing; a link *)
(* it resolves says what lies at its target; and a graph that is published *)
(* is one of the whole bundle.  Then the operations on paths and texts,    *)
(* which are folds: how a fold is followed step by step, what Templates    *)
(* renders, that a plan of Migration loses nothing and writes the version  *)
(* last, and that a second plan after it is empty.                         *)
(***************************************************************************)
EXTENDS BundleInspection, Templates, Migration, FiniteSetTheorems, SequenceTheorems, WellFoundedInduction,
        NaturalsInduction, TLAPS

Hashes == {"unparsed", "given", "fallback"}

Entries ==
  {[doc |-> d, path |-> PathOf(d), hash |-> h, known |-> k] :
     d \in Documents, h \in Hashes, k \in BOOLEAN}

TypeInv ==
  /\ waiting \subseteq Documents
  /\ decoded \in Seq(Entries)
  /\ used \in [Resources -> Nat]
  /\ IsFiniteSet(types) /\ IsFiniteSet(tags)

LimitsInvariant == TypeInv /\ RetainedWithinLimits

(* The metadata and links retained are within their limits.                *)
Bounded(amounts) ==
  /\ amounts \in [Resources -> Nat]
  /\ \A r \in Retained : amounts[r] <= Limit[r]

(* What one document costs is a number, within the limits for the rest.    *)
LEMMA CostsFit ==
  ASSUME NEW d \in Documents
  PROVE  /\ \A r \in Resources : Cost(d, r) \in Nat /\ Limit[r] \in Nat
         /\ \A r \in Retained : Cost(d, r) <= Limit[r]
BY LimitAssumption, DocumentAssumption DEF Resources

(* A resource that is not overdrawn can be charged.                        *)
LEMMA ChargeFits ==
  ASSUME NEW amount \in Nat, NEW cost \in Nat, NEW limit \in Nat,
         cost <= limit, ~Overdrawn(amount, cost, limit)
  PROVE  amount + cost <= limit
BY DEF Overdrawn

(* Charging keeps the bound when what it adds to is not exceeded.          *)
LEMMA ChargeKeeps ==
  ASSUME NEW d \in Documents, Bounded(used), NEW kinds,
         ~Exceeds(d, kinds \cap Retained)
  PROVE  Bounded(Charge(used, d, kinds))
<1>1. Charge(used, d, kinds) \in [Resources -> Nat]
  BY CostsFit DEF Charge, Bounded
<1>2. ASSUME NEW r \in Retained
      PROVE  Charge(used, d, kinds)[r] <= Limit[r]
  <2>1. r \in Resources
    BY DEF Resources
  <2>2. CASE r \in kinds
    <3>1. ~Overdrawn(used[r], Cost(d, r), Limit[r])
      BY <2>2 DEF Exceeds
    <3>2. used[r] + Cost(d, r) <= Limit[r]
      BY <2>1, <3>1, CostsFit, ChargeFits DEF Bounded
    <3>3. QED
      BY <2>1, <2>2, <3>2 DEF Charge
  <2>3. CASE r \notin kinds
    BY <2>1, <2>3 DEF Charge, Bounded
  <2>4. QED
    BY <2>2, <2>3
<1>3. QED
  BY <1>1, <1>2 DEF Bounded

(* The work of inspection is no retained resource.                         *)
LEMMA WorkIsApart == FrontWork \cap Retained = {} /\ BodyWork \cap Retained = {}
BY DEF FrontWork, BodyWork, Retained

(* Whatever work is charged, what is retained stays as it was.             *)
LEMMA WorkKeeps ==
  ASSUME NEW d \in Documents, Bounded(used)
  PROVE  /\ Bounded(FrontCharged(d)) /\ Bounded(BodyCharged(d))
         /\ \A r \in Retained : BodyCharged(d)[r] = used[r]
<1>1. /\ FrontCharged(d) \in [Resources -> Nat]
      /\ \A r \in Retained : FrontCharged(d)[r] = used[r]
  BY CostsFit, WorkIsApart DEF FrontCharged, FrontOf, Charge, Bounded, Resources
<1>2. /\ BodyCharged(d) \in [Resources -> Nat]
      /\ \A r \in Retained : BodyCharged(d)[r] = used[r]
  BY <1>1, CostsFit, WorkIsApart DEF BodyCharged, BodyOf, Charge, Resources
<1>3. QED
  BY <1>1, <1>2 DEF Bounded

(* The output of a frontmatter is charged after its check.                 *)
LEMMA OutputKeeps ==
  ASSUME NEW d \in Documents, Bounded(used), ~Exceeds(d, {"output"})
  PROVE  Bounded(Charge(BodyCharged(d), d, {"output"}))
<1>1. Charge(BodyCharged(d), d, {"output"}) \in [Resources -> Nat]
  BY WorkKeeps, CostsFit DEF Charge, Bounded
<1>2. ASSUME NEW r \in Retained
      PROVE  Charge(BodyCharged(d), d, {"output"})[r] <= Limit[r]
  <2>1. r \in Resources
    BY DEF Resources
  <2>2. CASE r = "output"
    <3>1. ~Overdrawn(used[r], Cost(d, r), Limit[r])
      BY <2>2 DEF Exceeds
    <3>2. used[r] + Cost(d, r) <= Limit[r]
      BY <2>1, <3>1, CostsFit, ChargeFits DEF Bounded
    <3>3. QED
      BY <2>1, <2>2, <3>2, WorkKeeps DEF Charge
  <2>3. CASE r # "output"
    BY <2>1, <2>3, WorkKeeps DEF Charge, Bounded
  <2>4. QED
    BY <2>2, <2>3
<1>3. QED
  BY <1>1, <1>2 DEF Bounded

Joined(all, work, front, concept) == all = work \o front \o concept

InThreeParts(all, work, front, concept) ==
  /\ Len(all) = 11 /\ DOMAIN all = 1..11
  /\ \A i \in 1..2 : all[i] = work[i]
  /\ \A i \in 1..4 : all[i + 2] = front[i]
  /\ \A i \in 1..5 : all[i + 6] = concept[i]

(* Two, four and five things in a row are eleven.                          *)
LEMMA ElevenInOrder ==
  ASSUME NEW S, NEW work \in Seq(S), NEW front \in Seq(S), NEW concept \in Seq(S),
         Len(work) = 2, Len(front) = 4, Len(concept) = 5,
         NEW all, Joined(all, work, front, concept)
  PROVE  InThreeParts(all, work, front, concept)
<1> DEFINE begun == work \o front
<1>1. /\ begun \in Seq(S) /\ Len(begun) = Len(work) + Len(front)
      /\ \A i \in 1 .. Len(work) + Len(front) :
           begun[i] = IF i <= Len(work) THEN work[i] ELSE front[i - Len(work)]
  BY ConcatProperties, Zenon
<1>0. all = begun \o concept
  BY Zenon DEF Joined
<1> HIDE DEF begun
<1>2. begun \in Seq(S)
  BY <1>1
<1>3. /\ all \in Seq(S) /\ Len(all) = Len(begun) + Len(concept)
      /\ \A i \in 1 .. Len(begun) + Len(concept) :
           all[i] = IF i <= Len(begun) THEN begun[i] ELSE concept[i - Len(begun)]
  <2>1. /\ begun \o concept \in Seq(S) /\ Len(begun \o concept) = Len(begun) + Len(concept)
        /\ \A i \in 1 .. Len(begun) + Len(concept) :
             (begun \o concept)[i] = IF i <= Len(begun) THEN begun[i] ELSE concept[i - Len(begun)]
    BY <1>2, ConcatProperties, Zenon
  <2>2. QED
    BY <1>0, <2>1, Zenon
<1>4. /\ Len(begun) = 6
      /\ \A i \in 1..2 : begun[i] = work[i]
      /\ \A i \in 1..4 : begun[i + 2] = front[i]
  BY <1>1
<1>5. Len(all) = 11 /\ DOMAIN all = 1..11
  BY <1>3, <1>4
<1>6. /\ \A i \in 1..6 : all[i] = begun[i]
      /\ \A i \in 1..5 : all[i + 6] = concept[i]
  BY <1>3, <1>4
<1>7. /\ \A i \in 1..2 : all[i] = work[i]
      /\ \A i \in 1..4 : all[i + 2] = front[i]
  BY <1>4, <1>6
<1>8. QED
  BY <1>5, <1>6, <1>7, Zenon DEF InThreeParts

(* What each of the checks of a document decides, and what is charged when *)
(* it fails.                                                               *)
LEMMA ChecksInOrder ==
  ASSUME NEW x
  PROVE  LET d == x.doc
             checks == Checks(x)
             output == Charge(BodyCharged(d), d, {"output"})
         IN /\ Len(checks) = 11 /\ DOMAIN checks = 1..11
            /\ checks[1].charged = used /\ checks[2].charged = FrontCharged(d)
            /\ \A i \in (3..8) \cup {11} : checks[i].charged = BodyCharged(d)
            /\ \A i \in 9..10 : checks[i].charged = output
            /\ \A i \in 1..11 : checks[i].scope = "bundle" => checks[i].reason = "resourceLimit"
            /\ \A i \in 1..11 : checks[i].reason \in {"resourceLimit", "frontmatter"}
            /\ checks[3].fails <=> d.front = "unterminated" \/ (d.front = "closed" /\ d.yaml = "invalid")
            /\ checks[5].fails <=> ~IsReserved(x.path) /\ d.front = "absent"
            /\ checks[6].fails <=> d.front = "closed" /\ Exceeds(d, {"output"})
            /\ checks[9].fails <=> ~IsReserved(x.path) /\ Exceeds(d, {"links"})
            /\ checks[10].fails <=> ~IsReserved(x.path) /\ Exceeds(d, {"linkText"})
            /\ checks[11].fails <=>
                 /\ ~IsReserved(x.path)
                 /\ \/ Exceeds(d, {"assignments"})
                    \/ Overdrawn(Cardinality(types), Cardinality({d.type} \ types), Limit["types"])
                    \/ Overdrawn(Cardinality(tags), Cardinality(NewTags(d)), Limit["tags"])
<1> DEFINE d == x.doc
           concept == ~IsReserved(x.path)
           output == Charge(BodyCharged(d), d, {"output"})
           c1 == BundleCheck(Exceeds(d, FrontOf(d)), used)
           c2 == BundleCheck(Exceeds(d, BodyOf(d)), FrontCharged(d))
           c3 == Check(d.front = "unterminated" \/ (d.front = "closed" /\ d.yaml = "invalid"),
                       "frontmatter", "none", BodyCharged(d))
           c4 == Check(d.front = "closed" /\ d.yaml = "complex", "resourceLimit", "document", BodyCharged(d))
           c5 == Check(concept /\ d.front = "absent", "frontmatter", "none", BodyCharged(d))
           c6 == BundleCheck(d.front = "closed" /\ Exceeds(d, {"output"}), BodyCharged(d))
           c7 == Check(concept /\ UnsafeMetadata(d), "resourceLimit", "document", BodyCharged(d))
           c8 == Check(concept /\ d.markdown = "complex", "resourceLimit", "document", BodyCharged(d))
           c9 == BundleCheck(concept /\ Exceeds(d, {"links"}), output)
           c10 == BundleCheck(concept /\ Exceeds(d, {"linkText"}), output)
           c11 == BundleCheck(/\ concept
                              /\ \/ Exceeds(d, {"assignments"})
                                 \/ Overdrawn(Cardinality(types), Cardinality({d.type} \ types), Limit["types"])
                                 \/ Overdrawn(Cardinality(tags), Cardinality(NewTags(d)), Limit["tags"]),
                              BodyCharged(d))
           checks == Checks(x)
           S == {c1, c2, c3, c4, c5, c6, c7, c8, c9, c10, c11}
           work == <<c1, c2>>
           front == <<c3, c4, c5, c6>>
           kept == <<c7, c8, c9, c10, c11>>
<1>1. Joined(checks, work, front, kept)
  BY Zenon DEF Joined, Checks, WorkChecks, FrontmatterChecks, ConceptChecks
<1>2. /\ c1.charged = used /\ c2.charged = FrontCharged(d)
      /\ c3.charged = BodyCharged(d) /\ c4.charged = BodyCharged(d) /\ c5.charged = BodyCharged(d)
      /\ c6.charged = BodyCharged(d) /\ c7.charged = BodyCharged(d) /\ c8.charged = BodyCharged(d)
      /\ c9.charged = output /\ c10.charged = output /\ c11.charged = BodyCharged(d)
  BY Zenon DEF Check, BundleCheck
<1>13. /\ c1.reason = "resourceLimit" /\ c2.reason = "resourceLimit" /\ c6.reason = "resourceLimit"
       /\ c9.reason = "resourceLimit" /\ c10.reason = "resourceLimit" /\ c11.reason = "resourceLimit"
       /\ c3.scope # "bundle" /\ c4.scope # "bundle" /\ c5.scope # "bundle"
       /\ c7.scope # "bundle" /\ c8.scope # "bundle"
       /\ c3.reason = "frontmatter" /\ c4.reason = "resourceLimit" /\ c5.reason = "frontmatter"
       /\ c7.reason = "resourceLimit" /\ c8.reason = "resourceLimit"
  BY DEF Check, BundleCheck
<1>3. /\ c3.fails <=> d.front = "unterminated" \/ (d.front = "closed" /\ d.yaml = "invalid")
      /\ c5.fails <=> concept /\ d.front = "absent"
      /\ c6.fails <=> d.front = "closed" /\ Exceeds(d, {"output"})
      /\ c9.fails <=> concept /\ Exceeds(d, {"links"})
      /\ c10.fails <=> concept /\ Exceeds(d, {"linkText"})
      /\ c11.fails <=>
           /\ concept
           /\ \/ Exceeds(d, {"assignments"})
              \/ Overdrawn(Cardinality(types), Cardinality({d.type} \ types), Limit["types"])
              \/ Overdrawn(Cardinality(tags), Cardinality(NewTags(d)), Limit["tags"])
  BY Zenon DEF Check, BundleCheck
<1> HIDE DEF c1, c2, c3, c4, c5, c6, c7, c8, c9, c10, c11, checks
<1>4. work \in Seq(S) /\ front \in Seq(S) /\ kept \in Seq(S)
  OBVIOUS
<1>5. Len(work) = 2 /\ Len(front) = 4 /\ Len(kept) = 5
  OBVIOUS
<1>6. /\ work[1] = c1 /\ work[2] = c2
      /\ front[1] = c3 /\ front[2] = c4 /\ front[3] = c5 /\ front[4] = c6
      /\ kept[1] = c7 /\ kept[2] = c8 /\ kept[3] = c9 /\ kept[4] = c10
      /\ kept[5] = c11
  OBVIOUS
<1> HIDE DEF S, work, front, kept
<1>7. /\ Len(checks) = 11 /\ DOMAIN checks = 1..11
      /\ \A i \in 1..2 : checks[i] = work[i]
      /\ \A i \in 1..4 : checks[i + 2] = front[i]
      /\ \A i \in 1..5 : checks[i + 6] = kept[i]
  <2>1. InThreeParts(checks, work, front, kept)
    BY <1>1, <1>4, <1>5, ElevenInOrder, Zenon
  <2>2. QED
    BY <2>1, Zenon DEF InThreeParts
<1>8. /\ checks[1] = c1 /\ checks[2] = c2 /\ checks[3] = c3 /\ checks[4] = c4 /\ checks[5] = c5
      /\ checks[6] = c6 /\ checks[7] = c7 /\ checks[8] = c8 /\ checks[9] = c9 /\ checks[10] = c10
      /\ checks[11] = c11
  BY <1>6, <1>7
<1>9. \A i \in (3..8) \cup {11} :
        i = 3 \/ i = 4 \/ i = 5 \/ i = 6 \/ i = 7 \/ i = 8 \/ i = 11
  OBVIOUS
<1>10. \A i \in 9..10 : i = 9 \/ i = 10
  OBVIOUS
<1>14. \A i \in 1..11 : /\ checks[i].scope = "bundle" => checks[i].reason = "resourceLimit"
                        /\ checks[i].reason \in {"resourceLimit", "frontmatter"}
  <2>1. \A i \in 1..11 : \/ i = 1 \/ i = 2 \/ i = 3 \/ i = 4 \/ i = 5 \/ i = 6 \/ i = 7 \/ i = 8
                         \/ i = 9 \/ i = 10 \/ i = 11
    OBVIOUS
  <2>2. \A i \in 1..11 : /\ checks[i].scope = "bundle" => checks[i].reason = "resourceLimit"
                         /\ checks[i].reason = "resourceLimit" \/ checks[i].reason = "frontmatter"
    BY <1>8, <1>13, <2>1, Zenon
  <2>3. QED
    BY <2>2
<1> HIDE DEF output
<1>11. /\ \A i \in (3..8) \cup {11} : checks[i].charged = BodyCharged(d)
      /\ \A i \in 9..10 : checks[i].charged = output
  BY <1>2, <1>8, <1>9, <1>10, Zenon
<1>12. QED
  BY <1>2, <1>3, <1>7, <1>8, <1>11, <1>14, Zenon DEF checks, output

-----------------------------------------------------------------------------
(* The steps.                                                              *)

(* A document that fails a check leaves the retained amounts bounded: the  *)
(* charge of the output is only there after its own check was passed.      *)
LEMMA DroppedIsBounded ==
  ASSUME NEW x, x.doc \in Documents, Bounded(used),
         NEW i \in DOMAIN Checks(x), Checks(x)[i].fails, Passes(x, i - 1)
  PROVE  Bounded(Checks(x)[i].charged)
<1> DEFINE checks == Checks(x)
           d == x.doc
           output == Charge(BodyCharged(d), d, {"output"})
<1>1. /\ Len(checks) = 11 /\ DOMAIN checks = 1..11
      /\ checks[1].charged = used /\ checks[2].charged = FrontCharged(d)
      /\ \A j \in (3..8) \cup {11} : checks[j].charged = BodyCharged(d)
      /\ \A j \in 9..10 : checks[j].charged = output
  BY ChecksInOrder, Zenon
<1>2. /\ checks[3].fails <=> d.front = "unterminated" \/ (d.front = "closed" /\ d.yaml = "invalid")
      /\ checks[5].fails <=> ~IsReserved(x.path) /\ d.front = "absent"
      /\ checks[6].fails <=> d.front = "closed" /\ Exceeds(d, {"output"})
      /\ checks[9].fails <=> ~IsReserved(x.path) /\ Exceeds(d, {"links"})
      /\ checks[10].fails <=> ~IsReserved(x.path) /\ Exceeds(d, {"linkText"})
  BY ChecksInOrder, Zenon
<1>3. checks[i].fails /\ \A j \in 1..(i - 1) : ~checks[j].fails
  BY Zenon DEF Passes
<1>4. Bounded(FrontCharged(d)) /\ Bounded(BodyCharged(d))
  BY WorkKeeps
<1>5. ASSUME i \in 9..10 PROVE Bounded(output)
  <2>1. ~checks[3].fails /\ ~checks[5].fails /\ ~checks[6].fails
    <3>1. 3 \in 1..(i - 1) /\ 5 \in 1..(i - 1) /\ 6 \in 1..(i - 1)
      BY <1>5
    <3>2. QED
      BY <3>1, <1>3, Zenon
  <2>2. ~IsReserved(x.path)
    <3>1. i = 9 \/ i = 10
      BY <1>5
    <3>2. QED
      BY <3>1, <1>2, <1>3, Zenon
  <2>3. d.front = "closed"
    BY <2>1, <2>2, <1>2, DocumentAssumption
  <2>4. QED
    BY <2>1, <2>3, <1>2, OutputKeeps, Zenon
<1> HIDE DEF checks, output, d
<1>6. i \in 1..11
  BY <1>1 DEF checks
<1>7. i = 1 \/ i = 2 \/ i \in (3..8) \cup {11} \/ i \in 9..10
  BY <1>6
<1>8. Bounded(checks[i].charged)
  BY <1>1, <1>4, <1>5, <1>7
<1>9. QED
  BY <1>8 DEF checks

(* The first conjuncts of an entry that is kept whole.                     *)
LEMMA WholePasses ==
  ASSUME NEW x, x.doc \in Documents, Whole(x)
  PROVE  /\ x.doc.front = "closed" => ~Exceeds(x.doc, {"output"})
         /\ ~IsReserved(x.path) =>
              /\ x.doc.front = "closed"
              /\ ~Exceeds(x.doc, {"links"}) /\ ~Exceeds(x.doc, {"linkText"})
              /\ ~Exceeds(x.doc, {"assignments"})
              /\ ~Overdrawn(Cardinality(types), Cardinality({x.doc.type} \ types), Limit["types"])
              /\ ~Overdrawn(Cardinality(tags), Cardinality(NewTags(x.doc)), Limit["tags"])
<1> DEFINE checks == Checks(x)
           d == x.doc
<1>1. Len(checks) = 11
  BY ChecksInOrder, Zenon
<1>2. \A j \in 1..11 : ~checks[j].fails
  BY <1>1, Zenon DEF Whole, Passes
<1>3. /\ ~checks[3].fails /\ ~checks[5].fails /\ ~checks[6].fails
      /\ ~checks[9].fails /\ ~checks[10].fails /\ ~checks[11].fails
  <2> HIDE DEF checks
  <2>1. QED
    BY <1>2
<1>4. /\ checks[3].fails <=> d.front = "unterminated" \/ (d.front = "closed" /\ d.yaml = "invalid")
      /\ checks[5].fails <=> ~IsReserved(x.path) /\ d.front = "absent"
      /\ checks[6].fails <=> d.front = "closed" /\ Exceeds(d, {"output"})
      /\ checks[9].fails <=> ~IsReserved(x.path) /\ Exceeds(d, {"links"})
      /\ checks[10].fails <=> ~IsReserved(x.path) /\ Exceeds(d, {"linkText"})
      /\ checks[11].fails <=>
           /\ ~IsReserved(x.path)
           /\ \/ Exceeds(d, {"assignments"})
              \/ Overdrawn(Cardinality(types), Cardinality({d.type} \ types), Limit["types"])
              \/ Overdrawn(Cardinality(tags), Cardinality(NewTags(d)), Limit["tags"])
  BY ChecksInOrder, Zenon
<1>5. d.front \in {"absent", "unterminated", "closed"}
  BY DocumentAssumption
<1>6. ~IsReserved(x.path) => d.front = "closed"
  BY <1>3, <1>4, <1>5, Zenon
<1>7. QED
  BY <1>3, <1>4, <1>6, Zenon

(* A set grows by the members that are new.                                *)
LEMMA UnionFits ==
  ASSUME NEW old, IsFiniteSet(old), NEW more, IsFiniteSet(more), NEW limit \in Nat,
         Cardinality(more \ old) <= limit,
         ~Overdrawn(Cardinality(old), Cardinality(more \ old), limit)
  PROVE  IsFiniteSet(old \cup more) /\ Cardinality(old \cup more) <= limit
<1>1. IsFiniteSet(more \ old)
  BY FS_Subset
<1>2. Cardinality(old) \in Nat /\ Cardinality(more \ old) \in Nat
  BY <1>1, FS_CardinalityType
<1>3. Cardinality(old) + Cardinality(more \ old) <= limit
  BY <1>2, ChargeFits
<1>4. /\ old \cup more = old \cup (more \ old)
      /\ old \cap (more \ old) = {}
  OBVIOUS
<1>5. /\ IsFiniteSet(old \cup (more \ old))
      /\ Cardinality(old \cup (more \ old)) =
           Cardinality(old) + Cardinality(more \ old) - Cardinality(old \cap (more \ old))
  BY <1>1, FS_Union
<1>6. Cardinality(old \cap (more \ old)) = 0
  BY <1>4, FS_EmptySet
<1>7. /\ IsFiniteSet(old \cup more)
      /\ Cardinality(old \cup more) =
           Cardinality(old) + Cardinality(more \ old) - Cardinality(old \cap (more \ old))
  BY <1>4, <1>5, Zenon
<1>8. QED
  BY <1>2, <1>3, <1>6, <1>7

(* The types and tags a concept adds fit.                                  *)
LEMMA ConceptFits ==
  ASSUME NEW x, x.doc \in Documents, Whole(x), ~IsReserved(x.path),
         IsFiniteSet(types), IsFiniteSet(tags)
  PROVE  /\ IsFiniteSet(types \cup {x.doc.type})
         /\ Cardinality(types \cup {x.doc.type}) <= Limit["types"]
         /\ IsFiniteSet(tags \cup ToSet(x.doc.tags))
         /\ Cardinality(tags \cup ToSet(x.doc.tags)) <= Limit["tags"]
<1>1. Limit["types"] \in Nat /\ Limit["types"] > 0 /\ Limit["tags"] \in Nat
  BY LimitAssumption
<1>2. /\ IsFiniteSet({x.doc.type}) /\ Cardinality({x.doc.type}) = 1
      /\ IsFiniteSet(ToSet(x.doc.tags)) /\ Cardinality(ToSet(x.doc.tags)) <= Limit["tags"]
  BY DocumentAssumption, FS_Singleton
<1>3. /\ IsFiniteSet({x.doc.type} \ types)
      /\ Cardinality({x.doc.type} \ types) <= Cardinality({x.doc.type})
  BY <1>2, FS_Subset, {x.doc.type} \ types \subseteq {x.doc.type}
<1>4. /\ IsFiniteSet(NewTags(x.doc))
      /\ Cardinality(NewTags(x.doc)) <= Cardinality(ToSet(x.doc.tags))
  <2>1. NewTags(x.doc) \subseteq ToSet(x.doc.tags)
    BY DEF NewTags
  <2>2. QED
    BY <2>1, <1>2, FS_Subset
<1>5. /\ Cardinality({x.doc.type} \ types) <= Limit["types"]
      /\ Cardinality(NewTags(x.doc)) <= Limit["tags"]
  BY <1>1, <1>2, <1>3, <1>4, FS_CardinalityType
<1>6. /\ ~Overdrawn(Cardinality(types), Cardinality({x.doc.type} \ types), Limit["types"])
      /\ ~Overdrawn(Cardinality(tags), Cardinality(NewTags(x.doc)), Limit["tags"])
  BY WholePasses, Zenon
<1>7. /\ IsFiniteSet(types \cup {x.doc.type})
      /\ Cardinality(types \cup {x.doc.type}) <= Limit["types"]
  BY <1>1, <1>2, <1>5, <1>6, UnionFits
<1>8. /\ IsFiniteSet(tags \cup ToSet(x.doc.tags))
      /\ Cardinality(tags \cup ToSet(x.doc.tags)) <= Limit["tags"]
  BY <1>1, <1>2, <1>5, <1>6, UnionFits DEF NewTags
<1>9. QED
  BY <1>7, <1>8

(* What is charged for a document that is kept whole stays bounded.        *)
LEMMA KeptIsBounded ==
  ASSUME NEW x, x.doc \in Documents, Whole(x), Bounded(used)
  PROVE  /\ ~IsReserved(x.path) => Bounded(Charge(used, x.doc, Resources))
         /\ Bounded(Charge(used, x.doc, FrontOf(x.doc) \cup BodyOf(x.doc)
                                  \cup (IF x.doc.front = "closed" THEN {"output"} ELSE {})))
<1>1. ASSUME ~IsReserved(x.path) PROVE Bounded(Charge(used, x.doc, Resources))
  <2>1. ~Exceeds(x.doc, Retained)
    BY <1>1, WholePasses DEF Exceeds, Retained
  <2>2. Resources \cap Retained = Retained
    BY DEF Resources
  <2>3. QED
    BY <2>1, <2>2, ChargeKeeps
<1>2. Bounded(Charge(used, x.doc, FrontOf(x.doc) \cup BodyOf(x.doc)
                        \cup (IF x.doc.front = "closed" THEN {"output"} ELSE {})))
  <2> DEFINE kinds == FrontOf(x.doc) \cup BodyOf(x.doc)
                        \cup (IF x.doc.front = "closed" THEN {"output"} ELSE {})
  <2>1. kinds \cap Retained \subseteq IF x.doc.front = "closed" THEN {"output"} ELSE {}
    BY WorkIsApart DEF FrontOf, BodyOf
  <2>2. ~Exceeds(x.doc, kinds \cap Retained)
    BY <2>1, WholePasses DEF Exceeds
  <2> HIDE DEF kinds
  <2>3. Bounded(Charge(used, x.doc, kinds))
    BY <2>2, ChargeKeeps
  <2>4. QED
    BY <2>3 DEF kinds
<1>3. QED
  BY <1>1, <1>2

(* At the start nothing is retained.                                       *)
LEMMA InitialLimits == Init => LimitsInvariant
<1> SUFFICES ASSUME Init PROVE LimitsInvariant
  OBVIOUS
<1>1. waiting \subseteq Documents
  <2>1. PICK s \in [1..MaxInput -> Documents] : input = ToSet(s)
    BY DEF Init
  <2>2. \A i \in DOMAIN s : s[i] \in Documents
    BY <2>1
  <2>3. QED
    BY <2>1, <2>2, Zenon DEF Init, ToSet
<1>2. decoded \in Seq(Entries) /\ used \in [Resources -> Nat]
  BY DEF Init
<1>3. /\ IsFiniteSet(types) /\ Cardinality(types) = 0
      /\ IsFiniteSet(tags) /\ Cardinality(tags) = 0
  BY FS_EmptySet DEF Init
<1>4. \A r \in Retained : used[r] <= Limit[r]
  BY LimitAssumption DEF Init, Resources
<1>5. QED
  BY <1>1, <1>2, <1>3, <1>4, LimitAssumption DEF LimitsInvariant, TypeInv, RetainedWithinLimits

(* The first pass retains nothing; what it decodes are entries.            *)
LEMMA FirstPassKeeps ==
  ASSUME LimitsInvariant, FirstPass PROVE LimitsInvariant'
<1>1. UNCHANGED <<used, types, tags>> /\ waiting' \subseteq waiting
  BY DEF FirstPass, RejectIdentity, IgnoreOther, RejectPath, RejectDuplicate, Decode, Reject,
         Register, Unchanged1
<1>2. ASSUME NEW d \in waiting, NEW h \in Hashes, NEW k \in BOOLEAN, NEW failed,
             Register(d, h, k, failed)
      PROVE  decoded' \in Seq(Entries)
  <2>1. [doc |-> d, path |-> PathOf(d), hash |-> h, known |-> k] \in Entries
    BY <1>2 DEF Entries, LimitsInvariant, TypeInv
  <2>2. /\ decoded \in Seq(Entries)
        /\ \/ decoded' = decoded
           \/ decoded' = Append(decoded, [doc |-> d, path |-> PathOf(d), hash |-> h, known |-> k])
    BY <1>2, Zenon DEF Register, LimitsInvariant, TypeInv
  <2>3. QED
    BY <2>1, <2>2
<1>3. decoded' \in Seq(Entries)
  <2>1. PICK d \in waiting : \/ RejectIdentity(d) \/ IgnoreOther(d) \/ RejectPath(d)
                             \/ RejectDuplicate(d) \/ Decode(d)
    BY DEF FirstPass
  <2>2. CASE Decode(d)
    <3>1. \A hashed : HashOf(d, hashed) \in Hashes
      BY DEF HashOf, Hashes
    <3>2. "unparsed" \in Hashes /\ TRUE \in BOOLEAN /\ FALSE \in BOOLEAN
      BY DEF Hashes
    <3>3. \E h \in Hashes, k \in BOOLEAN : \E failed : Register(d, h, k, failed)
      BY <2>2, <3>1, <3>2, Zenon DEF Decode
    <3>4. QED
      BY <1>2, <3>3
  <2>3. CASE ~Decode(d)
    BY <2>1, <2>3 DEF RejectIdentity, IgnoreOther, RejectPath, RejectDuplicate, Reject,
                      LimitsInvariant, TypeInv
  <2>4. QED
    BY <2>2, <2>3
<1>4. QED
  BY <1>1, <1>3 DEF LimitsInvariant, TypeInv, RetainedWithinLimits

(* The second pass stays within the limits.                                *)
LEMMA SecondPassKeeps ==
  ASSUME LimitsInvariant, NEW x \in ToSet(decoded),
         \/ KeepIdentity(x) \/ SkipRest(x) \/ DropDocument(x) \/ KeepReserved(x) \/ KeepConcept(x)
  PROVE  LimitsInvariant'
<1>1. x.doc \in Documents
  BY DEF LimitsInvariant, TypeInv, Entries, ToSet
<1>2. UNCHANGED waiting /\ decoded' \in Seq(Entries)
  <2>1. Turn2(x) /\ Unchanged2
    BY Zenon DEF KeepIdentity, SkipRest, DropDocument, KeepReserved, KeepConcept, Inspected
  <2>2. QED
    BY <2>1, HeadTailProperties DEF Turn2, Unchanged2, LimitsInvariant, TypeInv
<1>3. Bounded(used)
  BY DEF LimitsInvariant, TypeInv, RetainedWithinLimits, Bounded
<1>4. Bounded(used')
  <2>1. CASE DropDocument(x)
    <3>1. PICK i \in DOMAIN Checks(x) :
            Checks(x)[i].fails /\ Passes(x, i - 1) /\ used' = Checks(x)[i].charged
      BY <2>1, Zenon DEF DropDocument
    <3>2. QED
      BY <1>1, <1>3, <3>1, DroppedIsBounded, Zenon
  <2>2. CASE KeepReserved(x)
    BY <1>1, <1>3, <2>2, KeptIsBounded, Zenon DEF KeepReserved
  <2>3. CASE KeepConcept(x)
    BY <1>1, <1>3, <2>3, KeptIsBounded, Zenon DEF KeepConcept
  <2>4. CASE KeepIdentity(x) \/ SkipRest(x)
    BY <1>3, <2>4 DEF KeepIdentity, SkipRest
  <2>5. QED
    BY <2>1, <2>2, <2>3, <2>4
<1>5. /\ IsFiniteSet(types') /\ Cardinality(types') <= Limit["types"]
      /\ IsFiniteSet(tags') /\ Cardinality(tags') <= Limit["tags"]
  <2>1. IsFiniteSet(types) /\ IsFiniteSet(tags)
    BY DEF LimitsInvariant, TypeInv
  <2>2. CASE KeepConcept(x)
    BY <1>1, <2>1, <2>2, ConceptFits, Zenon DEF KeepConcept
  <2>3. CASE ~KeepConcept(x)
    BY <2>1, <2>3 DEF LimitsInvariant, RetainedWithinLimits, KeepIdentity, SkipRest, DropDocument,
                      KeepReserved
  <2>4. QED
    BY <2>2, <2>3
<1>6. QED
  BY <1>2, <1>4, <1>5 DEF LimitsInvariant, TypeInv, RetainedWithinLimits, Bounded

(* A bundle never retains more than its limits.                            *)
THEOREM BundleStaysWithinLimits == Spec => []RetainedWithinLimits
<1>1. LimitsInvariant /\ [Next]_vars => LimitsInvariant'
  <2> SUFFICES ASSUME LimitsInvariant, [Next]_vars PROVE LimitsInvariant'
    OBVIOUS
  <2>1. CASE FirstPass
    BY <2>1, FirstPassKeeps
  <2>2. CASE SecondPass
    BY <2>2, SecondPassKeeps, Zenon DEF SecondPass
  <2>3. CASE \/ RefuseBundle \/ AcceptBundle \/ BeginInspection \/ Finish \/ UNCHANGED vars
    BY <2>3 DEF RefuseBundle, AcceptBundle, BeginInspection, Finish, vars, LimitsInvariant, TypeInv,
                RetainedWithinLimits
  <2>4. QED
    BY <2>1, <2>2, <2>3 DEF Next
<1>2. LimitsInvariant => RetainedWithinLimits
  BY DEF LimitsInvariant
<1>3. QED
  BY InitialLimits, <1>1, <1>2, PTL DEF Spec

-----------------------------------------------------------------------------
(* What the bundle reports, and where its links lead.                      *)

(* A failure is reported for a document: under its URI, and with its path.  *)
Reported(d) == \E f \in failures : f.uri = d.uri

ReportedAt(d, path) == \E f \in failures : f.uri = d.uri /\ f.path = path

(* The documents of a bundle are told apart by their URIs and ranks, and   *)
(* nothing is reported of one that waits.                                  *)
InputInv ==
  /\ phase \in {"start", "identify", "inspect", "parsed"}
  /\ input \subseteq Documents /\ waiting \subseteq input
  /\ \A d, e \in input : d # e => d.uri # e.uri /\ d.rank # e.rank
  /\ \A d \in waiting : ~Reported(d)
  /\ phase = "start" => failures = {}
  /\ phase \in {"start", "identify"} => concepts = {} /\ reserved = {} /\ ~full
  /\ phase = "start" => decoded = <<>> /\ paths = {}
  /\ phase # "parsed" => \A f \in failures : f.scope = "bundle" => full
  /\ full \in BOOLEAN

(* What is decoded follows the order of ranks, after what is kept and      *)
(* before what waits; of it a failure is reported exactly if no more than  *)
(* its identity is known.                                                  *)
EntryInv(x) ==
  /\ x \in Entries /\ x.doc \in input \ waiting /\ x.path = PathOf(x.doc)
  /\ \A d \in waiting : x.doc.rank < d.rank
  /\ x.known => ReportedAt(x.doc, x.path)
  /\ ~x.known => ~Reported(x.doc) /\ x.hash # "unparsed"
  /\ \A c \in concepts : c.doc.rank < x.doc.rank
  /\ \A r \in reserved : r.doc.rank < x.doc.rank

DecodedInv ==
  /\ decoded \in Seq(Entries)
  /\ \A i \in 1..Len(decoded) : EntryInv(decoded[i])
  /\ \A i, j \in 1..Len(decoded) : i < j => decoded[i].doc.rank < decoded[j].doc.rank

(* What is kept: a concept is empty exactly if a failure explains it.      *)
Explained(c) ==
  /\ c = [id |-> c.id, path |-> c.path, hash |-> c.hash, partial |-> c.partial, doc |-> c.doc,
          links |-> c.links]
  /\ c.partial \in BOOLEAN
  /\ c.partial => ReportedAt(c.doc, c.path)
  /\ ~c.partial => ~Reported(c.doc) /\ c.hash # "unparsed"

KeptInv ==
  /\ \A c \in concepts : c.doc \in input \ waiting /\ Explained(c)
  /\ \A r \in reserved : r.doc \in input \ waiting /\ ~Reported(r.doc)

ReportInvariant == InputInv /\ DecodedInv /\ KeptInv /\ LimitStops

(* What a provider enumerated is not changed by the parser.                *)
LEMMA InputStays ==
  ASSUME [Next]_vars PROVE UNCHANGED input
BY Zenon DEF Next, vars, RefuseBundle, AcceptBundle, FirstPass, BeginInspection, SecondPass, Finish,
             RejectIdentity, IgnoreOther, RejectPath, RejectDuplicate, Reject, Decode, Register, Unchanged1,
             KeepIdentity, SkipRest, DropDocument, KeepReserved, KeepConcept, Unchanged2

(* What is reported of a document is not about another one.                *)
LEMMA OthersReported ==
  ASSUME InputInv, NEW d \in input, NEW e \in input, e # d, NEW more,
         \A f \in more : f.uri \in {d.uri, Hidden}, failures' = failures \cup more
  PROVE  /\ Reported(e)' <=> Reported(e)
         /\ \A p : ReportedAt(e, p)' <=> ReportedAt(e, p)
<1>1. e.uri # d.uri /\ e.uri # Hidden
  BY UriAssumption DEF InputInv
<1>2. \A f \in more : f.uri # e.uri
  BY <1>1
<1>3. QED
  BY <1>2 DEF Reported, ReportedAt

(* A document is settled without becoming an entry.                        *)
LEMMA PassedOver ==
  ASSUME ReportInvariant, phase = "identify", NEW d \in waiting, NEW more,
         \A f \in more : f.uri \in {d.uri, Hidden} /\ f.scope # "bundle",
         failures' = failures \cup more, waiting' = waiting \ {d},
         UNCHANGED <<input, decoded, full, concepts, reserved, phase>>
  PROVE  ReportInvariant'
<1>1. d \in input /\ concepts = {} /\ reserved = {} /\ ~full
  BY DEF ReportInvariant, InputInv
<1>2. \A e \in input \ {d} : /\ Reported(e)' <=> Reported(e)
                             /\ \A p : ReportedAt(e, p)' <=> ReportedAt(e, p)
  BY <1>1, OthersReported DEF ReportInvariant
<1>3. \A f \in failures' : f.scope # "bundle"
  BY <1>1 DEF ReportInvariant, InputInv
<1>4. InputInv'
  BY <1>1, <1>2, <1>3 DEF ReportInvariant, InputInv
<1>5. ASSUME NEW x, EntryInv(x) PROVE EntryInv(x)'
  <2>1. x.doc \in input \ {d}
    BY <1>5 DEF EntryInv
  <2>2. /\ Reported(x.doc)' <=> Reported(x.doc)
        /\ ReportedAt(x.doc, x.path)' <=> ReportedAt(x.doc, x.path)
    BY <1>2, <2>1
  <2>3. QED
    BY <1>5, <2>2 DEF EntryInv
<1>6. DecodedInv'
  <2>1. \A i \in 1..Len(decoded) : EntryInv(decoded[i])'
    BY <1>5 DEF ReportInvariant, DecodedInv
  <2>2. QED
    BY <2>1 DEF ReportInvariant, DecodedInv
<1>7. KeptInv' /\ LimitStops'
  BY <1>1, <1>3 DEF KeptInv, LimitStops
<1>8. QED
  BY <1>4, <1>6, <1>7 DEF ReportInvariant

(* The next document becomes an entry, the last one.                       *)
LEMMA Entered ==
  ASSUME ReportInvariant, NEW d \in waiting, Turn(d), NEW more, NEW x,
         x \in Entries, x.doc = d, x.path = PathOf(d), x.known \in BOOLEAN,
         x.known => \E f \in more : f.uri = d.uri /\ f.path = x.path,
         ~x.known => more = {} /\ x.hash # "unparsed",
         \A f \in more : f.uri = d.uri /\ f.scope # "bundle",
         failures' = failures \cup more, waiting' = waiting \ {d}, decoded' = Append(decoded, x),
         UNCHANGED <<input, full, concepts, reserved, phase>>
  PROVE  ReportInvariant'
<1>1. d \in input /\ concepts = {} /\ reserved = {} /\ ~full /\ phase = "identify" /\ ~Reported(d)
  BY DEF ReportInvariant, InputInv, Turn
<1>2. \A e \in input \ {d} : /\ Reported(e)' <=> Reported(e)
                             /\ \A p : ReportedAt(e, p)' <=> ReportedAt(e, p)
  BY <1>1, OthersReported DEF ReportInvariant
<1>3. \A f \in failures' : f.scope # "bundle"
  BY <1>1 DEF ReportInvariant, InputInv
<1>4. InputInv'
  BY <1>1, <1>2, <1>3 DEF ReportInvariant, InputInv
<1>5. ASSUME NEW y, EntryInv(y) PROVE EntryInv(y)' /\ y.doc.rank < d.rank
  <2>1. y.doc \in input \ {d} /\ y.doc.rank < d.rank
    BY <1>5 DEF EntryInv
  <2>2. /\ Reported(y.doc)' <=> Reported(y.doc)
        /\ ReportedAt(y.doc, y.path)' <=> ReportedAt(y.doc, y.path)
    BY <1>2, <2>1
  <2>3. QED
    BY <1>5, <2>1, <2>2 DEF EntryInv
<1>6. EntryInv(x)'
  <2>1. \A e \in waiting' : x.doc.rank < e.rank
    <3>1. \A e \in waiting \ {d} : d.rank <= e.rank /\ d.rank # e.rank /\ d.rank \in Nat /\ e.rank \in Nat
      BY <1>1, DocumentAssumption DEF Turn, ReportInvariant, InputInv
    <3>2. QED
      BY <3>1
  <2>2. x.known => ReportedAt(x.doc, x.path)'
    BY DEF ReportedAt
  <2>3. ~x.known => ~Reported(x.doc)' /\ x.hash # "unparsed"
    BY <1>1 DEF Reported
  <2>4. QED
    BY <1>1, <2>1, <2>2, <2>3 DEF EntryInv
<1>7. DecodedInv'
  <2>1. decoded \in Seq(Entries)
    BY DEF ReportInvariant, DecodedInv
  <2>2. /\ decoded' \in Seq(Entries) /\ Len(decoded') = Len(decoded) + 1
        /\ \A i \in 1..Len(decoded) : decoded'[i] = decoded[i]
        /\ decoded'[Len(decoded) + 1] = x /\ Len(decoded) \in Nat
    BY <2>1, AppendProperties, LenProperties
  <2>3. \A i \in 1..Len(decoded) : EntryInv(decoded[i])' /\ decoded[i].doc.rank < d.rank
    BY <1>5 DEF ReportInvariant, DecodedInv
  <2>4. ASSUME NEW i \in 1..Len(decoded') PROVE EntryInv(decoded[i])' \/ i = Len(decoded) + 1
    BY <2>2, <2>3
  <2>5. QED
    BY <1>6, <2>2, <2>3 DEF ReportInvariant, DecodedInv
<1>8. KeptInv' /\ LimitStops'
  BY <1>1, <1>3 DEF KeptInv, LimitStops
<1>9. QED
  BY <1>4, <1>7, <1>8 DEF ReportInvariant

(* What is known of a document is an entry.                                *)
LEMMA EntryOf ==
  ASSUME NEW d \in Documents, NEW h \in Hashes, NEW k \in BOOLEAN
  PROVE  [doc |-> d, path |-> PathOf(d), hash |-> h, known |-> k] \in Entries
BY DEF Entries

(* The first pass reports a document at most once, and about nothing else. *)
LEMMA FirstPassReports ==
  ASSUME ReportInvariant, FirstPass PROVE ReportInvariant'
<1>1. PICK d \in waiting : \/ RejectIdentity(d) \/ IgnoreOther(d) \/ RejectPath(d)
                           \/ RejectDuplicate(d) \/ Decode(d)
  BY DEF FirstPass
<1>2. Turn(d) /\ phase = "identify" /\ d \in Documents
  BY <1>1 DEF RejectIdentity, IgnoreOther, RejectPath, RejectDuplicate, Decode, Named, Located, Turn,
              ReportInvariant, InputInv
<1>3. ASSUME NEW uri \in {d.uri, Hidden}, NEW path, NEW reason, NEW scope, scope # "bundle",
             Reject(d, uri, path, reason, scope)
      PROVE  ReportInvariant'
  <2> DEFINE more == {Failure(uri, path, reason, scope)}
  <2>1. \A f \in more : f.uri \in {d.uri, Hidden} /\ f.scope # "bundle"
    BY <1>3 DEF Failure
  <2>2. /\ failures' = failures \cup more /\ waiting' = waiting \ {d}
        /\ UNCHANGED <<input, decoded, full, concepts, reserved, phase>>
    BY <1>3 DEF Reject, Unchanged1
  <2> HIDE DEF more
  <2>3. QED
    BY <1>2, <2>1, <2>2, PassedOver
<1>4. CASE RejectIdentity(d)
  BY <1>3, <1>4 DEF RejectIdentity
<1>5. CASE IgnoreOther(d)
  <2>1. failures' = failures \cup {}
    BY <1>5 DEF IgnoreOther
  <2>2. QED
    BY <1>2, <1>5, <2>1, PassedOver DEF IgnoreOther, Unchanged1
<1>6. CASE RejectPath(d)
  BY <1>3, <1>6 DEF RejectPath
<1>7. CASE RejectDuplicate(d)
  BY <1>3, <1>7 DEF RejectDuplicate
<1>8. ASSUME NEW h \in Hashes, NEW reason, NEW scope, scope # "bundle",
             Register(d, h, TRUE, {Failure(d.uri, PathOf(d), reason, scope)})
      PROVE  ReportInvariant'
  <2> DEFINE more == {Failure(d.uri, PathOf(d), reason, scope)}
             x == [doc |-> d, path |-> PathOf(d), hash |-> h, known |-> TRUE]
  <2>1. /\ \A f \in more : f.uri = d.uri /\ f.scope # "bundle"
        /\ \E f \in more : f.uri = d.uri /\ f.path = PathOf(d)
    BY <1>8 DEF Failure
  <2>2. /\ failures' = failures \cup more /\ waiting' = waiting \ {d}
        /\ UNCHANGED <<input, full, concepts, reserved, phase>>
        /\ UNCHANGED decoded \/ decoded' = Append(decoded, x)
    BY <1>8 DEF Register, Unchanged1
  <2>3. x.doc = d /\ x.path = PathOf(d) /\ x.known = TRUE
    OBVIOUS
  <2>7. x \in Entries
    BY <1>2, EntryOf
  <2> HIDE DEF more, x
  <2>4. CASE UNCHANGED decoded
    BY <1>2, <2>1, <2>2, <2>4, PassedOver
  <2>5. CASE decoded' = Append(decoded, x)
    BY <1>2, <2>1, <2>2, <2>3, <2>5, <2>7, Entered
  <2>6. QED
    BY <2>2, <2>4, <2>5
<1>9. ASSUME NEW h \in Hashes, h # "unparsed", Register(d, h, FALSE, {})
      PROVE  ReportInvariant'
  <2> DEFINE x == [doc |-> d, path |-> PathOf(d), hash |-> h, known |-> FALSE]
  <2>1. /\ failures' = failures \cup {} /\ waiting' = waiting \ {d}
        /\ UNCHANGED <<input, full, concepts, reserved, phase>>
        /\ decoded' = Append(decoded, x)
    BY <1>9 DEF Register, Unchanged1
  <2>2. /\ x.doc = d /\ x.path = PathOf(d) /\ x.known \in BOOLEAN /\ ~x.known /\ x.hash # "unparsed"
        /\ \A f \in {} : f.uri = d.uri /\ f.scope # "bundle"
    BY <1>9
  <2>3. x \in Entries
    BY <1>2, EntryOf
  <2> HIDE DEF x
  <2>4. QED
    BY <1>2, <2>1, <2>2, <2>3, Entered
<1>10. CASE Decode(d)
  <2>1. \A hashed : HashOf(d, hashed) \in Hashes
    BY DEF HashOf, Hashes
  <2>2. "unparsed" \in Hashes /\ HashOf(d, TRUE) # "unparsed"
    BY DEF Hashes, HashOf
  <2>3. CASE Register(d, "unparsed", TRUE, {Failure(d.uri, PathOf(d), d.adapter, "document")})
    BY <1>8, <2>2, <2>3
  <2>4. CASE Register(d, "unparsed", TRUE, {Failure(d.uri, PathOf(d), "resourceLimit", "document")})
    BY <1>8, <2>2, <2>4
  <2>5. CASE /\ d.content # "text"
             /\ LET fault == DecodeFault(d.content)
                IN Register(d, HashOf(d, fault.hashed), TRUE,
                            {Failure(d.uri, PathOf(d), fault.reason, fault.scope)})
    <3>1. DecodeFault(d.content).scope \in {"none", "document"}
      BY <1>2, <2>5, DocumentAssumption DEF DecodeFault
    <3>2. QED
      BY <1>8, <2>1, <2>5, <3>1
  <2>6. CASE Register(d, HashOf(d, TRUE), FALSE, {})
    BY <1>9, <2>1, <2>2, <2>6
  <2>7. QED
    BY <1>10, <2>3, <2>4, <2>5, <2>6 DEF Decode
<1>11. QED
  BY <1>1, <1>4, <1>5, <1>6, <1>7, <1>10

(* One step of the second pass: the first entry is settled, what is        *)
(* reported and kept is of its document.                                   *)
LEMMA Settled ==
  ASSUME ReportInvariant, NEW x, Turn2(x), Unchanged2,
         failures \subseteq failures', \A f \in failures' \ failures : f.uri = x.doc.uri,
         \A f \in failures' \ failures : f.scope = "bundle" => full', full => full', full' \in BOOLEAN,
         \A c \in concepts' \ concepts : c.doc = x.doc /\ Explained(c)', concepts \subseteq concepts',
         \A r \in reserved' \ reserved : r.doc = x.doc /\ ~Reported(x.doc)', reserved \subseteq reserved'
  PROVE  InputInv' /\ DecodedInv' /\ KeptInv'
<1>1. /\ decoded \in Seq(Entries) /\ decoded # <<>> /\ x = Head(decoded) /\ decoded' = Tail(decoded)
      /\ phase = "inspect" /\ UNCHANGED <<input, waiting, phase>>
  BY DEF ReportInvariant, DecodedInv, Turn2, Unchanged2
<1>2. /\ decoded' \in Seq(Entries) /\ Len(decoded) \in Nat /\ Len(decoded) > 0
      /\ Len(decoded') = Len(decoded) - 1
      /\ \A i \in 1..Len(decoded') : decoded'[i] = decoded[i + 1]
      /\ x = decoded[1]
  BY <1>1, HeadTailProperties, LenProperties, EmptySeq
<1>3. EntryInv(x) /\ x.doc \in input \ waiting
  BY <1>2 DEF ReportInvariant, DecodedInv, EntryInv
<1>4. \A e \in input \ {x.doc} : /\ Reported(e)' <=> Reported(e)
                                 /\ \A p : ReportedAt(e, p)' <=> ReportedAt(e, p)
  <2>1. failures' = failures \cup (failures' \ failures)
    OBVIOUS
  <2>2. \A f \in failures' \ failures : f.uri \in {x.doc.uri, Hidden}
    OBVIOUS
  <2>3. QED
    BY <1>3, <2>1, <2>2, OthersReported DEF ReportInvariant
<1>5. InputInv'
  BY <1>1, <1>3, <1>4 DEF ReportInvariant, InputInv
<1>6. ASSUME NEW y, EntryInv(y), x.doc.rank < y.doc.rank PROVE EntryInv(y)'
  <2>1. y.doc \in input \ {x.doc}
    <3>1. x.doc.rank \in Nat /\ y.doc \in input
      BY <1>3, <1>6, DocumentAssumption DEF ReportInvariant, InputInv, EntryInv
    <3>2. QED
      BY <1>6, <3>1
  <2>2. /\ Reported(y.doc)' <=> Reported(y.doc)
        /\ ReportedAt(y.doc, y.path)' <=> ReportedAt(y.doc, y.path)
    BY <1>4, <2>1
  <2>3. /\ \A c \in concepts' : c.doc.rank < y.doc.rank
        /\ \A r \in reserved' : r.doc.rank < y.doc.rank
    BY <1>6 DEF EntryInv
  <2>4. QED
    BY <1>1, <1>6, <2>2, <2>3 DEF EntryInv
<1>7. DecodedInv'
  <2>1. ASSUME NEW i \in 1..Len(decoded') PROVE EntryInv(decoded[i])'
    <3>1. i + 1 \in 1..Len(decoded) /\ 1 \in 1..Len(decoded) /\ 1 < i + 1
      BY <1>2
    <3>2. EntryInv(decoded[i + 1]) /\ x.doc.rank < decoded[i + 1].doc.rank
      BY <1>2, <3>1 DEF ReportInvariant, DecodedInv
    <3>3. \A y : y = decoded[i + 1] => EntryInv(y)'
      BY <1>6, <3>2
    <3>4. decoded'[i] = decoded[i + 1]
      BY <1>2
    <3>5. QED
      BY <3>3, <3>4
  <2>2. ASSUME NEW i \in 1..Len(decoded'), NEW j \in 1..Len(decoded'), i < j
        PROVE  decoded'[i].doc.rank < decoded'[j].doc.rank
    <3>1. i + 1 \in 1..Len(decoded) /\ j + 1 \in 1..Len(decoded) /\ i + 1 < j + 1
      BY <1>2, <2>2
    <3>2. QED
      BY <1>2, <3>1 DEF ReportInvariant, DecodedInv
  <2>3. QED
    BY <1>2, <2>1, <2>2 DEF DecodedInv
<1>8. KeptInv'
  <2>1. ASSUME NEW e \in input, e.rank < x.doc.rank
        PROVE  /\ Reported(e)' <=> Reported(e)
               /\ \A p : ReportedAt(e, p)' <=> ReportedAt(e, p)
    <3>1. x.doc.rank \in Nat
      BY <1>3, DocumentAssumption DEF ReportInvariant, InputInv
    <3>2. e # x.doc
      BY <2>1, <3>1
    <3>3. QED
      BY <1>4, <3>2
  <2>2. ASSUME NEW c \in concepts
        PROVE  c.doc \in input' \ waiting' /\ Explained(c)'
    <3>1. c.doc \in input /\ c.doc.rank < x.doc.rank
      BY <1>3 DEF ReportInvariant, KeptInv, EntryInv
    <3>2. /\ Reported(c.doc)' <=> Reported(c.doc)
          /\ ReportedAt(c.doc, c.path)' <=> ReportedAt(c.doc, c.path)
      BY <2>1, <3>1
    <3>3. QED
      BY <1>1, <3>2 DEF ReportInvariant, KeptInv, Explained
  <2>3. ASSUME NEW r \in reserved PROVE r.doc \in input' \ waiting' /\ ~Reported(r.doc)'
    <3>1. r.doc \in input /\ r.doc.rank < x.doc.rank
      BY <1>3 DEF ReportInvariant, KeptInv, EntryInv
    <3>2. Reported(r.doc)' <=> Reported(r.doc)
      BY <2>1, <3>1
    <3>3. QED
      BY <1>1, <3>2 DEF ReportInvariant, KeptInv
  <2>4. QED
    BY <1>1, <1>3, <2>2, <2>3 DEF KeptInv
<1>9. QED
  BY <1>5, <1>7, <1>8

(* What a document that is not kept whole leaves behind.                   *)
LEMMA PartialIsEmpty ==
  ASSUME NEW x, NEW c \in Partial(x)
  PROVE  /\ c.doc = x.doc /\ c.path = x.path /\ c.id = WithoutMd(x.path) /\ c.links = <<>>
         /\ c.partial = TRUE /\ ~IsReserved(x.path)
         /\ ReportedAt(x.doc, x.path)' => Explained(c)'
<1>1. ~IsReserved(x.path) /\ c = Concept(x, TRUE)
  BY DEF Partial
<1>2. /\ c.doc = x.doc /\ c.path = x.path /\ c.id = WithoutMd(x.path) /\ c.links = <<>>
      /\ c.partial = TRUE
  BY <1>1 DEF Concept
<1>3. c = [id |-> c.id, path |-> c.path, hash |-> c.hash, partial |-> c.partial, doc |-> c.doc,
           links |-> c.links]
  BY <1>1 DEF Concept
<1>4. QED
  BY <1>1, <1>2, <1>3 DEF Explained

(* No aggregate limit is met in a step: what stopped stays stopped.        *)
LEMMA StillStopped ==
  ASSUME ReportInvariant, phase = "inspect", failures \subseteq failures',
         \A f \in failures' \ failures : f.scope # "bundle",
         full => UNCHANGED reserved /\ \A c \in concepts' \ concepts : c.partial,
         UNCHANGED <<input, full>>
  PROVE  LimitStops'
<1>1. \A f \in failures' : f.scope = "bundle" => f \in failures /\ full
  BY DEF ReportInvariant, InputInv
<1>2. SUFFICES ASSUME NEW f \in failures', f.scope = "bundle", f.uri # Hidden
               PROVE  (/\ full /\ \A g \in failures : g.scope = "bundle" => g = f
                       /\ \A d \in input : d.uri = f.uri =>
                            /\ \A c \in concepts : c.doc.rank >= d.rank => c.partial
                            /\ \A r \in reserved : r.doc.rank < d.rank)'
  BY Zenon DEF LimitStops
<1>3. f \in failures /\ full /\ full'
  BY <1>1, <1>2
<1>4. /\ \A g \in failures : g.scope = "bundle" => g = f
      /\ \A d \in input : d.uri = f.uri =>
           /\ \A c \in concepts : c.doc.rank >= d.rank => c.partial
           /\ \A r \in reserved : r.doc.rank < d.rank
  BY <1>2, <1>3 DEF ReportInvariant, LimitStops
<1>5. \A g \in failures' : g.scope = "bundle" => g = f
  BY <1>1, <1>4
<1>6. QED
  BY <1>3, <1>4, <1>5

(* A document that cannot be kept whole is reported, and leaves an empty   *)
(* concept; if it met an aggregate limit, it is the last one inspected.    *)
LEMMA DroppedIsReported ==
  ASSUME ReportInvariant, NEW x, DropDocument(x) PROVE ReportInvariant'
<1>1. PICK i \in DOMAIN Checks(x) :
        /\ failures' = failures \cup {Failure(x.doc.uri, x.path, Checks(x)[i].reason, Checks(x)[i].scope)}
        /\ full' = (Checks(x)[i].scope = "bundle")
  BY Zenon DEF DropDocument
<1> DEFINE scope == Checks(x)[i].scope
           failure == Failure(x.doc.uri, x.path, Checks(x)[i].reason, scope)
           more == {failure}
<1>2. /\ failure.uri = x.doc.uri /\ failure.path = x.path /\ failure.scope = scope
      /\ failures' = failures \cup more /\ more = {failure} /\ full' = (scope = "bundle")
  BY <1>1 DEF Failure
<1> HIDE DEF failure, more, scope
<1>3. /\ Turn2(x) /\ Unchanged2 /\ ~full /\ concepts' = concepts \cup Partial(x)
      /\ reserved' = reserved \cup {} /\ UNCHANGED <<input, reserved>> /\ phase = "inspect"
  BY DEF DropDocument, Inspected, Turn2, Unchanged2
<1>4. EntryInv(x)
  <2>1. decoded \in Seq(Entries) /\ decoded # <<>> /\ x = decoded[1] /\ 1 \in 1..Len(decoded)
    BY <1>3, HeadTailProperties, LenProperties, EmptySeq DEF Turn2, ReportInvariant, DecodedInv
  <2>2. QED
    BY <2>1 DEF ReportInvariant, DecodedInv
<1>5. ReportedAt(x.doc, x.path)'
  BY <1>2 DEF ReportedAt
<1>6. InputInv' /\ DecodedInv' /\ KeptInv'
  <2>1. \A c \in Partial(x) : c.doc = x.doc /\ Explained(c)'
    BY <1>5, PartialIsEmpty
  <2>2. /\ failures \subseteq failures' /\ \A f \in failures' \ failures : f.uri = x.doc.uri
        /\ \A f \in failures' \ failures : f.scope = "bundle" => full'
        /\ full' \in BOOLEAN /\ (full => full')
    BY <1>2, <1>3
  <2>3. /\ concepts \subseteq concepts' /\ \A c \in concepts' \ concepts : c.doc = x.doc /\ Explained(c)'
        /\ reserved \subseteq reserved' /\ reserved' \ reserved = {}
    BY <1>3, <2>1
  <2>4. QED
    BY <1>3, <2>2, <2>3, Settled
<1>7. LimitStops'
  <2>1. CASE scope # "bundle"
    <3>1. UNCHANGED full
      BY <1>2, <1>3, <2>1 DEF ReportInvariant, InputInv
    <3>2. failures \subseteq failures' /\ \A f \in failures' \ failures : f.scope # "bundle"
      BY <1>2, <2>1
    <3>3. QED
      BY <1>2, <1>3, <3>1, <3>2, StillStopped
  <2>2. CASE scope = "bundle"
    <3>1. \A f \in failures' : f.scope = "bundle" => f = failure
      BY <1>2, <1>3 DEF ReportInvariant, InputInv
    <3>2. ASSUME NEW d \in input', d.uri = failure.uri
          PROVE  /\ \A c \in concepts' : c.doc.rank >= d.rank => c.partial
                 /\ \A r \in reserved' : r.doc.rank < d.rank
      <4>1. d = x.doc /\ d.rank \in Nat
        BY <1>2, <1>3, <1>4, <3>2, DocumentAssumption DEF ReportInvariant, InputInv, EntryInv
      <4>2. \A c \in concepts : c.doc.rank < d.rank /\ c.doc.rank \in Nat
        BY <1>4, <4>1, DocumentAssumption DEF ReportInvariant, InputInv, KeptInv, EntryInv
      <4>3. \A c \in Partial(x) : c.partial
        BY PartialIsEmpty
      <4>4. \A r \in reserved : r.doc.rank < d.rank
        BY <1>4, <4>1 DEF EntryInv
      <4>5. QED
        BY <1>3, <4>1, <4>2, <4>3, <4>4
    <3>3. full'
      BY <1>2, <2>2
    <3>4. QED
      BY <3>1, <3>2, <3>3 DEF LimitStops
  <2>3. QED
    BY <2>1, <2>2
<1>8. QED
  BY <1>6, <1>7 DEF ReportInvariant

(* The second pass reports every document that is not kept whole.          *)
LEMMA SecondPassReports ==
  ASSUME ReportInvariant, NEW x,
         KeepIdentity(x) \/ SkipRest(x) \/ DropDocument(x) \/ KeepReserved(x) \/ KeepConcept(x)
  PROVE  ReportInvariant'
<1>1. Turn2(x) /\ Unchanged2 /\ phase = "inspect" /\ UNCHANGED input
  BY Zenon DEF KeepIdentity, SkipRest, DropDocument, KeepReserved, KeepConcept, Inspected, Turn2, Unchanged2
<1>2. EntryInv(x) /\ full \in BOOLEAN
  <2>1. decoded \in Seq(Entries) /\ decoded # <<>> /\ x = decoded[1] /\ 1 \in 1..Len(decoded)
    BY <1>1, HeadTailProperties, LenProperties, EmptySeq DEF Turn2, ReportInvariant, DecodedInv
  <2>2. QED
    BY <2>1 DEF ReportInvariant, DecodedInv, InputInv
<1>3. /\ ReportedAt(x.doc, x.path) => ReportedAt(x.doc, x.path)'
      /\ Failure(x.doc.uri, x.path, "resourceLimit", "document") \in failures' => ReportedAt(x.doc, x.path)'
  <2>1. failures \subseteq failures'
    BY DEF KeepIdentity, SkipRest, DropDocument, KeepReserved, KeepConcept
  <2>2. QED
    BY <2>1 DEF ReportedAt, Failure
<1>4. ASSUME NEW y, y.doc = x.doc, y.path = x.path, concepts' = concepts \cup Partial(y),
             failures \subseteq failures',
             \A f \in failures' \ failures : f.uri = x.doc.uri /\ f.scope # "bundle",
             ReportedAt(x.doc, x.path)', UNCHANGED full, UNCHANGED reserved
      PROVE  ReportInvariant'
  <2>1. /\ \A c \in concepts' \ concepts : c.doc = x.doc /\ Explained(c)'
        /\ \A c \in concepts' \ concepts : c.partial
        /\ concepts \subseteq concepts'
    BY <1>4, PartialIsEmpty
  <2>2. /\ \A f \in failures' \ failures : f.uri = x.doc.uri
        /\ \A f \in failures' \ failures : f.scope = "bundle" => full'
        /\ full' \in BOOLEAN /\ (full => full') /\ reserved' \ reserved = {}
    BY <1>2, <1>4
  <2>3. InputInv' /\ DecodedInv' /\ KeptInv'
    BY <1>1, <1>4, <2>1, <2>2, Settled
  <2>4. LimitStops'
    BY <1>1, <1>4, <2>1, StillStopped
  <2>5. QED
    BY <2>3, <2>4 DEF ReportInvariant
<1>5. CASE KeepIdentity(x)
  <2>1. x.known /\ UNCHANGED <<failures, full, reserved>> /\ concepts' = concepts \cup Partial(x)
    BY <1>5 DEF KeepIdentity
  <2>2. ReportedAt(x.doc, x.path)'
    BY <1>2, <1>3, <2>1 DEF EntryInv
  <2>3. QED
    BY <1>4, <2>1, <2>2
<1>6. CASE SkipRest(x)
  <2> DEFINE y == [x EXCEPT !.hash = "unparsed"]
             failure == Failure(x.doc.uri, x.path, "resourceLimit", "document")
  <2>1. y.doc = x.doc /\ y.path = x.path
    BY <1>2 DEF EntryInv, Entries
  <2>2. /\ failures' = failures \cup {failure} /\ concepts' = concepts \cup Partial(y)
        /\ UNCHANGED full /\ UNCHANGED reserved
    BY <1>6 DEF SkipRest
  <2>3. failure.uri = x.doc.uri /\ failure.scope # "bundle"
    BY DEF Failure
  <2>4. ReportedAt(x.doc, x.path)'
    BY <1>3, <2>2
  <2> HIDE DEF y, failure
  <2>5. QED
    BY <1>4, <2>1, <2>2, <2>3, <2>4
<1>7. CASE DropDocument(x)
  BY <1>7, DroppedIsReported
<1>8. ASSUME UNCHANGED failures, UNCHANGED full, ~full, ~x.known,
             concepts \subseteq concepts', reserved \subseteq reserved',
             \A r \in reserved' \ reserved : r.doc = x.doc,
             \A c \in concepts' \ concepts : c = Concept(x, FALSE)
      PROVE  ReportInvariant'
  <2>1. /\ ~Reported(x.doc)' /\ x.hash # "unparsed" /\ failures' \ failures = {}
        /\ (full => full') /\ full' \in BOOLEAN
    BY <1>2, <1>8 DEF EntryInv, Reported
  <2>2. ASSUME NEW c \in concepts' \ concepts PROVE c.doc = x.doc /\ Explained(c)'
    <3>1. c.doc = x.doc /\ c.partial = FALSE /\ c.hash = x.hash
      BY <1>8 DEF Concept
    <3>2. c = [id |-> c.id, path |-> c.path, hash |-> c.hash, partial |-> c.partial, doc |-> c.doc,
               links |-> c.links]
      BY <1>8 DEF Concept
    <3>3. QED
      BY <2>1, <3>1, <3>2 DEF Explained
  <2>3. InputInv' /\ DecodedInv' /\ KeptInv'
    BY <1>1, <1>8, <2>1, <2>2, Settled
  <2>4. LimitStops'
    BY <1>1, <1>8, <2>1, StillStopped
  <2>5. QED
    BY <2>3, <2>4 DEF ReportInvariant
<1>9. CASE KeepReserved(x)
  <2> DEFINE r == [path |-> x.path, doc |-> x.doc]
  <2>1. r.doc = x.doc
    OBVIOUS
  <2>2. UNCHANGED failures /\ UNCHANGED full /\ ~full /\ ~x.known /\ UNCHANGED concepts
        /\ reserved' = reserved \cup {r}
    BY <1>9 DEF KeepReserved, Inspected
  <2> HIDE DEF r
  <2>3. QED
    BY <1>8, <2>1, <2>2
<1>10. CASE KeepConcept(x)
  BY <1>8, <1>10 DEF KeepConcept, Inspected
<1>11. QED
  BY <1>5, <1>6, <1>7, <1>9, <1>10

(* Links are resolved at the end: what is kept stays explained.            *)
LEMMA FinishReports ==
  ASSUME ReportInvariant, Finish PROVE ReportInvariant'
<1>1. /\ phase = "inspect" /\ phase' = "parsed" /\ decoded = <<>>
      /\ UNCHANGED <<input, waiting, decoded, failures, full, reserved>>
  BY DEF Finish
<1>2. ASSUME NEW e \in concepts'
      PROVE  \E c \in concepts : /\ e.doc = c.doc /\ e.path = c.path /\ e.id = c.id /\ e.hash = c.hash
                                 /\ e.partial = c.partial
                                 /\ e = [id |-> e.id, path |-> e.path, hash |-> e.hash,
                                         partial |-> e.partial, doc |-> e.doc, links |-> e.links]
  <2>1. PICK c \in concepts : \E l : e = [c EXCEPT !.links = l]
    BY <1>2 DEF Finish
  <2>2. c = [id |-> c.id, path |-> c.path, hash |-> c.hash, partial |-> c.partial, doc |-> c.doc,
             links |-> c.links]
    BY DEF ReportInvariant, KeptInv, Explained
  <2>3. QED
    BY <2>1, <2>2
<1>3. InputInv'
  BY <1>1 DEF ReportInvariant, InputInv, Reported
<1>4. DecodedInv'
  BY <1>1 DEF ReportInvariant, DecodedInv
<1>5. ASSUME NEW e \in concepts' PROVE e.doc \in input' \ waiting' /\ Explained(e)'
  <2>1. PICK c \in concepts : /\ e.doc = c.doc /\ e.path = c.path /\ e.hash = c.hash
                              /\ e.partial = c.partial
                              /\ e = [id |-> e.id, path |-> e.path, hash |-> e.hash,
                                      partial |-> e.partial, doc |-> e.doc, links |-> e.links]
    BY <1>2
  <2>2. c.doc \in input \ waiting /\ Explained(c)
    BY DEF ReportInvariant, KeptInv
  <2>3. Explained(e)
    BY <2>1, <2>2 DEF Explained
  <2>4. QED
    BY <1>1, <2>1, <2>2, <2>3 DEF Explained, Reported, ReportedAt
<1>6. KeptInv'
  BY <1>1, <1>5 DEF ReportInvariant, KeptInv, Reported
<1>7. LimitStops'
  <2>1. ASSUME NEW d \in input, \A c \in concepts : c.doc.rank >= d.rank => c.partial
        PROVE  \A e \in concepts' : e.doc.rank >= d.rank => e.partial
    BY <1>2, <2>1
  <2>2. QED
    BY <1>1, <2>1 DEF ReportInvariant, LimitStops
<1>8. QED
  BY <1>3, <1>4, <1>6, <1>7 DEF ReportInvariant

(* Nothing is reported or kept at the start.                               *)
LEMMA InitialReports == Init => ReportInvariant
<1> SUFFICES ASSUME Init PROVE ReportInvariant
  OBVIOUS
<1>1. input \subseteq Documents
  <2>1. PICK s \in [1..MaxInput -> Documents] : input = ToSet(s)
    BY DEF Init
  <2>2. \A i \in DOMAIN s : s[i] \in Documents
    BY <2>1
  <2>3. QED
    BY <2>1, <2>2, Zenon DEF ToSet
<1>2. InputInv
  BY <1>1 DEF Init, InputInv, Reported
<1>3. DecodedInv
  BY DEF Init, DecodedInv
<1>4. KeptInv /\ LimitStops
  BY DEF Init, KeptInv, LimitStops
<1>5. QED
  BY <1>2, <1>3, <1>4 DEF ReportInvariant

(* A step of the parser keeps the invariant of the reports.                *)
LEMMA StepReports ==
  ASSUME ReportInvariant, [Next]_vars PROVE ReportInvariant'
<1>1. CASE FirstPass
  BY <1>1, FirstPassReports
<1>2. CASE SecondPass
  BY <1>2, SecondPassReports, Zenon DEF SecondPass
<1>3. CASE Finish
  BY <1>3, FinishReports
<1>4. CASE RefuseBundle
  <2>1. /\ phase = "start" /\ phase' = "parsed" /\ \A f \in failures' : f.uri = Hidden
        /\ UNCHANGED <<input, waiting, decoded, full, concepts, reserved>>
    BY <1>4 DEF RefuseBundle, Failure
  <2>2. /\ concepts = {} /\ reserved = {} /\ decoded = <<>>
    BY <2>1 DEF ReportInvariant, InputInv
  <2>3. InputInv'
    BY <2>1, UriAssumption DEF ReportInvariant, InputInv, Reported
  <2>4. DecodedInv'
    BY <2>1, <2>2 DEF DecodedInv
  <2>5. KeptInv' /\ LimitStops'
    BY <2>1, <2>2 DEF KeptInv, LimitStops
  <2>6. QED
    BY <2>3, <2>4, <2>5 DEF ReportInvariant
<1>5. CASE AcceptBundle \/ BeginInspection \/ UNCHANGED vars
  <2>1. /\ UNCHANGED <<input, waiting, decoded, paths, failures, full, concepts, reserved>>
        /\ \/ UNCHANGED phase
           \/ phase = "start" /\ phase' = "identify"
           \/ phase = "identify" /\ phase' = "inspect"
    BY <1>5 DEF AcceptBundle, BeginInspection, vars
  <2>2. InputInv'
    BY <2>1 DEF ReportInvariant, InputInv, Reported
  <2>3. DecodedInv'
    BY <2>1 DEF ReportInvariant, DecodedInv, EntryInv, Reported, ReportedAt
  <2>4. KeptInv' /\ LimitStops'
    BY <2>1 DEF ReportInvariant, KeptInv, LimitStops, Explained, Reported, ReportedAt
  <2>5. QED
    BY <2>2, <2>3, <2>4 DEF ReportInvariant
<1>6. QED
  BY <1>1, <1>2, <1>3, <1>4, <1>5 DEF Next

(* The invariant behind what a bundle reports, for any documents.          *)
THEOREM ReportInvariantHolds == Spec => []ReportInvariant
<1>1. ReportInvariant /\ [Next]_vars => ReportInvariant'
  BY StepReports
<1>2. QED
  BY InitialReports, <1>1, PTL DEF Spec

(* Failures explain what is missing, for any documents and limits: a       *)
(* concept is empty exactly if a failure with its URI and path says so, no *)
(* reserved document has one, and an aggregate limit is reported once, for *)
(* the document that met it, after which nothing is kept.                  *)
THEOREM FailuresAlwaysExplain == Spec => []FailuresExplain
<1>1. ReportInvariant => FailuresExplain
  <2> SUFFICES ASSUME ReportInvariant PROVE PartialExplained
    BY DEF ReportInvariant, FailuresExplain
  <2>1. \A c \in concepts : /\ c.partial <=> ReportedAt(c.doc, c.path)
                            /\ c.hash = "unparsed" => c.partial
    BY DEF ReportInvariant, KeptInv, Explained, Reported, ReportedAt
  <2>2. \A r \in reserved : ~Reported(r.doc)
    BY DEF ReportInvariant, KeptInv
  <2>3. QED
    BY <2>1, <2>2, Zenon DEF PartialExplained, Reported, ReportedAt
<1>2. QED
  BY ReportInvariantHolds, <1>1, PTL

(* No document of the bundle lies where another one has a directory, as in *)
(* any tree of files.  What a provider enumerates could be otherwise; then *)
(* the code calls the link to such a document a link to a directory.       *)
FilesAreNoDirectories ==
  LET markdown == {PathOf(d) : d \in {e \in input : EndsWithMd(e.parts) /\ CanonicalPath(e).fate = "inside"}}
  IN markdown \cap DirectorySet(markdown) \subseteq {<<>>}

(* The paths are those of the documents of the bundle; of those that are   *)
(* not reserved each is that of an entry or of a concept.                  *)
PathInv ==
  /\ \A p \in paths : p # <<>> /\ \E d \in input : /\ p = PathOf(d) /\ EndsWithMd(d.parts)
                                                   /\ CanonicalPath(d).fate = "inside"
  /\ \A x \in ToSet(decoded) : x.path \in paths /\ (x.known => ~IsReserved(x.path))
  /\ \A c \in concepts : c.path \in paths /\ ~IsReserved(c.path) /\ c.id = WithoutMd(c.path)
  /\ \A p \in paths : \/ IsReserved(p)
                      \/ \E c \in concepts : c.path = p
                      \/ \E x \in ToSet(decoded) : x.path = p

(* Links are resolved by the last step, against all paths.                 *)
LinkInv ==
  \A c \in concepts :
    \/ c.links = <<>>
    \/ /\ phase = "parsed"
       /\ c.links = [i \in DOMAIN c.doc.links |-> ResolveLink(c.path, c.doc.links[i])]

LinkInvariant ==
  /\ ReportInvariant /\ PathInv /\ LinkInv
  /\ phase = "parsed" => decoded = <<>>

(* The entries after one is added, and after the first one is taken.       *)
LEMMA EntriesChange ==
  ASSUME NEW s \in Seq(Entries)
  PROVE  /\ \A x \in Entries : ToSet(Append(s, x)) = ToSet(s) \cup {x}
         /\ s # <<>> => /\ Head(s) \in Entries
                        /\ ToSet(s) = ToSet(Tail(s)) \cup {Head(s)}
<1>1. Len(s) \in Nat /\ DOMAIN s = 1..Len(s)
  BY LenProperties
<1>2. ASSUME NEW x \in Entries PROVE ToSet(Append(s, x)) = ToSet(s) \cup {x}
  <2>1. /\ DOMAIN Append(s, x) = 1 .. Len(s) + 1
        /\ \A i \in 1..Len(s) : Append(s, x)[i] = s[i]
        /\ Append(s, x)[Len(s) + 1] = x
    BY AppendProperties
  <2>2. ToSet(Append(s, x)) \subseteq ToSet(s) \cup {x}
    BY <1>1, <2>1 DEF ToSet
  <2>3. ToSet(s) \cup {x} \subseteq ToSet(Append(s, x))
    <3>1. ASSUME NEW i \in 1..Len(s) PROVE s[i] \in ToSet(Append(s, x))
      <4>1. i \in 1 .. Len(s) + 1 /\ Append(s, x)[i] = s[i]
        BY <1>1, <2>1
      <4>2. QED
        BY <2>1, <4>1 DEF ToSet
    <3>2. x \in ToSet(Append(s, x))
      <4>1. Len(s) + 1 \in 1 .. Len(s) + 1
        BY <1>1
      <4>2. QED
        BY <2>1, <4>1 DEF ToSet
    <3>3. QED
      BY <1>1, <3>1, <3>2 DEF ToSet
  <2>4. QED
    BY <2>2, <2>3
<1>3. ASSUME s # <<>>
      PROVE  Head(s) \in Entries /\ ToSet(s) = ToSet(Tail(s)) \cup {Head(s)}
  <2>1. /\ Head(s) = s[1] /\ Len(s) > 0 /\ Head(s) \in Entries
        /\ DOMAIN Tail(s) = 1 .. Len(s) - 1
        /\ \A i \in 1 .. Len(s) - 1 : Tail(s)[i] = s[i + 1]
    BY <1>1, <1>3, HeadTailProperties, EmptySeq, LenProperties
  <2>2. ToSet(Tail(s)) \cup {Head(s)} \subseteq ToSet(s)
    BY <1>1, <2>1 DEF ToSet
  <2>3. ToSet(s) \subseteq ToSet(Tail(s)) \cup {Head(s)}
    <3>1. ASSUME NEW i \in 1..Len(s) PROVE s[i] \in ToSet(Tail(s)) \cup {Head(s)}
      <4>1. CASE i = 1
        BY <2>1, <4>1
      <4>2. CASE i # 1
        <5>1. i - 1 \in 1 .. Len(s) - 1 /\ Tail(s)[i - 1] = s[i]
          BY <1>1, <2>1, <4>2
        <5>2. QED
          BY <2>1, <5>1 DEF ToSet
      <4>3. QED
        BY <4>1, <4>2
    <3>2. QED
      BY <1>1, <3>1 DEF ToSet
  <2>4. QED
    BY <2>1, <2>2, <2>3
<1>4. QED
  BY <1>2, <1>3

(* What a link becomes.                                                    *)
LEMMA Resolved ==
  ASSUME NEW path, NEW target, NEW place, place = NormalizeLinkPath(path, target),
         NEW link, link = ResolveLink(path, target)
  PROVE  /\ link.class = "broken" => place.path \notin paths
         /\ link.class = "internal" =>
              place.path \in paths /\ ~IsReserved(place.path) /\ link.target = WithoutMd(place.path)
         /\ target.form = "path" /\ place.fate = "inside" /\ place.path \in paths \ DirectorySet(paths)
              /\ ~IsReserved(place.path) => link.class = "internal"
<1>1. link =
        CASE target.form \in {"external", "fragment"} -> [class |-> target.form, target |-> NoTarget]
          [] target.form \notin {"external", "fragment", "path"} -> [class |-> "invalid", target |-> NoTarget]
          [] target.form = "path" ->
             IF place.fate = "outside" THEN [class |-> "outOfBundle", target |-> NoTarget]
             ELSE IF place.path \in DirectorySet(paths) THEN [class |-> "directory", target |-> NoTarget]
             ELSE IF place.path \in paths /\ ~IsReserved(place.path)
               THEN [class |-> "internal", target |-> WithoutMd(place.path)]
             ELSE IF place.path \in paths
               THEN [class |-> IF Last(place.path)[1] = "index" THEN "directory" ELSE "invalid", target |-> NoTarget]
             ELSE IF EndsWithMd(place.path) \/ Last(target.parts) = Blank THEN [class |-> "broken", target |-> NoTarget]
             ELSE [class |-> "invalid", target |-> NoTarget]
  BY DEF ResolveLink
<1>2. CASE target.form \in {"external", "fragment"}
  <2>1. link.class = target.form
    BY <1>1, <1>2
  <2>2. QED
    BY <1>2, <2>1
<1>3. CASE target.form \notin {"external", "fragment", "path"}
  <2>1. link.class = "invalid"
    BY <1>1, <1>3
  <2>2. QED
    BY <1>3, <2>1
<1>4. CASE target.form = "path"
  <2>1. link.class = "broken" => place.path \notin paths
    BY <1>1, <1>4
  <2>2. link.class = "internal" =>
          place.path \in paths /\ ~IsReserved(place.path) /\ link.target = WithoutMd(place.path)
    BY <1>1, <1>4
  <2>3. place.fate = "inside" /\ place.path \in paths \ DirectorySet(paths) /\ ~IsReserved(place.path)
          => link.class = "internal"
    BY <1>1, <1>4
  <2>4. QED
    BY <2>1, <2>2, <2>3
<1>5. QED
  BY <1>2, <1>3, <1>4

(* Paths are added with their document, which has no directory there.      *)
LEMMA FirstPassLinks ==
  ASSUME LinkInvariant, FirstPass PROVE PathInv' /\ LinkInv' /\ phase' # "parsed"
<1>1. phase = "identify" /\ UNCHANGED <<input, concepts, phase>> /\ concepts = {}
  <2>1. phase = "identify" /\ UNCHANGED <<input, concepts, phase>>
    <3>1. PICK d \in waiting : \/ RejectIdentity(d) \/ IgnoreOther(d) \/ RejectPath(d)
                               \/ RejectDuplicate(d) \/ Decode(d)
      BY Zenon DEF FirstPass
    <3>2. Turn(d)
      BY <3>1, Zenon DEF RejectIdentity, IgnoreOther, RejectPath, RejectDuplicate, Decode, Named, Located
    <3>3. Unchanged1
      BY <3>1, Zenon DEF RejectIdentity, IgnoreOther, RejectPath, RejectDuplicate, Decode, Reject, Register
    <3>4. QED
      BY <3>2, <3>3, Zenon DEF Turn, Unchanged1
  <2>2. QED
    BY <2>1 DEF LinkInvariant, ReportInvariant, InputInv
<1>2. LinkInv'
  BY <1>1 DEF LinkInv
<1>3. decoded \in Seq(Entries) /\ waiting \subseteq Documents
  BY DEF LinkInvariant, ReportInvariant, DecodedInv, InputInv
<1>4. ASSUME UNCHANGED <<decoded, paths>> PROVE PathInv'
  <2>1. ToSet(decoded') = ToSet(decoded) /\ paths' = paths
    BY <1>4
  <2>2. PathInv
    BY DEF LinkInvariant
  <2>3. \A p \in paths' : \/ IsReserved(p)
                          \/ \E c \in concepts' : c.path = p
                          \/ \E x \in ToSet(decoded') : x.path = p
    BY <1>1, <2>1, <2>2 DEF PathInv
  <2>4. /\ \A p \in paths' : p # <<>> /\ \E d \in input' : /\ p = PathOf(d) /\ EndsWithMd(d.parts)
                                                         /\ CanonicalPath(d).fate = "inside"
        /\ \A x \in ToSet(decoded') : x.path \in paths' /\ (x.known => ~IsReserved(x.path))
        /\ \A c \in concepts' : c.path \in paths' /\ ~IsReserved(c.path) /\ c.id = WithoutMd(c.path)
    BY <1>1, <2>1, <2>2 DEF PathInv
  <2>5. QED
    BY <2>3, <2>4 DEF PathInv
<1>5. ASSUME NEW d \in waiting, Located(d), NEW h \in Hashes, NEW k \in BOOLEAN, NEW failed, Register(d, h, k, failed)
      PROVE  PathInv'
  <2> DEFINE x == [doc |-> d, path |-> PathOf(d), hash |-> h, known |-> k]
  <2>1. x \in Entries /\ x.path = PathOf(d) /\ x.known = k
    BY <1>3, <1>5, EntryOf
  <2>2. /\ PathOf(d) # <<>> /\ EndsWithMd(d.parts) /\ CanonicalPath(d).fate = "inside" /\ d \in input
    BY <1>5 DEF Located, Named, LinkInvariant, ReportInvariant, InputInv
  <2>3. CASE UNCHANGED <<decoded, paths>>
    BY <1>4, <2>3
  <2>4. CASE /\ decoded' = Append(decoded, x) /\ paths' = paths \cup {PathOf(d)}
             /\ k => ~IsReserved(PathOf(d))
    <3>1. ToSet(decoded') = ToSet(decoded) \cup {x}
      BY <1>3, <2>1, <2>4, EntriesChange
    <3> HIDE DEF x
    <3>2. QED
      BY <1>1, <2>1, <2>2, <2>4, <3>1 DEF LinkInvariant, PathInv
  <2>5. QED
    BY <1>5, <2>3, <2>4 DEF Register
<1>6. PathInv'
  <2>1. PICK d \in waiting : \/ RejectIdentity(d) \/ IgnoreOther(d) \/ RejectPath(d)
                             \/ RejectDuplicate(d) \/ Decode(d)
    BY DEF FirstPass
  <2>2. CASE Decode(d)
    <3>1. \A hashed : HashOf(d, hashed) \in Hashes
      BY DEF HashOf, Hashes
    <3>2. "unparsed" \in Hashes /\ TRUE \in BOOLEAN /\ FALSE \in BOOLEAN
      BY DEF Hashes
    <3>3. \E h \in Hashes, k \in BOOLEAN : \E failed : Register(d, h, k, failed)
      BY <2>2, <3>1, <3>2, Zenon DEF Decode
    <3>4. Located(d)
      BY <2>2, Zenon DEF Decode
    <3>5. QED
      BY <1>5, <3>3, <3>4
  <2>3. CASE ~Decode(d)
    BY <1>4, <2>1, <2>3 DEF RejectIdentity, IgnoreOther, RejectPath, RejectDuplicate, Reject
  <2>4. QED
    BY <2>2, <2>3
<1>7. QED
  BY <1>1, <1>2, <1>6

(* An entry that is not reserved becomes a concept.                        *)
LEMMA SecondPassLinks ==
  ASSUME LinkInvariant, NEW x,
         KeepIdentity(x) \/ SkipRest(x) \/ DropDocument(x) \/ KeepReserved(x) \/ KeepConcept(x)
  PROVE  PathInv' /\ LinkInv' /\ phase' # "parsed"
<1>1. Turn2(x) /\ UNCHANGED <<input, paths, phase>> /\ phase = "inspect"
  BY Zenon DEF KeepIdentity, SkipRest, DropDocument, KeepReserved, KeepConcept, Inspected, Turn2, Unchanged2
<1>2. x \in Entries /\ x \in ToSet(decoded) /\ ToSet(decoded) = ToSet(decoded') \cup {x}
  BY <1>1, EntriesChange DEF Turn2, LinkInvariant, ReportInvariant, DecodedInv
<1>3. /\ x.path \in paths
      /\ x.known => ~IsReserved(x.path)
  BY <1>2 DEF LinkInvariant, PathInv
<1> DEFINE Kept == /\ concepts \subseteq concepts'
                   /\ \A c \in concepts' \ concepts : /\ c.path = x.path /\ c.id = WithoutMd(x.path)
                                                      /\ c.links = <<>> /\ ~IsReserved(x.path)
                   /\ IsReserved(x.path) \/ \E c \in concepts' : c.path = x.path
<1>4. Kept
  <2>1. ASSUME NEW y, y.path = x.path, concepts' = concepts \cup Partial(y)
        PROVE  Kept
    <3>1. IsReserved(x.path) \/ \E c \in concepts' : c.path = x.path
      <4>1. IsReserved(x.path) \/ Concept(y, TRUE) \in concepts'
        BY <2>1 DEF Partial
      <4>2. Concept(y, TRUE).path = x.path
        BY <2>1 DEF Concept
      <4>3. QED
        BY <4>1, <4>2
    <3>2. \A c \in Partial(y) : /\ c.path = x.path /\ c.id = WithoutMd(x.path)
                                /\ c.links = <<>> /\ ~IsReserved(x.path)
      BY <2>1, PartialIsEmpty
    <3>3. QED
      BY <2>1, <3>1, <3>2
  <2>2. CASE KeepIdentity(x) \/ DropDocument(x)
    BY <2>1, <2>2 DEF KeepIdentity, DropDocument
  <2>3. CASE SkipRest(x)
    <3>1. [x EXCEPT !.hash = "unparsed"].path = x.path
      BY <1>2 DEF Entries
    <3>2. QED
      BY <2>1, <2>3, <3>1 DEF SkipRest
  <2>4. CASE KeepReserved(x)
    BY <2>4 DEF KeepReserved
  <2>5. CASE KeepConcept(x)
    <3> DEFINE c == Concept(x, FALSE)
    <3>1. c.path = x.path /\ c.id = WithoutMd(x.path) /\ c.links = <<>>
      BY DEF Concept
    <3>2. concepts' = concepts \cup {c} /\ ~IsReserved(x.path)
      BY <2>5 DEF KeepConcept
    <3> HIDE DEF c
    <3>3. QED
      BY <3>1, <3>2
  <2>6. QED
    BY <2>2, <2>3, <2>4, <2>5
<1>5. PathInv'
  BY <1>1, <1>2, <1>3, <1>4 DEF LinkInvariant, PathInv
<1> HIDE DEF Kept
<1>6. LinkInv'
  BY <1>1, <1>4 DEF LinkInvariant, LinkInv, Kept
<1>7. QED
  BY <1>1, <1>5, <1>6

(* Links resolve alike as long as the paths are the same.                  *)
LEMMA ResolvedAlike ==
  ASSUME UNCHANGED paths
  PROVE  \A path, target : ResolveLink(path, target)' = ResolveLink(path, target)
<1>1. DirectorySet(paths)' = DirectorySet(paths)
  BY DEF DirectorySet
<1>2. QED
  BY <1>1 DEF ResolveLink

(* At the end every link is resolved.                                      *)
LEMMA FinishLinks ==
  ASSUME LinkInvariant, Finish PROVE PathInv' /\ LinkInv' /\ decoded' = <<>>
<1>1. /\ decoded = <<>> /\ phase' = "parsed" /\ UNCHANGED <<input, paths, decoded>>
      /\ concepts' = {[c EXCEPT !.links = IF c.partial THEN <<>>
                                          ELSE [i \in DOMAIN c.doc.links |-> ResolveLink(c.path, c.doc.links[i])]]
                        : c \in concepts}
  BY DEF Finish
<1>2. \A path, target : ResolveLink(path, target)' = ResolveLink(path, target)
  BY <1>1, ResolvedAlike
<1>3. ASSUME NEW c \in concepts, NEW l
      PROVE  LET e == [c EXCEPT !.links = l]
             IN e.path = c.path /\ e.id = c.id /\ e.doc = c.doc /\ e.links = l
  <2>1. c = [id |-> c.id, path |-> c.path, hash |-> c.hash, partial |-> c.partial, doc |-> c.doc,
             links |-> c.links]
    BY DEF LinkInvariant, ReportInvariant, KeptInv, Explained
  <2>2. QED
    BY <2>1
<1>4. \A e \in concepts' : \E c \in concepts : /\ e.path = c.path /\ e.id = c.id /\ e.doc = c.doc
                                               /\ \/ e.links = <<>>
                                                  \/ e.links = [i \in DOMAIN c.doc.links |->
                                                                  ResolveLink(c.path, c.doc.links[i])]
  <2>1. ASSUME NEW e \in concepts'
        PROVE  \E c \in concepts : /\ e.path = c.path /\ e.id = c.id /\ e.doc = c.doc
                                   /\ \/ e.links = <<>>
                                      \/ e.links = [i \in DOMAIN c.doc.links |->
                                                      ResolveLink(c.path, c.doc.links[i])]
    <3>1. PICK c \in concepts :
            e = [c EXCEPT !.links = IF c.partial THEN <<>>
                                    ELSE [i \in DOMAIN c.doc.links |-> ResolveLink(c.path, c.doc.links[i])]]
      BY <1>1, <2>1
    <3> DEFINE l == IF c.partial THEN <<>>
                    ELSE [i \in DOMAIN c.doc.links |-> ResolveLink(c.path, c.doc.links[i])]
    <3>2. \/ l = <<>> \/ l = [i \in DOMAIN c.doc.links |-> ResolveLink(c.path, c.doc.links[i])]
      OBVIOUS
    <3>3. e = [c EXCEPT !.links = l]
      BY <3>1
    <3> HIDE DEF l
    <3>4. e.path = c.path /\ e.id = c.id /\ e.doc = c.doc /\ e.links = l
      BY <1>3, <3>3
    <3>5. QED
      BY <3>2, <3>4
  <2>2. QED
    BY <2>1
<1>5. \A c \in concepts : \E e \in concepts' : e.path = c.path
  <2>1. ASSUME NEW c \in concepts PROVE \E e \in concepts' : e.path = c.path
    <3> DEFINE l == IF c.partial THEN <<>>
                    ELSE [i \in DOMAIN c.doc.links |-> ResolveLink(c.path, c.doc.links[i])]
    <3>1. [c EXCEPT !.links = l] \in concepts'
      BY <1>1
    <3> HIDE DEF l
    <3>2. [c EXCEPT !.links = l].path = c.path
      BY <1>3
    <3>3. QED
      BY <3>1, <3>2
  <2>2. QED
    BY <2>1
<1>6. ToSet(decoded') = ToSet(decoded)
  BY <1>1
<1>7. PathInv'
  <2>1. PathInv
    BY DEF LinkInvariant
  <2>2. ASSUME NEW p \in paths'
        PROVE  \/ IsReserved(p)
               \/ \E c \in concepts' : c.path = p
               \/ \E x \in ToSet(decoded') : x.path = p
    <3>1. \/ IsReserved(p)
          \/ \E c \in concepts : c.path = p
          \/ \E x \in ToSet(decoded) : x.path = p
      BY <1>1, <2>1 DEF PathInv
    <3>2. QED
      BY <1>5, <1>6, <3>1
  <2>3. ASSUME NEW e \in concepts'
        PROVE  e.path \in paths' /\ ~IsReserved(e.path) /\ e.id = WithoutMd(e.path)
    <3>1. PICK c \in concepts : e.path = c.path /\ e.id = c.id
      BY <1>4, <2>3
    <3>2. c.path \in paths /\ ~IsReserved(c.path) /\ c.id = WithoutMd(c.path)
      BY <2>1 DEF PathInv
    <3>3. QED
      BY <1>1, <3>1, <3>2
  <2>4. /\ \A p \in paths' : p # <<>> /\ \E d \in input' : /\ p = PathOf(d) /\ EndsWithMd(d.parts)
                                                         /\ CanonicalPath(d).fate = "inside"
        /\ \A x \in ToSet(decoded') : x.path \in paths' /\ (x.known => ~IsReserved(x.path))
    BY <1>1, <1>6, <2>1 DEF PathInv
  <2>5. QED
    BY <2>2, <2>3, <2>4 DEF PathInv
<1>8. LinkInv'
  <2>1. ASSUME NEW e \in concepts', e.links # <<>>
        PROVE  e.links = [i \in DOMAIN e.doc.links |-> ResolveLink(e.path, e.doc.links[i])']
    <3>1. e.links = [i \in DOMAIN e.doc.links |-> ResolveLink(e.path, e.doc.links[i])]
      BY <1>4, <2>1
    <3>2. QED
      BY <1>2, <3>1
  <2>2. QED
    BY <1>1, <2>1 DEF LinkInv
<1>9. QED
  BY <1>1, <1>7, <1>8

(* What a resolved link says, of the paths of the bundle.                  *)
LEMMA LinkSays ==
  ASSUME LinkInvariant, phase = "parsed", NEW c \in concepts, NEW i \in DOMAIN c.links
  PROVE  LET target == c.doc.links[i]
             place == NormalizeLinkPath(c.path, target)
             link == c.links[i]
         IN /\ link.class = "broken" => place.path \notin paths
            /\ link.class = "internal" => \E e \in concepts : e.path = place.path /\ e.id = link.target
            /\ target.form = "path" /\ place.fate = "inside" /\ place.path \in paths \ DirectorySet(paths)
                 /\ ~IsReserved(place.path) => link.class = "internal"
<1> DEFINE target == c.doc.links[i]
           place == NormalizeLinkPath(c.path, target)
           link == c.links[i]
<1>1. link = ResolveLink(c.path, target)
  <2>1. c.links # <<>>
    OBVIOUS
  <2>2. c.links = [j \in DOMAIN c.doc.links |-> ResolveLink(c.path, c.doc.links[j])]
    BY <2>1 DEF LinkInvariant, LinkInv
  <2>3. QED
    BY <2>2
<1>2. /\ \A p \in paths : IsReserved(p) \/ \E e \in concepts : e.path = p
      /\ \A e \in concepts : e.id = WithoutMd(e.path)
  <2>1. ToSet(decoded) = {}
    BY DEF LinkInvariant, ToSet
  <2>2. QED
    BY <2>1 DEF LinkInvariant, PathInv
<1>3. /\ link.class = "broken" => place.path \notin paths
      /\ link.class = "internal" => place.path \in paths /\ ~IsReserved(place.path) /\ link.target = WithoutMd(place.path)
      /\ target.form = "path" /\ place.fate = "inside" /\ place.path \in paths \ DirectorySet(paths)
           /\ ~IsReserved(place.path) => link.class = "internal"
  BY <1>1, Resolved
<1> HIDE DEF target, place, link
<1>4. link.class = "internal" => \E e \in concepts : e.path = place.path /\ e.id = link.target
  BY <1>2, <1>3
<1>5. QED
  BY <1>3, <1>4 DEF target, place, link

(* At the end, what the links of the concepts say is true.                 *)
LEMMA LinksOfWhole ==
  ASSUME LinkInvariant, FilesAreNoDirectories PROVE LinksTruthful
<1>1. SUFFICES ASSUME phase = "parsed", NEW c \in concepts, NEW i \in DOMAIN c.links
               PROVE  LET place == NormalizeLinkPath(c.path, c.doc.links[i])
                          class == c.links[i].class
                      IN /\ class = "broken" => ~\E e \in concepts : e.path = place.path
                         /\ class = "internal" => \E e \in concepts : e.path = place.path /\ e.id = c.links[i].target
                         /\ c.doc.links[i].form = "path" /\ place.fate = "inside" =>
                              \A e \in concepts : e.path = place.path => class = "internal"
  BY DEF LinksTruthful
<1> DEFINE target == c.doc.links[i]
           place == NormalizeLinkPath(c.path, target)
           link == c.links[i]
<1>2. \A e \in concepts : e.path \in paths /\ ~IsReserved(e.path)
  BY DEF LinkInvariant, PathInv
<1>3. paths \cap DirectorySet(paths) = {}
  <2> DEFINE markdown == {PathOf(d) : d \in {e \in input : EndsWithMd(e.parts) /\ CanonicalPath(e).fate = "inside"}}
  <2>1. paths \subseteq markdown /\ <<>> \notin paths
    BY DEF LinkInvariant, PathInv
  <2>2. markdown \cap DirectorySet(markdown) \subseteq {<<>>}
    BY DEF FilesAreNoDirectories
  <2> HIDE DEF markdown
  <2>3. DirectorySet(paths) \subseteq DirectorySet(markdown)
    BY <2>1 DEF DirectorySet
  <2>4. QED
    BY <2>1, <2>2, <2>3
<1>4. /\ link.class = "broken" => place.path \notin paths
      /\ link.class = "internal" => \E e \in concepts : e.path = place.path /\ e.id = link.target
      /\ target.form = "path" /\ place.fate = "inside" /\ place.path \in paths \ DirectorySet(paths)
           /\ ~IsReserved(place.path) => link.class = "internal"
  BY <1>1, LinkSays
<1> HIDE DEF target, place, link
<1>5. link.class = "broken" => ~\E e \in concepts : e.path = place.path
  BY <1>2, <1>4
<1>6. target.form = "path" /\ place.fate = "inside" =>
        \A e \in concepts : e.path = place.path => link.class = "internal"
  BY <1>2, <1>3, <1>4
<1>7. QED
  BY <1>4, <1>5, <1>6 DEF target, place, link

(* A step of the parser keeps what is known of paths and links.            *)
LEMMA StepLinks ==
  ASSUME LinkInvariant, ReportInvariant', [Next]_vars PROVE LinkInvariant'
<1>1. CASE FirstPass
  BY <1>1, FirstPassLinks DEF LinkInvariant
<1>2. CASE SecondPass
  BY <1>2, SecondPassLinks, Zenon DEF SecondPass, LinkInvariant
<1>3. CASE Finish
  BY <1>3, FinishLinks DEF LinkInvariant
<1>4. CASE RefuseBundle \/ AcceptBundle \/ BeginInspection \/ UNCHANGED vars
  <2>1. /\ UNCHANGED <<input, decoded, paths, concepts>>
        /\ UNCHANGED phase \/ concepts = {}
        /\ phase' = "parsed" => decoded = <<>>
    BY <1>4 DEF RefuseBundle, AcceptBundle, BeginInspection, vars, LinkInvariant, ReportInvariant, InputInv
  <2>2. ToSet(decoded') = ToSet(decoded)
    BY <2>1
  <2>3. PathInv'
    BY <2>1, <2>2 DEF LinkInvariant, PathInv
  <2>4. LinkInv'
    <3>1. \A path, target : ResolveLink(path, target)' = ResolveLink(path, target)
      BY <2>1, ResolvedAlike
    <3>2. QED
      BY <2>1, <3>1 DEF LinkInvariant, LinkInv
  <2>5. QED
    BY <2>1, <2>3, <2>4 DEF LinkInvariant
<1>5. QED
  BY <1>1, <1>2, <1>3, <1>4 DEF Next

(* At first there are no paths.                                            *)
LEMMA InitialLinks == Init => LinkInvariant
<1> SUFFICES ASSUME Init PROVE LinkInvariant
  OBVIOUS
<1>1. ReportInvariant
  BY InitialReports
<1>2. ToSet(decoded) = {}
  BY DEF Init, ToSet
<1>3. PathInv /\ LinkInv
  BY <1>2 DEF Init, PathInv, LinkInv
<1>4. QED
  BY <1>1, <1>3 DEF Init, LinkInvariant

(* For any bundle that is a tree of files, a link to a document of it is   *)
(* never called broken, and an internal link leads to one of its concepts, *)
(* also when that document could not be read.                              *)
THEOREM LinksAreTruthful == Spec /\ FilesAreNoDirectories => []LinksTruthful
<1>1. ReportInvariant' /\ LinkInvariant /\ [Next]_vars => LinkInvariant'
  BY StepLinks
<1>2. FilesAreNoDirectories /\ [Next]_vars => FilesAreNoDirectories'
  <2> SUFFICES ASSUME FilesAreNoDirectories, [Next]_vars PROVE FilesAreNoDirectories'
    OBVIOUS
  <2>1. UNCHANGED input
    BY InputStays
  <2>2. QED
    BY <2>1 DEF FilesAreNoDirectories
<1>3. LinkInvariant /\ FilesAreNoDirectories => LinksTruthful
  BY LinksOfWhole
<1>4. QED
  BY ReportInvariantHolds, InitialLinks, <1>1, <1>2, <1>3, PTL DEF Spec

-----------------------------------------------------------------------------
(* What is published.                                                      *)

(* A failure is reported for the document, or for one that is not shown.   *)
Told(d) == \E f \in failures : f.uri \in {d.uri, Hidden}

(* Where a document of the bundle is, at any moment.                       *)
Accounted(d) ==
  \/ d \in waiting
  \/ \E x \in ToSet(decoded) : x.doc = d
  \/ \E c \in concepts : c.doc = d
  \/ \E r \in reserved : r.doc = d
  \/ Told(d)

(* No document gets lost on the way, and a limit that is reached is told.  *)
WholeInv ==
  /\ full => BundleFailed(failures)
  /\ \A d \in input : EndsWithMd(d.parts) => Accounted(d)
  /\ phase = "inspect" => waiting = {}
  /\ phase = "parsed" => decoded = <<>> /\ (waiting = {} \/ \E f \in failures : f.uri = Hidden)

WholeInvariant == ReportInvariant /\ WholeInv

(* A step that keeps what is kept, and accounts for what it takes away.    *)
LEMMA StillAccounted ==
  ASSUME WholeInv, UNCHANGED input, failures \subseteq failures',
         \A c \in concepts : \E e \in concepts' : e.doc = c.doc,
         \A r \in reserved : \E s \in reserved' : s.doc = r.doc,
         \A d \in waiting \ waiting' : EndsWithMd(d.parts) => Accounted(d)',
         \A x \in ToSet(decoded) \ ToSet(decoded') : Accounted(x.doc)'
  PROVE  (\A d \in input : EndsWithMd(d.parts) => Accounted(d))'
<1>1. SUFFICES ASSUME NEW d \in input, EndsWithMd(d.parts) PROVE Accounted(d)'
  OBVIOUS
<1>2. Accounted(d)
  BY <1>1 DEF WholeInv
<1>3. CASE d \in waiting
  <2>1. CASE d \in waiting'
    BY <2>1 DEF Accounted
  <2>2. CASE d \notin waiting'
    BY <1>1, <1>3, <2>2
  <2>3. QED
    BY <2>1, <2>2
<1>4. ASSUME NEW x \in ToSet(decoded), x.doc = d PROVE Accounted(d)'
  <2>1. CASE x \in ToSet(decoded')
    BY <1>4, <2>1 DEF Accounted
  <2>2. CASE x \notin ToSet(decoded')
    BY <1>4, <2>2
  <2>3. QED
    BY <2>1, <2>2
<1>5. CASE Told(d)
  BY <1>5 DEF Accounted, Told
<1>6. CASE (\E c \in concepts : c.doc = d) \/ \E r \in reserved : r.doc = d
  <2>1. (\E c \in concepts' : c.doc = d) \/ \E r \in reserved' : r.doc = d
    BY <1>6
  <2>2. QED
    BY <2>1 DEF Accounted
<1>7. QED
  BY <1>2, <1>3, <1>4, <1>5, <1>6 DEF Accounted

(* The first pass reports what it does not enter.                          *)
LEMMA FirstPassAccounts ==
  ASSUME WholeInvariant, FirstPass PROVE WholeInv'
<1>1. PICK d \in waiting : \/ RejectIdentity(d) \/ IgnoreOther(d) \/ RejectPath(d)
                           \/ RejectDuplicate(d) \/ Decode(d)
  BY DEF FirstPass
<1>2. phase = "identify" /\ decoded \in Seq(Entries) /\ d \in Documents /\ ~full
  BY <1>1 DEF RejectIdentity, IgnoreOther, RejectPath, RejectDuplicate, Decode, Named, Located, Turn,
              WholeInvariant, ReportInvariant, InputInv, DecodedInv
<1> DEFINE Moved == /\ failures \subseteq failures' /\ waiting' = waiting \ {d}
                    /\ UNCHANGED <<input, full, concepts, reserved, phase>>
                    /\ ToSet(decoded) \subseteq ToSet(decoded')
                    /\ EndsWithMd(d.parts) => Accounted(d)'
<1>3. ASSUME NEW uri \in {d.uri, Hidden}, NEW path, NEW reason, NEW scope,
             Reject(d, uri, path, reason, scope)
      PROVE  Moved
  <2>1. Failure(uri, path, reason, scope).uri = uri
    BY DEF Failure
  <2>2. Told(d)'
    BY <1>3, <2>1 DEF Reject, Told
  <2>3. QED
    BY <1>3, <2>2 DEF Reject, Unchanged1, Accounted
<1>4. ASSUME NEW h \in Hashes, NEW k \in BOOLEAN, NEW failed, Register(d, h, k, failed),
             k => \E f \in failed : f.uri = d.uri
      PROVE  Moved
  <2> DEFINE x == [doc |-> d, path |-> PathOf(d), hash |-> h, known |-> k]
  <2>1. x \in Entries /\ x.doc = d
    BY <1>2, EntryOf
  <2>2. /\ failures' = failures \cup failed /\ waiting' = waiting \ {d}
        /\ UNCHANGED <<input, full, concepts, reserved, phase>>
        /\ \/ k /\ UNCHANGED decoded
           \/ decoded' = Append(decoded, x)
    BY <1>4 DEF Register, Unchanged1
  <2> HIDE DEF x
  <2>3. CASE k /\ UNCHANGED decoded
    <3>1. Told(d)'
      BY <1>4, <2>2, <2>3 DEF Told
    <3>2. QED
      BY <2>2, <2>3, <3>1 DEF Accounted
  <2>4. CASE decoded' = Append(decoded, x)
    <3>1. ToSet(decoded') = ToSet(decoded) \cup {x}
      BY <1>2, <2>1, <2>4, EntriesChange
    <3>2. QED
      BY <2>1, <2>2, <3>1 DEF Accounted
  <2>5. QED
    BY <2>2, <2>3, <2>4
<1> HIDE DEF Moved
<1>5. Moved
  <2>1. CASE RejectIdentity(d)
    BY <1>3, <2>1 DEF RejectIdentity
  <2>2. CASE IgnoreOther(d)
    BY <2>2 DEF IgnoreOther, Unchanged1, Moved
  <2>3. CASE RejectPath(d) \/ RejectDuplicate(d)
    BY <1>3, <2>3 DEF RejectPath, RejectDuplicate
  <2>4. CASE Decode(d)
    <3>1. \A hashed : HashOf(d, hashed) \in Hashes
      BY DEF HashOf, Hashes
    <3>2. "unparsed" \in Hashes /\ TRUE \in BOOLEAN /\ FALSE \in BOOLEAN
      BY DEF Hashes
    <3>3. \A path, reason, scope : \E f \in {Failure(d.uri, path, reason, scope)} : f.uri = d.uri
      BY DEF Failure
    <3>4. CASE \E h \in Hashes : Register(d, h, FALSE, {})
      BY <1>4, <3>2, <3>4
    <3>5. CASE \E h \in Hashes : \E path, reason, scope : Register(d, h, TRUE, {Failure(d.uri, path, reason, scope)})
      BY <1>4, <3>2, <3>3, <3>5
    <3>6. QED
      BY <2>4, <3>1, <3>2, <3>4, <3>5, Zenon DEF Decode
  <2>5. QED
    BY <1>1, <2>1, <2>2, <2>3, <2>4
<1>6. (\A e \in input : EndsWithMd(e.parts) => Accounted(e))'
  <2>1. \A e \in waiting \ waiting' : EndsWithMd(e.parts) => Accounted(e)'
    BY <1>5 DEF Moved
  <2>2. QED
    BY <1>5, <2>1, StillAccounted DEF WholeInvariant, Moved
<1>7. QED
  BY <1>2, <1>5, <1>6 DEF WholeInv, Moved

(* The second pass keeps a document or reports it, and reports its limit.  *)
LEMMA SecondPassAccounts ==
  ASSUME WholeInvariant, NEW x,
         KeepIdentity(x) \/ SkipRest(x) \/ DropDocument(x) \/ KeepReserved(x) \/ KeepConcept(x)
  PROVE  WholeInv'
<1>1. Turn2(x) /\ UNCHANGED <<input, waiting, phase>> /\ phase = "inspect"
  BY Zenon DEF KeepIdentity, SkipRest, DropDocument, KeepReserved, KeepConcept, Inspected, Turn2, Unchanged2
<1>2. /\ failures \subseteq failures' /\ concepts \subseteq concepts' /\ reserved \subseteq reserved'
  BY DEF KeepIdentity, SkipRest, DropDocument, KeepReserved, KeepConcept
<1>3. EntryInv(x) /\ ToSet(decoded) = ToSet(decoded') \cup {x}
  <2>1. decoded \in Seq(Entries) /\ decoded # <<>> /\ x = decoded[1] /\ 1 \in 1..Len(decoded)
    BY <1>1, HeadTailProperties, LenProperties, EmptySeq DEF Turn2, WholeInvariant, ReportInvariant, DecodedInv
  <2>2. QED
    BY <1>1, <2>1, EntriesChange DEF Turn2, WholeInvariant, ReportInvariant, DecodedInv
<1>4. Accounted(x.doc)'
  <2>1. ASSUME NEW reason, NEW scope, Failure(x.doc.uri, x.path, reason, scope) \in failures'
        PROVE  Accounted(x.doc)'
    <3>1. Failure(x.doc.uri, x.path, reason, scope).uri = x.doc.uri
      BY DEF Failure
    <3>2. QED
      BY <2>1, <3>1 DEF Accounted, Told
  <2>2. CASE KeepIdentity(x)
    <3>1. ReportedAt(x.doc, x.path)
      BY <1>3, <2>2, Zenon DEF KeepIdentity, EntryInv
    <3>2. Told(x.doc)'
      BY <1>2, <3>1 DEF ReportedAt, Told
    <3>3. QED
      BY <3>2 DEF Accounted
  <2>3. CASE SkipRest(x)
    BY <2>1, <2>3 DEF SkipRest
  <2>4. CASE DropDocument(x)
    <3>1. PICK i \in DOMAIN Checks(x) :
            /\ failures' = failures \cup {Failure(x.doc.uri, x.path, Checks(x)[i].reason, Checks(x)[i].scope)}
            /\ full' = (Checks(x)[i].scope = "bundle")
      BY <2>4, Zenon DEF DropDocument
    <3>2. QED
      BY <2>1, <3>1
  <2>5. CASE KeepReserved(x)
    <3>1. [path |-> x.path, doc |-> x.doc] \in reserved'
      BY <2>5 DEF KeepReserved
    <3>2. QED
      BY <3>1 DEF Accounted
  <2>6. CASE KeepConcept(x)
    <3>1. Concept(x, FALSE).doc = x.doc /\ Concept(x, FALSE) \in concepts'
      BY <2>6 DEF KeepConcept, Concept
    <3>2. QED
      BY <3>1 DEF Accounted
  <2>7. QED
    BY <2>2, <2>3, <2>4, <2>5, <2>6
<1>5. full' => BundleFailed(failures')
  <2>1. CASE DropDocument(x)
    <3>1. PICK i \in DOMAIN Checks(x) :
            /\ failures' = failures \cup {Failure(x.doc.uri, x.path, Checks(x)[i].reason, Checks(x)[i].scope)}
            /\ full' = (Checks(x)[i].scope = "bundle")
      BY <2>1, Zenon DEF DropDocument
    <3> DEFINE check == Checks(x)[i]
               failure == Failure(x.doc.uri, x.path, check.reason, check.scope)
    <3>2. check.scope = "bundle" => check.reason = "resourceLimit"
      BY ChecksInOrder
    <3>3. failure \in failures' /\ failure.reason = check.reason /\ failure.scope = check.scope
      BY <3>1 DEF Failure
    <3> HIDE DEF failure
    <3>4. QED
      BY <3>1, <3>2, <3>3 DEF BundleFailed
  <2>2. CASE ~DropDocument(x)
    <3>1. UNCHANGED full
      BY <2>2 DEF KeepIdentity, SkipRest, KeepReserved, KeepConcept
    <3>2. QED
      BY <1>2, <3>1 DEF WholeInvariant, WholeInv, BundleFailed
  <2>3. QED
    BY <2>1, <2>2
<1>6. (\A d \in input : EndsWithMd(d.parts) => Accounted(d))'
  BY <1>1, <1>2, <1>3, <1>4, StillAccounted DEF WholeInvariant
<1>7. QED
  BY <1>1, <1>5, <1>6 DEF WholeInvariant, WholeInv

(* Whatever the parser does, no document gets lost.                        *)
LEMMA StepAccounts ==
  ASSUME WholeInvariant, [Next]_vars PROVE WholeInvariant'
<1>1. ReportInvariant'
  BY StepReports DEF WholeInvariant
<1>2. ASSUME UNCHANGED <<input, waiting, decoded, failures, full, reserved>>,
             \A c \in concepts : \E e \in concepts' : e.doc = c.doc,
             phase' = "inspect" => waiting = {},
             phase' = "parsed" => decoded = <<>> /\ (waiting = {} \/ \E f \in failures : f.uri = Hidden)
      PROVE  WholeInv'
  <2>1. (\A d \in input : EndsWithMd(d.parts) => Accounted(d))'
    BY <1>2, StillAccounted DEF WholeInvariant
  <2>2. QED
    BY <1>2, <2>1 DEF WholeInvariant, WholeInv, BundleFailed
<1>3. CASE FirstPass
  BY <1>1, <1>3, FirstPassAccounts DEF WholeInvariant
<1>4. CASE SecondPass
  BY <1>1, <1>4, SecondPassAccounts, Zenon DEF SecondPass, WholeInvariant
<1>5. CASE Finish
  <2>1. /\ phase = "inspect" /\ phase' = "parsed" /\ decoded = <<>>
        /\ UNCHANGED <<input, waiting, decoded, failures, full, reserved>>
    BY <1>5 DEF Finish
  <2>2. ASSUME NEW c \in concepts PROVE \E e \in concepts' : e.doc = c.doc
    <3>1. PICK l : [c EXCEPT !.links = l] \in concepts'
      BY <1>5 DEF Finish
    <3>2. c = [id |-> c.id, path |-> c.path, hash |-> c.hash, partial |-> c.partial, doc |-> c.doc,
               links |-> c.links]
      BY DEF WholeInvariant, ReportInvariant, KeptInv, Explained
    <3>3. [c EXCEPT !.links = l].doc = c.doc
      BY <3>2
    <3>4. QED
      BY <3>1, <3>3
  <2>3. WholeInv'
    BY <1>2, <2>1, <2>2 DEF WholeInvariant, WholeInv
  <2>4. QED
    BY <1>1, <2>3 DEF WholeInvariant
<1>6. CASE RefuseBundle
  <2>1. /\ phase = "start" /\ phase' = "parsed" /\ decoded = <<>> /\ failures = {}
        /\ \E f \in failures' : f.uri = Hidden
        /\ UNCHANGED <<input, waiting, decoded, full, concepts, reserved>> /\ ~full
    BY <1>6 DEF RefuseBundle, Failure, WholeInvariant, ReportInvariant, InputInv
  <2>2. (\A d \in input : EndsWithMd(d.parts) => Accounted(d))'
    BY <2>1, StillAccounted DEF WholeInvariant
  <2>3. WholeInv'
    BY <2>1, <2>2 DEF WholeInv
  <2>4. QED
    BY <1>1, <2>3 DEF WholeInvariant
<1>7. CASE AcceptBundle \/ BeginInspection \/ UNCHANGED vars
  <2>1. /\ UNCHANGED <<input, waiting, decoded, failures, full, concepts, reserved>>
        /\ phase' = "inspect" => waiting = {}
        /\ phase' = "parsed" => phase = "parsed"
    BY <1>7 DEF AcceptBundle, BeginInspection, vars, WholeInvariant, WholeInv
  <2>2. WholeInv'
    BY <1>2, <2>1 DEF WholeInvariant, WholeInv
  <2>3. QED
    BY <1>1, <2>2 DEF WholeInvariant
<1>8. QED
  BY <1>3, <1>4, <1>5, <1>6, <1>7 DEF Next

(* What a parsed bundle has, also after failures are added to it.          *)
Complete ==
  /\ full => BundleFailed(failures)
  /\ \A d \in input : EndsWithMd(d.parts) => \/ \E c \in concepts : c.doc = d
                                             \/ \E r \in reserved : r.doc = d
                                             \/ Told(d)
  /\ \A c \in concepts : c.partial => ReportedAt(c.doc, c.path)

(* A graph that is published is the one of the failures there are, and no  *)
(* limit of the bundle is among them.                                      *)
Answered ==
  answer.status \in {"inspected", "graphed"} =>
    answer.graph = BuildGraphPayload(failures) /\ ~BundleFailed(failures)

InspectionInvariant ==
  /\ answer = NoAnswer => WholeInvariant
  /\ answer # NoAnswer => phase = "parsed" /\ Complete /\ Answered

(* A parsed bundle has no documents that are still under way.              *)
LEMMA ParsedIsComplete ==
  ASSUME WholeInvariant, phase = "parsed" PROVE Complete
<1>1. ToSet(decoded) = {}
  <2>1. decoded = <<>>
    BY DEF WholeInvariant, WholeInv
  <2>2. QED
    BY <2>1 DEF ToSet
<1>2. ASSUME NEW d \in input, EndsWithMd(d.parts)
      PROVE  (\E c \in concepts : c.doc = d) \/ (\E r \in reserved : r.doc = d) \/ Told(d)
  <2>1. Accounted(d)
    BY <1>2 DEF WholeInvariant, WholeInv
  <2>2. waiting = {} \/ Told(d)
    BY DEF WholeInvariant, WholeInv, Told
  <2>3. QED
    BY <1>1, <2>1, <2>2 DEF Accounted
<1>3. \A c \in concepts : c.partial => ReportedAt(c.doc, c.path)
  BY Zenon DEF WholeInvariant, ReportInvariant, KeptInv, Explained
<1>4. QED
  BY <1>2, <1>3, Zenon DEF Complete, WholeInvariant, WholeInv

(* The source of an edge is among the backlinks of its target.             *)
LEMMA EdgesLeadBack ==
  ASSUME NEW all, NEW e \in BuildGraphPayload(all).edges
  PROVE  /\ {e.source, e.target} \subseteq Ids
         /\ e.source \in BuildGraphPayload(all).backlinks[e.target]
<1> DEFINE sound == Sound(all)
           edges == Edges(sound)
           backlinks == [id \in Ids |-> {f.source : f \in {x \in edges : x.target = id}}]
<1>1. BuildGraphPayload(all).edges = edges /\ BuildGraphPayload(all).backlinks = backlinks
  BY DEF BuildGraphPayload
<1>2. PICK c \in sound : \E i \in Links(c, "internal") :
        /\ c.links[i].target \in Ids
        /\ e = [source |-> c.id, target |-> c.links[i].target, place |-> <<c.path, i>>]
  BY <1>1 DEF Edges
<1>3. e.source \in Ids /\ e.target \in Ids
  BY <1>2 DEF Ids, Sound
<1>4. e.source \in {f.source : f \in {x \in edges : x.target = e.target}}
  BY <1>1
<1> HIDE DEF edges
<1>5. e.source \in backlinks[e.target]
  BY <1>3, <1>4
<1> HIDE DEF backlinks
<1>6. QED
  BY <1>1, <1>3, <1>5

(* Every concept is a node, which says whether a failure is reported.      *)
LEMMA NodesTellFailures ==
  ASSUME NEW all
  PROVE  LET nodes == BuildGraphPayload(all).nodes
         IN /\ DOMAIN nodes = concepts
            /\ \A c \in concepts : nodes[c].failed = (c \notin Sound(all))
<1> DEFINE nodes == [c \in concepts |-> Node(c, c \notin Sound(all), Edges(Sound(all)), BrokenLinks(Sound(all)))]
<1>1. BuildGraphPayload(all).nodes = nodes
  BY DEF BuildGraphPayload
<1>2. \A c, failed, edges, broken : Node(c, failed, edges, broken).failed = failed
  BY DEF Node
<1>3. \A c \in concepts : nodes[c].failed = (c \notin Sound(all))
  BY <1>2
<1>4. DOMAIN nodes = concepts
  OBVIOUS
<1> HIDE DEF nodes
<1>5. QED
  BY <1>1, <1>3, <1>4

(* The graph of a complete bundle is whole.                                *)
LEMMA CompleteIsWhole ==
  ASSUME Complete, Answered PROVE PublishedGraphWhole
<1>1. SUFFICES ASSUME answer.status \in {"inspected", "graphed"}
               PROVE  LET graph == answer.graph
                      IN /\ ~full
                         /\ \A d \in input : EndsWithMd(d.parts) =>
                              \/ \E c \in DOMAIN graph.nodes : c.doc = d
                              \/ \E r \in reserved : r.doc = d
                              \/ \E f \in failures : f.uri \in {d.uri, Hidden}
                         /\ \A c \in DOMAIN graph.nodes : c.partial => graph.nodes[c].failed
                         /\ \A e \in graph.edges : /\ {e.source, e.target} \subseteq Ids
                                                   /\ e.source \in graph.backlinks[e.target]
  BY DEF PublishedGraphWhole
<1>2. answer.graph = BuildGraphPayload(failures) /\ ~BundleFailed(failures)
  BY <1>1 DEF Answered
<1> DEFINE nodes == answer.graph.nodes
<1>3. DOMAIN nodes = concepts /\ \A c \in concepts : nodes[c].failed = (c \notin Sound(failures))
  BY <1>2, NodesTellFailures
<1>4. ~full
  BY <1>2 DEF Complete
<1>5. \A d \in input : EndsWithMd(d.parts) => \/ \E c \in DOMAIN nodes : c.doc = d
                                              \/ \E r \in reserved : r.doc = d
                                              \/ \E f \in failures : f.uri \in {d.uri, Hidden}
  BY <1>3 DEF Complete, Told
<1>6. ASSUME NEW c \in DOMAIN nodes, c.partial PROVE nodes[c].failed
  <2>1. ReportedAt(c.doc, c.path)
    BY <1>3, <1>6, Zenon DEF Complete
  <2>2. c \notin Sound(failures)
    BY <2>1 DEF ReportedAt, Sound, Failed
  <2>3. QED
    BY <1>3, <1>6, <2>2
<1>7. \A e \in answer.graph.edges : /\ {e.source, e.target} \subseteq Ids
                                    /\ e.source \in answer.graph.backlinks[e.target]
  BY <1>2, EdgesLeadBack
<1>8. QED
  BY <1>4, <1>5, <1>6, <1>7

(* The graph depends on the concepts and the failures alone.               *)
LEMMA GraphAlike ==
  ASSUME UNCHANGED concepts
  PROVE  BuildGraphPayload(failures)' = BuildGraphPayload(failures')
<1>1. Sound(failures)' = Sound(failures')
  BY DEF Sound, Failed
<1>2. Ids' = Ids
  BY DEF Ids
<1>3. \A sound : Edges(sound)' = Edges(sound)
  BY <1>2 DEF Edges
<1>4. QED
  BY <1>1, <1>2, <1>3 DEF BuildGraphPayload

(* What is answered with a graph.                                          *)
LEMMA GraphOfAnswer ==
  ASSUME NEW all, NEW findings, NEW operation,
         Published(all, findings, operation).status \in {"inspected", "graphed"}
  PROVE  /\ Published(all, findings, operation).graph = BuildGraphPayload(all)
         /\ ~BundleFailed(all)
<1>1. ~GraphInputError(all, findings)
  BY DEF Published
<1>2. Published(all, findings, operation).graph = BuildGraphPayload(all)
  BY DEF Published
<1>3. QED
  BY <1>1, <1>2 DEF GraphInputError, IdentityError

(* Whatever is answered is an answer.                                      *)
LEMMA AnswersDiffer ==
  ASSUME NEW all, NEW findings, NEW operation \in {"inspected", "graphed"}
  PROVE  Published(all, findings, operation) # NoAnswer
<1>1. Published(all, findings, operation).status # "none"
  BY DEF Published
<1>2. QED
  BY <1>1 DEF NoAnswer

(* A request answers of the bundle that was parsed.                        *)
LEMMA RequestAnswers ==
  ASSUME WholeInvariant, Request PROVE InspectionInvariant' /\ answer' # NoAnswer
<1>1. phase = "parsed" /\ UNCHANGED <<input, full, concepts, reserved, phase>> /\ failures \subseteq failures'
  BY DEF Request, Validate, Inspect, Graph, vars
<1>2. Complete'
  <2>1. Complete
    BY <1>1, ParsedIsComplete
  <2>2. \A d : Told(d) => Told(d)'
    BY <1>1 DEF Told
  <2>3. \A d, p : ReportedAt(d, p) => ReportedAt(d, p)'
    BY <1>1 DEF ReportedAt
  <2>4. BundleFailed(failures) => BundleFailed(failures')
    BY <1>1 DEF BundleFailed
  <2>5. QED
    BY <1>1, <2>1, <2>2, <2>3, <2>4, Zenon DEF Complete
<1>3. \/ \E findings : \E operation \in {"inspected", "graphed"} :
               answer' = Published(failures', findings, operation)
      \/ answer'.status \in {"invalid-request", "graph-resource-limit", "validated"}
  <2>1. CASE Graph
    <3>1. answer' = Published(failures', {}, "graphed")
      BY <2>1 DEF Graph, vars
    <3>2. QED
      BY <3>1
  <2>2. ASSUME NEW now, Validate(now)
        PROVE  answer'.status \in {"invalid-request", "validated"}
    BY <2>2 DEF Validate, Refusal
  <2>3. ASSUME NEW now, NEW more, Inspect(now, more)
        PROVE  \/ answer' = Published(failures', ValidateBundle(failures', now), "inspected")
               \/ answer'.status \in {"invalid-request", "graph-resource-limit"}
    BY <2>3 DEF Inspect, Refusal
  <2>4. QED
    BY <2>1, <2>2, <2>3 DEF Request
<1>4. Answered' /\ answer' # NoAnswer
  <2>1. CASE answer'.status \in {"invalid-request", "graph-resource-limit", "validated"}
    BY <2>1 DEF Answered, NoAnswer
  <2>2. ASSUME NEW findings, NEW operation \in {"inspected", "graphed"},
               answer' = Published(failures', findings, operation)
        PROVE  Answered' /\ answer' # NoAnswer
    <3>1. answer' # NoAnswer
      BY <2>2, AnswersDiffer
    <3>2. answer'.status \in {"inspected", "graphed"} =>
            answer'.graph = BuildGraphPayload(failures') /\ ~BundleFailed(failures')
      BY <2>2, GraphOfAnswer
    <3>3. BuildGraphPayload(failures)' = BuildGraphPayload(failures')
      BY <1>1, GraphAlike
    <3>4. QED
      BY <3>1, <3>2, <3>3 DEF Answered, BundleFailed
  <2>3. QED
    BY <1>3, <2>1, <2>2
<1>5. QED
  BY <1>1, <1>2, <1>4 DEF InspectionInvariant

(* The invariant behind the answers, for any documents and limits.         *)
THEOREM InspectionInvariantHolds == InspectionSpec => []InspectionInvariant
<1>1. InspectionInit => InspectionInvariant
  <2> SUFFICES ASSUME InspectionInit PROVE InspectionInvariant
    OBVIOUS
  <2>1. Init /\ answer = NoAnswer
    BY DEF InspectionInit
  <2>2. ReportInvariant
    BY <2>1, InitialReports
  <2>3. ~full /\ input = waiting /\ phase = "start"
    BY <2>1 DEF Init
  <2>4. WholeInv
    BY <2>3 DEF WholeInv, Accounted
  <2>5. QED
    BY <2>1, <2>2, <2>4 DEF InspectionInvariant, WholeInvariant
<1>2. InspectionInvariant /\ [InspectionNext]_inspectionVars => InspectionInvariant'
  <2> SUFFICES ASSUME InspectionInvariant, [InspectionNext]_inspectionVars PROVE InspectionInvariant'
    OBVIOUS
  <2>1. CASE Request
    <3>1. answer = NoAnswer
      BY <2>1 DEF Request, Validate, Inspect, Graph
    <3>2. QED
      BY <2>1, <3>1, RequestAnswers DEF InspectionInvariant
  <2>2. CASE [Next]_vars /\ UNCHANGED answer /\ answer = NoAnswer
    BY <2>2, StepAccounts DEF InspectionInvariant
  <2>3. CASE [Next]_vars /\ UNCHANGED answer /\ answer # NoAnswer
    <3>1. ~Next
      BY <2>3 DEF InspectionInvariant, Next, RefuseBundle, AcceptBundle, FirstPass, BeginInspection, SecondPass,
                  Finish, RejectIdentity, IgnoreOther, RejectPath, RejectDuplicate, Decode, Named, Located, Turn,
                  KeepIdentity, SkipRest, DropDocument, KeepReserved, KeepConcept, Inspected, Turn2
    <3>2. UNCHANGED vars
      BY <2>3, <3>1
    <3>3. Complete' /\ Answered' /\ phase' = "parsed"
      <4>1. phase' = "parsed"
        BY <2>3, <3>2 DEF InspectionInvariant, vars
      <4>2. Complete'
        BY <2>3, <3>2, Zenon DEF InspectionInvariant, Complete, Told, ReportedAt, vars
      <4>3. Answered'
        <5>1. BuildGraphPayload(failures)' = BuildGraphPayload(failures')
          BY <3>2, GraphAlike DEF vars
        <5>2. QED
          BY <2>3, <3>2, <5>1 DEF InspectionInvariant, Answered, BundleFailed, vars
      <4>4. QED
        BY <4>1, <4>2, <4>3
    <3>4. QED
      BY <2>3, <3>3 DEF InspectionInvariant
  <2>4. QED
    BY <2>1, <2>2, <2>3 DEF InspectionNext, inspectionVars
<1>3. QED
  BY <1>1, <1>2, PTL DEF InspectionSpec

(* A graph is published only of a whole bundle, whatever its documents,    *)
(* the limits and the failures of its reader are: every document that      *)
(* names a place in it is a node, reserved or reported, what was not read  *)
(* whole is marked as failed, and no edge leads out of the graph.          *)
THEOREM PublishedGraphsAreWhole == InspectionSpec => []PublishedGraphWhole
<1>1. InspectionInvariant => PublishedGraphWhole
  <2>1. ASSUME answer = NoAnswer PROVE PublishedGraphWhole
    BY <2>1 DEF NoAnswer, PublishedGraphWhole
  <2>2. ASSUME answer # NoAnswer, InspectionInvariant PROVE PublishedGraphWhole
    BY <2>2, CompleteIsWhole DEF InspectionInvariant
  <2>3. QED
    BY <2>1, <2>2
<1>2. QED
  BY InspectionInvariantHolds, <1>1, PTL

-----------------------------------------------------------------------------
(* Findings and graph of one inspection.                                   *)

(* No two documents have paths that differ in the number of their suffixes *)
(* only: of a.md and a.md.md the code makes one identifier.                *)
NamesToldApart ==
  LET placed == {PathOf(d) : d \in {e \in input : EndsWithMd(e.parts)}} \ {<<>>}
  IN \A p, q \in placed : WithoutMd(p) = WithoutMd(q) => p = q

(* Every path is used once, every document is kept once.                   *)
ApartInv ==
  /\ \A f \in failures : f.reason \in Reasons
  /\ \A x \in ToSet(decoded) : x.path \in seen
  /\ \A x, y \in ToSet(decoded) : x.path = y.path => x = y
  /\ \A c \in concepts : \A x \in ToSet(decoded) : c.path # x.path
  /\ \A c, e \in concepts : c.path = e.path \/ c.doc = e.doc => c = e
  /\ \A c \in concepts : IsFiniteSet(DOMAIN c.links)

ApartInvariant == LinkInvariant /\ ApartInv

(* An entry of the first pass has a path of its own.                       *)
LEMMA FirstPassApart ==
  ASSUME ApartInvariant, FirstPass PROVE ApartInv'
<1>1. PICK d \in waiting : \/ RejectIdentity(d) \/ IgnoreOther(d) \/ RejectPath(d)
                           \/ RejectDuplicate(d) \/ Decode(d)
  BY DEF FirstPass
<1>2. /\ phase = "identify" /\ concepts = {} /\ UNCHANGED concepts
      /\ decoded \in Seq(Entries) /\ d \in Documents
  <2>1. phase = "identify"
    BY <1>1 DEF RejectIdentity, IgnoreOther, RejectPath, RejectDuplicate, Decode, Named, Located, Turn
  <2>2. UNCHANGED concepts
    BY <1>1, Zenon DEF RejectIdentity, IgnoreOther, RejectPath, RejectDuplicate, Reject, Decode, Register, Unchanged1
  <2>3. QED
    BY <2>1, <2>2 DEF ApartInvariant, LinkInvariant, ReportInvariant, InputInv, DecodedInv
<1>3. ASSUME UNCHANGED decoded, seen \subseteq seen', \A f \in failures' \ failures : f.reason \in Reasons
      PROVE  ApartInv'
  <2>1. ToSet(decoded') = ToSet(decoded)
    BY <1>3
  <2>2. QED
    BY <1>2, <1>3, <2>1 DEF ApartInvariant, ApartInv
<1>4. ASSUME NEW uri, NEW path, NEW reason \in Reasons, NEW scope, Reject(d, uri, path, reason, scope)
      PROVE  ApartInv'
  <2>1. Failure(uri, path, reason, scope).reason = reason
    BY DEF Failure
  <2>2. /\ UNCHANGED <<seen, decoded>>
        /\ \A f \in failures' \ failures : f.reason \in Reasons
    BY <1>4, <2>1 DEF Reject
  <2>3. QED
    BY <1>3, <2>2
<1>5. ASSUME NEW h \in Hashes, NEW k \in BOOLEAN, NEW failed, Register(d, h, k, failed),
             PathOf(d) \notin seen, \A f \in failed : f.reason \in Reasons
      PROVE  ApartInv'
  <2> DEFINE x == [doc |-> d, path |-> PathOf(d), hash |-> h, known |-> k]
  <2>1. x \in Entries /\ x.path = PathOf(d)
    BY <1>2, EntryOf
  <2>2. /\ failures' = failures \cup failed /\ seen' = seen \cup {PathOf(d)}
        /\ UNCHANGED decoded \/ decoded' = Append(decoded, x)
    BY <1>5 DEF Register
  <2> HIDE DEF x
  <2>3. CASE UNCHANGED decoded
    BY <1>3, <1>5, <2>2, <2>3
  <2>4. CASE decoded' = Append(decoded, x)
    <3>1. ToSet(decoded') = ToSet(decoded) \cup {x}
      BY <1>2, <2>1, <2>4, EntriesChange
    <3>2. \A y \in ToSet(decoded) : y.path # x.path
      BY <1>5, <2>1 DEF ApartInvariant, ApartInv
    <3>3. /\ \A f \in failures' : f.reason \in Reasons
          /\ \A y \in ToSet(decoded') : y.path \in seen'
          /\ \A y, z \in ToSet(decoded') : y.path = z.path => y = z
      BY <1>5, <2>1, <2>2, <3>1, <3>2 DEF ApartInvariant, ApartInv
    <3>4. QED
      BY <1>2, <3>3 DEF ApartInv
  <2>5. QED
    BY <2>2, <2>3, <2>4
<1>6. "read" \in Reasons /\ "resourceLimit" \in Reasons /\ "decode" \in Reasons
  BY DEF Reasons
<1>7. CASE RejectIdentity(d) \/ RejectPath(d) \/ RejectDuplicate(d)
  BY <1>4, <1>6, <1>7 DEF RejectIdentity, RejectPath, RejectDuplicate
<1>8. CASE IgnoreOther(d)
  BY <1>3, <1>8 DEF IgnoreOther
<1>9. CASE Decode(d)
  <2>1. PathOf(d) \notin seen
    BY <1>9 DEF Decode
  <2>2. \A hashed : HashOf(d, hashed) \in Hashes
    BY DEF HashOf, Hashes
  <2>3. "unparsed" \in Hashes /\ TRUE \in BOOLEAN /\ FALSE \in BOOLEAN
    BY DEF Hashes
  <2>4. \A uri, path, reason, scope : Failure(uri, path, reason, scope).reason = reason
    BY DEF Failure
  <2>5. ASSUME NEW h \in Hashes, NEW reason \in Reasons, NEW scope,
               Register(d, h, TRUE, {Failure(d.uri, PathOf(d), reason, scope)})
        PROVE  ApartInv'
    <3> DEFINE failed == {Failure(d.uri, PathOf(d), reason, scope)}
    <3>1. \A f \in failed : f.reason \in Reasons
      BY <2>4, <2>5
    <3>2. Register(d, h, TRUE, failed)
      BY <2>5
    <3> HIDE DEF failed
    <3>3. QED
      BY <1>5, <2>1, <2>3, <3>1, <3>2
  <2>6. CASE /\ d.adapter # "none"
             /\ Register(d, "unparsed", TRUE, {Failure(d.uri, PathOf(d), d.adapter, "document")})
    <3>1. d.adapter \in Reasons
      BY <1>2, <2>6, DocumentAssumption
    <3>2. QED
      BY <2>3, <2>5, <2>6, <3>1
  <2>7. CASE Register(d, "unparsed", TRUE, {Failure(d.uri, PathOf(d), "resourceLimit", "document")})
    BY <1>6, <2>3, <2>5, <2>7
  <2>8. CASE /\ d.content # "text"
             /\ LET fault == DecodeFault(d.content)
                IN Register(d, HashOf(d, fault.hashed), TRUE,
                            {Failure(d.uri, PathOf(d), fault.reason, fault.scope)})
    <3>1. DecodeFault(d.content).reason \in {"read", "decode", "resourceLimit"}
      BY <1>2, <2>8, DocumentAssumption DEF DecodeFault
    <3>2. QED
      BY <1>6, <2>2, <2>5, <2>8, <3>1
  <2>9. CASE Register(d, HashOf(d, TRUE), FALSE, {})
    <3> DEFINE failed == {}
               h == HashOf(d, TRUE)
    <3>1. \A f \in failed : f.reason \in Reasons
      OBVIOUS
    <3>2. h \in Hashes /\ Register(d, h, FALSE, failed)
      BY <2>2, <2>9
    <3> HIDE DEF failed, h
    <3>3. QED
      BY <1>5, <2>1, <2>3, <3>1, <3>2
  <2>10. QED
    BY <1>9, <2>6, <2>7, <2>8, <2>9 DEF Decode
<1>10. QED
  BY <1>1, <1>7, <1>8, <1>9

(* The concept of an entry is the first one with its path and document.    *)
LEMMA SecondPassApart ==
  ASSUME ApartInvariant, NEW x,
         KeepIdentity(x) \/ SkipRest(x) \/ DropDocument(x) \/ KeepReserved(x) \/ KeepConcept(x)
  PROVE  ApartInv'
<1>1. Turn2(x) /\ UNCHANGED seen
  BY Zenon DEF KeepIdentity, SkipRest, DropDocument, KeepReserved, KeepConcept, Inspected, Unchanged2
<1>2. /\ EntryInv(x) /\ x \in Entries /\ x \in ToSet(decoded) /\ ToSet(decoded') \subseteq ToSet(decoded)
      /\ \A y \in ToSet(decoded') : x.doc.rank < y.doc.rank
  <2>1. /\ decoded \in Seq(Entries) /\ decoded # <<>> /\ x = Head(decoded) /\ decoded' = Tail(decoded)
        /\ \A i \in 1..Len(decoded) : EntryInv(decoded[i])
        /\ \A i, j \in 1..Len(decoded) : i < j => decoded[i].doc.rank < decoded[j].doc.rank
    BY <1>1 DEF Turn2, ApartInvariant, LinkInvariant, ReportInvariant, DecodedInv
  <2>2. x = decoded[1] /\ 1 \in 1..Len(decoded) /\ Len(decoded) \in Nat
    BY <2>1, HeadTailProperties, LenProperties, EmptySeq
  <2>3. ToSet(decoded) = ToSet(decoded') \cup {x} /\ x \in Entries
    BY <2>1, EntriesChange
  <2>4. ASSUME NEW y \in ToSet(decoded') PROVE x.doc.rank < y.doc.rank
    <3>1. PICK i \in DOMAIN decoded' : y = decoded'[i]
      BY DEF ToSet
    <3>2. /\ decoded' \in Seq(Entries) /\ Len(decoded') = Len(decoded) - 1
          /\ \A j \in 1..Len(decoded') : decoded'[j] = decoded[j + 1]
      BY <2>1, <2>2, HeadTailProperties
    <3>3. i \in 1..Len(decoded')
      BY <3>1, <3>2, LenProperties
    <3>4. i + 1 \in 1..Len(decoded) /\ 1 < i + 1 /\ y = decoded[i + 1]
      BY <2>2, <3>1, <3>2, <3>3
    <3>5. QED
      BY <2>1, <2>2, <3>4
  <2>5. QED
    BY <2>1, <2>2, <2>3, <2>4
<1>3. \A y \in ToSet(decoded') : y.path # x.path
  <2>1. x.doc.rank \in Nat
    BY <1>2, DocumentAssumption DEF Entries
  <2>2. \A y \in ToSet(decoded') : y # x
    BY <1>2, <2>1
  <2>3. QED
    BY <1>2, <2>2 DEF ApartInvariant, ApartInv
<1>4. \A c \in concepts : c.doc # x.doc /\ c.path # x.path
  <2>1. x.doc.rank \in Nat /\ \A c \in concepts : c.doc.rank < x.doc.rank
    BY <1>2, DocumentAssumption DEF Entries, EntryInv
  <2>2. QED
    BY <1>2, <2>1 DEF ApartInvariant, ApartInv
<1> DEFINE Added(c) == c.doc = x.doc /\ c.path = x.path /\ c.links = <<>>
<1>5. \E c : Added(c) /\ concepts' \subseteq concepts \cup {c}
  <2>1. ASSUME NEW y, NEW k, y.doc = x.doc, y.path = x.path PROVE Added(Concept(y, k))
    BY <2>1 DEF Concept
  <2>2. ASSUME NEW y, y.doc = x.doc, y.path = x.path, concepts' = concepts \cup Partial(y)
        PROVE  \E c : Added(c) /\ concepts' \subseteq concepts \cup {c}
    <3>1. Partial(y) \subseteq {Concept(y, TRUE)}
      BY DEF Partial
    <3>2. Added(Concept(y, TRUE))
      BY <2>1, <2>2
    <3> HIDE DEF Added
    <3>3. QED
      BY <2>2, <3>1, <3>2
  <2> HIDE DEF Added
  <2>3. CASE KeepIdentity(x) \/ DropDocument(x)
    BY <2>2, <2>3 DEF KeepIdentity, DropDocument
  <2>4. CASE SkipRest(x)
    <3>1. [x EXCEPT !.hash = "unparsed"].path = x.path /\ [x EXCEPT !.hash = "unparsed"].doc = x.doc
      BY <1>2 DEF Entries
    <3>2. QED
      BY <2>2, <2>4, <3>1 DEF SkipRest
  <2>5. CASE KeepReserved(x)
    BY <2>1, <2>5 DEF KeepReserved
  <2>6. CASE KeepConcept(x)
    BY <2>1, <2>6 DEF KeepConcept
  <2>7. QED
    BY <2>3, <2>4, <2>5, <2>6
<1>6. \A f \in failures' : f.reason \in Reasons
  <2>1. ASSUME NEW uri, NEW path, NEW reason \in {"resourceLimit", "frontmatter"}, NEW scope,
               failures' = failures \cup {Failure(uri, path, reason, scope)}
        PROVE  \A f \in failures' : f.reason \in Reasons
    <3>1. Failure(uri, path, reason, scope).reason \in Reasons
      BY DEF Failure, Reasons
    <3>2. QED
      BY <2>1, <3>1 DEF ApartInvariant, ApartInv
  <2>2. CASE DropDocument(x)
    <3>1. PICK i \in DOMAIN Checks(x) :
            /\ failures' = failures \cup {Failure(x.doc.uri, x.path, Checks(x)[i].reason, Checks(x)[i].scope)}
            /\ full' = (Checks(x)[i].scope = "bundle")
      BY <2>2, Zenon DEF DropDocument
    <3>2. Checks(x)[i].reason \in {"resourceLimit", "frontmatter"}
      BY ChecksInOrder
    <3>3. QED
      BY <2>1, <3>1, <3>2
  <2>3. CASE SkipRest(x)
    BY <2>1, <2>3 DEF SkipRest
  <2>4. CASE ~DropDocument(x) /\ ~SkipRest(x)
    <3>1. UNCHANGED failures
      BY <2>4 DEF KeepIdentity, KeepReserved, KeepConcept
    <3>2. QED
      BY <3>1 DEF ApartInvariant, ApartInv
  <2>5. QED
    BY <2>2, <2>3, <2>4
<1>7. PICK c : Added(c) /\ concepts' \subseteq concepts \cup {c}
  BY <1>5
<1>8. IsFiniteSet(DOMAIN c.links)
  <2>1. DOMAIN c.links = {}
    BY <1>7
  <2>2. QED
    BY <2>1, FS_EmptySet
<1>9. /\ \A e \in concepts' : \A y \in ToSet(decoded') : e.path # y.path
      /\ \A e, g \in concepts' : e.path = g.path \/ e.doc = g.doc => e = g
      /\ \A e \in concepts' : IsFiniteSet(DOMAIN e.links)
  BY <1>2, <1>3, <1>4, <1>7, <1>8 DEF ApartInvariant, ApartInv
<1>10. QED
  BY <1>1, <1>2, <1>6, <1>9 DEF ApartInvariant, ApartInv

(* Resolving the links does not bring concepts together.                   *)
LEMMA FinishApart ==
  ASSUME ApartInvariant, Finish PROVE ApartInv'
<1>1. /\ UNCHANGED <<seen, decoded, failures>> /\ decoded = <<>>
      /\ concepts' = {[c EXCEPT !.links = IF c.partial THEN <<>>
                                          ELSE [i \in DOMAIN c.doc.links |-> ResolveLink(c.path, c.doc.links[i])]]
                        : c \in concepts}
  BY DEF Finish
<1>2. ToSet(decoded') = {}
  BY <1>1 DEF ToSet
<1>3. \A c \in concepts :
        /\ c = [id |-> c.id, path |-> c.path, hash |-> c.hash, partial |-> c.partial, doc |-> c.doc,
                links |-> c.links]
        /\ IsFiniteSet(DOMAIN c.doc.links)
  <2>1. \A c \in concepts : c.doc \in Documents
    BY DEF ApartInvariant, LinkInvariant, ReportInvariant, KeptInv, InputInv
  <2>2. QED
    BY <2>1, DocumentAssumption DEF ApartInvariant, LinkInvariant, ReportInvariant, KeptInv, Explained
<1> DEFINE Resolve(c) == IF c.partial THEN <<>>
                         ELSE [i \in DOMAIN c.doc.links |-> ResolveLink(c.path, c.doc.links[i])]
           Finished(c) == [c EXCEPT !.links = Resolve(c)]
<1>4. \A c \in concepts : IsFiniteSet(DOMAIN Resolve(c))
  <2>1. IsFiniteSet(DOMAIN <<>>)
    BY FS_EmptySet
  <2>2. QED
    BY <1>3, <2>1
<1>5. concepts' = {Finished(c) : c \in concepts}
  BY <1>1
<1> HIDE DEF Resolve
<1>6. \A c \in concepts : /\ Finished(c).path = c.path /\ Finished(c).doc = c.doc
                          /\ IsFiniteSet(DOMAIN Finished(c).links)
  BY <1>3, <1>4
<1> HIDE DEF Finished
<1>7. /\ \A e, g \in concepts' : e.path = g.path \/ e.doc = g.doc => e = g
      /\ \A e \in concepts' : IsFiniteSet(DOMAIN e.links)
  BY <1>5, <1>6 DEF ApartInvariant, ApartInv
<1>8. QED
  BY <1>1, <1>2, <1>7 DEF ApartInvariant, ApartInv

(* A step of the parser keeps paths and documents apart.                   *)
LEMMA StepApart ==
  ASSUME ApartInvariant, ReportInvariant', [Next]_vars PROVE ApartInvariant'
<1>1. LinkInvariant'
  BY StepLinks DEF ApartInvariant
<1>2. ApartInv'
  <2>1. CASE FirstPass
    BY <2>1, FirstPassApart
  <2>2. CASE SecondPass
    BY <2>2, SecondPassApart, Zenon DEF SecondPass
  <2>3. CASE Finish
    BY <2>3, FinishApart
  <2>4. CASE RefuseBundle \/ AcceptBundle \/ BeginInspection \/ UNCHANGED vars
    <3>1. UNCHANGED <<seen, decoded, concepts>>
      BY <2>4 DEF RefuseBundle, AcceptBundle, BeginInspection, vars
    <3>2. ToSet(decoded') = ToSet(decoded)
      BY <3>1
    <3>3. \A f \in failures' : f \in failures \/ f.reason = "resourceLimit"
      BY <2>4 DEF RefuseBundle, AcceptBundle, BeginInspection, vars, Failure
    <3>4. \A f \in failures' : f.reason \in Reasons
      BY <3>3 DEF ApartInvariant, ApartInv, Reasons
    <3>5. QED
      BY <3>1, <3>2, <3>4 DEF ApartInvariant, ApartInv
  <2>5. QED
    BY <2>1, <2>2, <2>3, <2>4 DEF Next
<1>3. QED
  BY <1>1, <1>2 DEF ApartInvariant

(* What the graph and the findings of a parsed bundle rely on.             *)
Ready ==
  /\ \A c, e \in concepts : c.doc.uri = e.doc.uri \/ c.id = e.id => c = e
  /\ \A c \in concepts : IsFiniteSet(DOMAIN c.links)
  /\ \A c \in concepts : \A i \in Links(c, "internal") : c.links[i].target \in Ids
  /\ \A f \in failures : f.reason \in Reasons

LEMMA ParsedIsReady ==
  ASSUME ApartInvariant, NamesToldApart, phase = "parsed" PROVE Ready
<1>1. ASSUME NEW c \in concepts, NEW e \in concepts, c.doc.uri = e.doc.uri PROVE c = e
  <2>1. c.doc \in input /\ e.doc \in input
    BY DEF ApartInvariant, LinkInvariant, ReportInvariant, KeptInv
  <2>2. c.doc = e.doc
    BY <1>1, <2>1 DEF ApartInvariant, LinkInvariant, ReportInvariant, InputInv
  <2>3. QED
    BY <2>2 DEF ApartInvariant, ApartInv
<1>2. ASSUME NEW c \in concepts, NEW e \in concepts, c.id = e.id PROVE c = e
  <2>1. /\ c.path \in paths /\ c.id = WithoutMd(c.path)
        /\ e.path \in paths /\ e.id = WithoutMd(e.path)
    BY DEF ApartInvariant, LinkInvariant, PathInv
  <2>2. /\ c.path # <<>> /\ \E d \in input : c.path = PathOf(d) /\ EndsWithMd(d.parts)
        /\ e.path # <<>> /\ \E d \in input : e.path = PathOf(d) /\ EndsWithMd(d.parts)
    BY <2>1 DEF ApartInvariant, LinkInvariant, PathInv
  <2>3. c.path = e.path
    BY <1>2, <2>1, <2>2 DEF NamesToldApart
  <2>4. QED
    BY <2>3 DEF ApartInvariant, ApartInv
<1>3. ASSUME NEW c \in concepts, NEW i \in Links(c, "internal") PROVE c.links[i].target \in Ids
  <2>1. i \in DOMAIN c.links /\ c.links[i].class = "internal"
    BY <1>3 DEF Links
  <2>2. \E e \in concepts : e.id = c.links[i].target
    BY <2>1, LinkSays DEF ApartInvariant
  <2>3. QED
    BY <2>2 DEF Ids
<1>4. QED
  BY <1>1, <1>2, <1>3 DEF Ready, ApartInvariant, ApartInv

(* Findings about anything but isolation, broken links and failures.       *)
Unrelated(f) == f.code \notin {"orphan", "broken"} /\ \A path : f.at # At(path)

(* Whatever validation finds in the metadata of a concept.                 *)
LEMMA MetadataFindings ==
  ASSUME NEW c, NEW now,
         NEW code \in V02Findings(RawOf(c), c.doc.events, now)
  PROVE  code \notin {"orphan", "broken"}
<1> DEFINE raw == RawOf(c)
           events == c.doc.events
<1>1. GeneratedFindings(raw, now) \subseteq {"invalid-generated", "future-generated-at"}
  BY DEF GeneratedFindings
<1>2. VerifiedFindings(raw, now) \subseteq {"invalid-verified", "future-verified-at"}
  BY DEF VerifiedFindings
<1>3. StatusFindings(raw) \subseteq {"invalid-status"}
  BY DEF StatusFindings
<1>4. StaleFindings(raw, now) \subseteq {"invalid-stale-after", "stale-concept"}
  BY DEF StaleFindings
<1>5. SourcesFindings(raw) \subseteq {"invalid-sources"}
  BY Zenon DEF SourcesFindings
<1>6. WindowFindings(raw) \subseteq {"invalid-usage-window"}
  BY DEF WindowFindings
<1>7. AttestedFindings(raw, events) \subseteq {"invalid-attested-computation"}
  BY Zenon DEF AttestedFindings
<1> HIDE DEF raw, events
<1>8. QED
  BY <1>1, <1>2, <1>3, <1>4, <1>5, <1>6, <1>7 DEF V02Findings, raw, events

(* The findings of validation that concern them, and the others.           *)
LEMMA FindingsByKind ==
  ASSUME Ready, NEW now, NEW f \in ValidateBundle(failures, now)
  PROVE  \/ f \in FailureFindings(failures) /\ f.code \notin {"orphan", "broken"}
         \/ f \in OrphanFindings(Sound(failures)) /\ f.code = "orphan" /\ \A path : f.at # At(path)
         \/ /\ \E c \in Sound(failures) : \E i \in Links(c, "broken") : f = Curation(c, "broken", LinkAt(i))
            /\ f.code = "broken" /\ \A path : f.at # At(path)
         \/ Unrelated(f)
<1> DEFINE sound == Sound(failures)
<1>1. \A name, path : Field(name) # At(path)
  BY DEF Field, At
<1>2. \A i, path : LinkAt(i) # At(path)
  BY DEF LinkAt, At
<1>3. \A category, code, uri, place : /\ Finding(category, code, uri, place).code = code
                                      /\ Finding(category, code, uri, place).at = place
  BY DEF Finding
<1>4. CASE f \in FailureFindings(failures)
  <2>1. f.code \in Reasons
    BY <1>3, <1>4 DEF FailureFindings, Ready
  <2>2. QED
    BY <1>4, <2>1 DEF Reasons
<1>5. ASSUME NEW r \in reserved, f \in VersionFindings(r) PROVE Unrelated(f)
  BY <1>1, <1>3, <1>5 DEF VersionFindings, Unrelated
<1>6. ASSUME NEW r \in reserved, f \in ReservedFindings(r) PROVE Unrelated(f)
  BY <1>1, <1>3, <1>6 DEF ReservedFindings, Unrelated
<1>7. ASSUME NEW c \in sound, f \in LinkFindings(c)
      PROVE  \/ Unrelated(f)
             \/ /\ \E i \in Links(c, "broken") : f = Curation(c, "broken", LinkAt(i))
                /\ f.code = "broken" /\ \A path : f.at # At(path)
  <2>1. PICK i \in DOMAIN c.links : /\ f = Curation(c, c.links[i].class, LinkAt(i))
                                    /\ c.links[i].class \in {"broken", "outOfBundle", "invalid"}
    BY <1>7 DEF LinkFindings
  <2>2. f.code = c.links[i].class /\ f.at = LinkAt(i)
    BY <1>3, <2>1 DEF Curation
  <2>3. CASE c.links[i].class = "broken"
    BY <1>2, <2>1, <2>2, <2>3 DEF Links
  <2>4. CASE c.links[i].class # "broken"
    BY <1>2, <2>1, <2>2, <2>4 DEF Unrelated
  <2>5. QED
    BY <2>3, <2>4
<1>8. ASSUME NEW c \in sound, f \in FieldFindings(c) \cup TimestampFindings(c, now) PROVE Unrelated(f)
  BY <1>1, <1>3, <1>8 DEF FieldFindings, TimestampFindings, Curation, Unrelated
<1>9. ASSUME NEW c \in sound, NEW code \in V02Findings(RawOf(c), c.doc.events, now),
             f = Curation(c, code, Field("metadata"))
      PROVE  Unrelated(f)
  BY <1>1, <1>3, <1>9, MetadataFindings DEF Curation, Unrelated
<1>10. CASE f \in OrphanFindings(sound)
  BY <1>1, <1>3, <1>10 DEF OrphanFindings, Curation
<1>11. CASE f \in ResourceFindings(sound)
  BY <1>1, <1>3, <1>11 DEF ResourceFindings, Curation, Unrelated
<1>12. \/ f \in FailureFindings(failures)
       \/ \E r \in reserved : f \in VersionFindings(r) \cup ReservedFindings(r)
       \/ \E c \in sound : f \in ConceptFindings(c, now)
       \/ f \in OrphanFindings(sound)
       \/ f \in ResourceFindings(sound)
  BY DEF ValidateBundle
<1>13. ASSUME NEW c \in sound, f \in ConceptFindings(c, now)
       PROVE  \/ f \in LinkFindings(c)
              \/ f \in FieldFindings(c) \cup TimestampFindings(c, now)
              \/ \E code \in V02Findings(RawOf(c), c.doc.events, now) : f = Curation(c, code, Field("metadata"))
  BY <1>13 DEF ConceptFindings
<1> HIDE DEF sound
<1>14. CASE \E r \in reserved : f \in VersionFindings(r) \cup ReservedFindings(r)
  BY <1>5, <1>6, <1>14
<1>15. CASE \E c \in sound : f \in ConceptFindings(c, now)
  BY <1>7, <1>8, <1>9, <1>13, <1>15 DEF sound
<1>16. QED
  BY <1>4, <1>10, <1>11, <1>12, <1>14, <1>15 DEF sound

(* Both count the same links.                                              *)
LEMMA SameNumber ==
  ASSUME NEW I, IsFiniteSet(I), NEW T, NEW f \in [I -> T],
         \A i, j \in I : f[i] = f[j] => i = j, \A t \in T : \E i \in I : f[i] = t
  PROVE  Cardinality(T) = Cardinality(I)
<1>1. f \in Bijection(I, T)
  BY DEF Bijection, Injection, Surjection, IsInjective
<1>2. QED
  BY <1>1, FS_Bijection DEF ExistsBijection

(* A concept is isolated in the graph exactly if validation calls it an    *)
(* orphan: an internal link always is an edge.                             *)
LEMMA EdgesConnect ==
  ASSUME Ready, NEW c \in concepts
  PROVE  c.id \in ConnectedIds(Sound(failures))
           <=> \E e \in Edges(Sound(failures)) : c.id \in {e.source, e.target}
<1> DEFINE sound == Sound(failures)
           Edge(d, i) == [source |-> d.id, target |-> d.links[i].target, place |-> <<d.path, i>>]
<1>1. sound \subseteq concepts
  BY DEF Sound
<1>2. \A d \in sound : \A i \in Links(d, "internal") :
        /\ Edge(d, i) \in Edges(sound) /\ Edge(d, i).source = d.id /\ Edge(d, i).target = d.links[i].target
  BY <1>1 DEF Ready, Edges
<1>3. ASSUME c.id \in ConnectedIds(sound) PROVE \E e \in Edges(sound) : c.id \in {e.source, e.target}
  <2>1. \E d \in sound : \E i \in Links(d, "internal") : c.id \in {d.id, d.links[i].target}
    BY <1>3 DEF ConnectedIds
  <2> HIDE DEF sound, Edge
  <2>2. QED
    BY <1>2, <2>1
<1>4. ASSUME NEW e \in Edges(sound), c.id \in {e.source, e.target} PROVE c.id \in ConnectedIds(sound)
  <2>1. PICK d \in sound : \E i \in Links(d, "internal") : e.source = d.id /\ e.target = d.links[i].target
    BY <1>4 DEF Edges
  <2>2. QED
    BY <1>4, <2>1 DEF ConnectedIds
<1>5. QED
  BY <1>3, <1>4

(* What the node of a concept shows.                                       *)
LEMMA NodeShows ==
  ASSUME NEW all, NEW c \in concepts
  PROVE  LET node == BuildGraphPayload(all).nodes[c]
             sound == Sound(all)
         IN /\ node.failed = (c \notin sound)
            /\ node.orphan = (c \in sound /\ ~\E e \in Edges(sound) : c.id \in {e.source, e.target})
            /\ node.broken = IF c \notin sound THEN 0
                             ELSE Cardinality({b \in BrokenLinks(sound) : b.source = c.id})
<1> DEFINE sound == Sound(all)
           node == Node(c, c \notin sound, Edges(sound), BrokenLinks(sound))
           nodes == [d \in concepts |-> Node(d, d \notin sound, Edges(sound), BrokenLinks(sound))]
<1>1. BuildGraphPayload(all).nodes = nodes
  BY DEF BuildGraphPayload
<1>2. BuildGraphPayload(all).nodes[c] = node
  BY <1>1
<1>3. /\ node.failed = (c \notin sound)
      /\ node.orphan = (~(c \notin sound) /\ ~\E e \in Edges(sound) : c.id \in {e.source, e.target})
      /\ node.broken = IF c \notin sound THEN 0 ELSE Cardinality({b \in BrokenLinks(sound) : b.source = c.id})
  BY DEF Node
<1> HIDE DEF nodes, node
<1>4. node.orphan = (c \in sound /\ ~\E e \in Edges(sound) : c.id \in {e.source, e.target})
  BY <1>3
<1>5. QED
  BY <1>2, <1>3, <1>4

(* What validation says of the concept: the orphans, ...                   *)
LEMMA OrphansFound ==
  ASSUME Ready, NEW now, NEW c \in concepts
  PROVE  (\E f \in ValidateBundle(failures, now) : f.uri = c.doc.uri /\ f.code = "orphan")
           <=> c \in Sound(failures) /\ c.id \notin ConnectedIds(Sound(failures))
<1> DEFINE sound == Sound(failures)
           finding == Curation(c, "orphan", Field("type"))
<1>1. sound \subseteq concepts
  BY DEF Sound
<1>2. ASSUME c \in sound, c.id \notin ConnectedIds(sound)
      PROVE  finding \in ValidateBundle(failures, now) /\ finding.uri = c.doc.uri /\ finding.code = "orphan"
  <2>1. finding \in OrphanFindings(sound)
    BY <1>2 DEF OrphanFindings
  <2>2. finding.uri = c.doc.uri /\ finding.code = "orphan"
    BY DEF Curation, Finding
  <2> HIDE DEF finding
  <2>3. QED
    BY <2>1, <2>2 DEF ValidateBundle
<1>3. ASSUME NEW f \in ValidateBundle(failures, now), f.uri = c.doc.uri, f.code = "orphan"
      PROVE  c \in sound /\ c.id \notin ConnectedIds(sound)
  <2>1. f \in OrphanFindings(sound)
    BY <1>3, FindingsByKind DEF Unrelated
  <2>2. PICK d \in sound : d.id \notin ConnectedIds(sound) /\ f = Curation(d, "orphan", Field("type"))
    BY <2>1 DEF OrphanFindings
  <2>3. d.doc.uri = c.doc.uri
    BY <1>3, <2>2 DEF Curation, Finding
  <2>4. d = c
    BY <1>1, <2>2, <2>3 DEF Ready
  <2>5. QED
    BY <2>2, <2>4
<1>4. QED
  BY <1>2, <1>3

(* ... the broken links, ...                                               *)
LEMMA BrokenFound ==
  ASSUME Ready, NEW now, NEW c \in concepts
  PROVE  {f \in ValidateBundle(failures, now) : f.uri = c.doc.uri /\ f.code = "broken"}
           = IF c \in Sound(failures) THEN {Curation(c, "broken", LinkAt(i)) : i \in Links(c, "broken")} ELSE {}
<1> DEFINE sound == Sound(failures)
           found == {f \in ValidateBundle(failures, now) : f.uri = c.doc.uri /\ f.code = "broken"}
<1>1. sound \subseteq concepts
  BY DEF Sound
<1>2. ASSUME NEW f \in found
      PROVE  c \in sound /\ \E i \in Links(c, "broken") : f = Curation(c, "broken", LinkAt(i))
  <2>1. PICK d \in sound : \E i \in Links(d, "broken") : f = Curation(d, "broken", LinkAt(i))
    BY <1>2, FindingsByKind DEF Unrelated
  <2>2. d.doc.uri = c.doc.uri
    BY <1>2, <2>1 DEF Curation, Finding
  <2>3. d = c
    BY <1>1, <2>1, <2>2 DEF Ready
  <2>4. QED
    BY <2>1, <2>3
<1>3. ASSUME c \in sound, NEW i \in Links(c, "broken") PROVE Curation(c, "broken", LinkAt(i)) \in found
  <2> DEFINE finding == Curation(c, "broken", LinkAt(i))
  <2>1. finding \in LinkFindings(c)
    BY <1>3 DEF LinkFindings, Links
  <2>2. finding.uri = c.doc.uri /\ finding.code = "broken"
    BY DEF Curation, Finding
  <2> HIDE DEF finding
  <2>3. finding \in ConceptFindings(c, now)
    BY <2>1 DEF ConceptFindings
  <2>4. finding \in ValidateBundle(failures, now)
    BY <1>3, <2>3 DEF ValidateBundle
  <2>5. QED
    BY <2>2, <2>4 DEF finding
<1> HIDE DEF found, sound
<1>4. found = IF c \in sound THEN {Curation(c, "broken", LinkAt(i)) : i \in Links(c, "broken")} ELSE {}
  BY <1>2, <1>3
<1>5. QED
  BY <1>4 DEF found, sound

(* ... and the failures.                                                   *)
LEMMA FailuresFound ==
  ASSUME Ready, NEW now, NEW c \in concepts
  PROVE  (\E f \in ValidateBundle(failures, now) : f.uri = c.doc.uri /\ f.at = At(c.path))
           <=> c \notin Sound(failures)
<1>1. c \notin Sound(failures) <=> \E g \in failures : g.uri = c.doc.uri /\ g.path = c.path
  BY DEF Sound, Failed
<1>2. \A g : LET f == Finding("conformance", g.reason, g.uri, At(g.path))
             IN f.uri = g.uri /\ f.at = At(g.path)
  BY DEF Finding
<1>3. \A p, q : At(p) = At(q) => p = q
  BY DEF At
<1>4. ASSUME NEW g \in failures, g.uri = c.doc.uri, g.path = c.path
      PROVE  \E f \in ValidateBundle(failures, now) : f.uri = c.doc.uri /\ f.at = At(c.path)
  <2> DEFINE f == Finding("conformance", g.reason, g.uri, At(g.path))
  <2>1. f \in FailureFindings(failures)
    BY DEF FailureFindings
  <2>2. f.uri = c.doc.uri /\ f.at = At(c.path)
    BY <1>2, <1>4
  <2> HIDE DEF f
  <2>3. f \in ValidateBundle(failures, now)
    BY <2>1 DEF ValidateBundle
  <2>4. QED
    BY <2>2, <2>3
<1>5. ASSUME NEW f \in ValidateBundle(failures, now), f.uri = c.doc.uri, f.at = At(c.path)
      PROVE  \E g \in failures : g.uri = c.doc.uri /\ g.path = c.path
  <2>1. f \in FailureFindings(failures)
    BY <1>5, FindingsByKind DEF Unrelated
  <2>2. PICK g \in failures : f = Finding("conformance", g.reason, g.uri, At(g.path))
    BY <2>1 DEF FailureFindings
  <2>3. QED
    BY <1>2, <1>3, <1>5, <2>2
<1>6. QED
  BY <1>1, <1>4, <1>5

(* As many broken links are shown as are found.                            *)
LEMMA BrokenCounted ==
  ASSUME Ready, NEW c \in Sound(failures)
  PROVE  Cardinality({b \in BrokenLinks(Sound(failures)) : b.source = c.id})
           = Cardinality({Curation(c, "broken", LinkAt(i)) : i \in Links(c, "broken")})
<1> DEFINE sound == Sound(failures)
           I == Links(c, "broken")
           Shown(i) == [source |-> c.id, place |-> <<c.path, i>>]
           Found(i) == Curation(c, "broken", LinkAt(i))
           shown == {b \in BrokenLinks(sound) : b.source = c.id}
           found == {Found(i) : i \in I}
<1>1. sound \subseteq concepts /\ c \in concepts
  BY DEF Sound
<1>2. IsFiniteSet(I)
  <2>1. I \subseteq DOMAIN c.links /\ IsFiniteSet(DOMAIN c.links)
    BY <1>1 DEF Links, Ready
  <2>2. QED
    BY <2>1, FS_Subset
<1>3. /\ \A i, j \in I : Shown(i) = Shown(j) => i = j
      /\ \A i, j \in I : Found(i) = Found(j) => i = j
  BY DEF Curation, Finding, LinkAt
<1>4. shown = {Shown(i) : i \in I}
  <2>1. ASSUME NEW b \in shown PROVE \E i \in I : b = Shown(i)
    <3>1. PICK d \in sound : \E i \in Links(d, "broken") : b = [source |-> d.id, place |-> <<d.path, i>>]
      BY <2>1 DEF BrokenLinks
    <3>2. d.id = c.id
      BY <2>1, <3>1
    <3>3. d = c
      BY <1>1, <3>1, <3>2 DEF Ready
    <3>4. QED
      BY <3>1, <3>3
  <2>2. ASSUME NEW i \in I PROVE Shown(i) \in shown
    BY <2>2 DEF BrokenLinks
  <2> HIDE DEF shown, Shown, I
  <2>3. QED
    BY <2>1, <2>2
<1> HIDE DEF I, Shown, Found, shown, sound
<1>5. Cardinality(shown) = Cardinality(I)
  <2> DEFINE f == [i \in I |-> Shown(i)]
  <2>1. f \in [I -> shown] /\ (\A i, j \in I : f[i] = f[j] => i = j) /\ \A t \in shown : \E i \in I : f[i] = t
    BY <1>3, <1>4
  <2> HIDE DEF f
  <2>2. QED
    BY <1>2, <2>1, SameNumber
<1>6. Cardinality(found) = Cardinality(I)
  <2> DEFINE f == [i \in I |-> Found(i)]
  <2>1. f \in [I -> found] /\ (\A i, j \in I : f[i] = f[j] => i = j) /\ \A t \in found : \E i \in I : f[i] = t
    BY <1>3
  <2> HIDE DEF f, found
  <2>2. QED
    BY <1>2, <2>1, SameNumber
<1>7. QED
  BY <1>5, <1>6 DEF shown, found, sound, I, Found

(* Findings and graph of the same failures agree.                          *)
LEMMA InspectionAgrees ==
  ASSUME Ready, NEW now, answer.graph = BuildGraphPayload(failures),
         answer.findings = ValidateBundle(failures, now)
  PROVE  FindingsAgreeWithGraph
<1> SUFFICES ASSUME NEW c \in concepts
             PROVE  LET node == answer.graph.nodes[c]
                        found(code) == {f \in answer.findings : f.uri = c.doc.uri /\ f.code = code}
                    IN /\ node.orphan <=> found("orphan") # {}
                       /\ node.broken = Cardinality(found("broken"))
                       /\ node.failed <=> \E f \in answer.findings : f.uri = c.doc.uri /\ f.at = At(c.path)
  BY DEF FindingsAgreeWithGraph
<1> DEFINE sound == Sound(failures)
           findings == ValidateBundle(failures, now)
           node == BuildGraphPayload(failures).nodes[c]
           found == {f \in findings : f.uri = c.doc.uri /\ f.code = "broken"}
           shown == {b \in BrokenLinks(sound) : b.source = c.id}
           isolated == ~\E e \in Edges(sound) : c.id \in {e.source, e.target}
<1>1. /\ node.failed = (c \notin sound)
      /\ node.orphan = (c \in sound /\ isolated)
      /\ node.broken = IF c \notin sound THEN 0 ELSE Cardinality(shown)
  BY NodeShows
<1>2. (\E f \in findings : f.uri = c.doc.uri /\ f.code = "orphan") <=> c \in sound /\ isolated
  BY OrphansFound, EdgesConnect
<1>3. (\E f \in findings : f.uri = c.doc.uri /\ f.at = At(c.path)) <=> c \notin sound
  BY FailuresFound
<1>4. node.broken = Cardinality(found)
  <2>1. found = IF c \in sound THEN {Curation(c, "broken", LinkAt(i)) : i \in Links(c, "broken")} ELSE {}
    BY BrokenFound
  <2>2. CASE c \in sound
    BY <1>1, <2>1, <2>2, BrokenCounted
  <2>3. CASE c \notin sound
    BY <1>1, <2>1, <2>3, FS_EmptySet
  <2>4. QED
    BY <2>2, <2>3
<1>5. {f \in findings : f.uri = c.doc.uri /\ f.code = "orphan"} # {}
        <=> \E f \in findings : f.uri = c.doc.uri /\ f.code = "orphan"
  OBVIOUS
<1> HIDE DEF findings, node, isolated, sound
<1>6. node.orphan <=> {f \in findings : f.uri = c.doc.uri /\ f.code = "orphan"} # {}
  BY <1>1, <1>2, <1>5
<1>7. node.failed <=> \E f \in findings : f.uri = c.doc.uri /\ f.at = At(c.path)
  BY <1>1, <1>3
<1>8. QED
  BY <1>4, <1>6, <1>7 DEF node, findings

(* An inspection publishes both of the failures that are known now.        *)
Validated ==
  answer.status = "inspected" =>
    /\ answer.graph = BuildGraphPayload(failures)
    /\ \E now \in Times : answer.findings = ValidateBundle(failures, now)

(* Until the request the concepts stay apart, then the answer agrees.      *)
AgreementInvariant ==
  /\ answer = NoAnswer => ApartInvariant
  /\ answer # NoAnswer => phase = "parsed" /\ Ready /\ Validated

(* The findings depend on the bundle and the failures alone.               *)
LEMMA FindingsAlike ==
  ASSUME UNCHANGED <<concepts, reserved>>
  PROVE  \A now : ValidateBundle(failures, now)' = ValidateBundle(failures', now)
<1>1. Sound(failures)' = Sound(failures')
  BY DEF Sound, Failed
<1>2. QED
  BY <1>1 DEF ValidateBundle

(* An answer with a graph has the status of its operation.                 *)
LEMMA InspectedOnly ==
  ASSUME NEW all, NEW findings, NEW operation, Published(all, findings, operation).status = "inspected"
  PROVE  /\ operation = "inspected"
         /\ Published(all, findings, operation).graph = BuildGraphPayload(all)
         /\ Published(all, findings, operation).findings = findings
BY DEF Published

(* A request answers of the bundle and the failures it knows.              *)
LEMMA RequestAgrees ==
  ASSUME ApartInvariant, NamesToldApart, Request
  PROVE  phase' = "parsed" /\ Ready' /\ Validated'
<1>1. phase = "parsed" /\ UNCHANGED <<concepts, reserved, phase>>
  BY DEF Request, Validate, Inspect, Graph, vars
<1>2. \A f \in failures' : f \in failures \/ f \in ReaderFailures
  BY DEF Request, Validate, Inspect, Graph, vars
<1>3. Ready'
  <2>1. Ready
    BY <1>1, ParsedIsReady
  <2>2. \A f \in failures' : f.reason \in Reasons
    BY <1>2, <2>1, ReaderAssumption DEF Ready
  <2>3. Ids' = Ids
    BY <1>1 DEF Ids
  <2>4. QED
    BY <1>1, <2>1, <2>2, <2>3 DEF Ready, Links
<1>4. ASSUME answer'.status = "inspected"
      PROVE  /\ answer'.graph = BuildGraphPayload(failures')
             /\ \E now \in Times : answer'.findings = ValidateBundle(failures', now)
  <2>1. ASSUME Graph PROVE FALSE
    <3>1. answer' = Published(failures', {}, "graphed")
      BY <2>1 DEF Graph, vars
    <3>2. QED
      BY <1>4, <3>1, InspectedOnly
  <2>2. ASSUME NEW now, Validate(now) PROVE FALSE
    BY <1>4, <2>2 DEF Validate, Refusal
  <2>3. ASSUME NEW now \in Times \cup {NoTime}, NEW more, Inspect(now, more)
        PROVE  /\ now \in Times
               /\ answer' = Published(failures', ValidateBundle(failures', now), "inspected")
    BY <1>4, <2>3 DEF Inspect, Refusal
  <2>4. PICK now \in Times : answer' = Published(failures', ValidateBundle(failures', now), "inspected")
    BY <2>1, <2>2, <2>3, Zenon DEF Request
  <2>5. /\ answer'.graph = BuildGraphPayload(failures')
        /\ answer'.findings = ValidateBundle(failures', now)
    BY <1>4, <2>4, InspectedOnly
  <2>6. QED
    BY <2>5
<1>5. Validated'
  <2>1. BuildGraphPayload(failures)' = BuildGraphPayload(failures')
    BY <1>1, GraphAlike
  <2>2. \A now : ValidateBundle(failures, now)' = ValidateBundle(failures', now)
    BY <1>1, FindingsAlike
  <2>3. QED
    BY <1>4, <2>1, <2>2 DEF Validated
<1>6. QED
  BY <1>1, <1>3, <1>5

(* Before the first document nothing is kept.                              *)
LEMMA InitialApart == Init => ApartInvariant
<1> SUFFICES ASSUME Init PROVE ApartInvariant
  OBVIOUS
<1>1. LinkInvariant
  BY InitialLinks
<1>2. concepts = {} /\ failures = {} /\ decoded = <<>>
  BY DEF Init
<1>3. ToSet(decoded) = {}
  BY <1>2 DEF ToSet
<1>4. QED
  BY <1>1, <1>2, <1>3 DEF ApartInvariant, ApartInv

(* The invariant behind the agreement.                                     *)
THEOREM AgreementInvariantHolds == InspectionSpec /\ NamesToldApart => []AgreementInvariant
<1>1. InspectionInit => AgreementInvariant
  BY InitialApart DEF InspectionInit, AgreementInvariant
<1>2. InspectionInvariant /\ InspectionInvariant' /\ NamesToldApart /\ AgreementInvariant
        /\ [InspectionNext]_inspectionVars => AgreementInvariant'
  <2> SUFFICES ASSUME InspectionInvariant, InspectionInvariant', NamesToldApart, AgreementInvariant,
                      [InspectionNext]_inspectionVars
               PROVE  AgreementInvariant'
    OBVIOUS
  <2>1. CASE Request
    <3>1. answer = NoAnswer
      BY <2>1 DEF Request, Validate, Inspect, Graph
    <3>2. answer' # NoAnswer
      BY <2>1, <3>1, RequestAnswers DEF InspectionInvariant
    <3>3. QED
      BY <2>1, <3>1, <3>2, RequestAgrees DEF AgreementInvariant
  <2>2. CASE [Next]_vars /\ UNCHANGED answer /\ answer = NoAnswer
    <3>1. ReportInvariant'
      BY <2>2 DEF InspectionInvariant, WholeInvariant
    <3>2. ApartInvariant'
      BY <2>2, <3>1, StepApart DEF AgreementInvariant
    <3>3. QED
      BY <2>2, <3>2 DEF AgreementInvariant
  <2>3. CASE [Next]_vars /\ UNCHANGED answer /\ answer # NoAnswer
    <3>1. ~Next
      BY <2>3 DEF InspectionInvariant, Next, RefuseBundle, AcceptBundle, FirstPass, BeginInspection, SecondPass,
                  Finish, RejectIdentity, IgnoreOther, RejectPath, RejectDuplicate, Decode, Named, Located, Turn,
                  KeepIdentity, SkipRest, DropDocument, KeepReserved, KeepConcept, Inspected, Turn2
    <3>2. UNCHANGED <<vars, answer>>
      BY <2>3, <3>1
    <3>3. phase' = "parsed" /\ Ready'
      BY <2>3, <3>2 DEF AgreementInvariant, Ready, Links, Ids, vars
    <3>4. Validated'
      <4>1. BuildGraphPayload(failures)' = BuildGraphPayload(failures')
        BY <3>2, GraphAlike DEF vars
      <4>2. \A now : ValidateBundle(failures, now)' = ValidateBundle(failures', now)
        BY <3>2, FindingsAlike DEF vars
      <4>3. QED
        BY <2>3, <3>2, <4>1, <4>2 DEF AgreementInvariant, Validated, vars
    <3>5. QED
      BY <2>3, <3>3, <3>4 DEF AgreementInvariant
  <2>4. QED
    BY <2>1, <2>2, <2>3 DEF InspectionNext, inspectionVars
<1>3. NamesToldApart /\ [InspectionNext]_inspectionVars => NamesToldApart'
  <2> SUFFICES ASSUME NamesToldApart, [InspectionNext]_inspectionVars PROVE NamesToldApart'
    OBVIOUS
  <2>1. UNCHANGED input
    <3>1. CASE Request
      BY <3>1 DEF Request, Validate, Inspect, Graph, vars
    <3>2. CASE [Next]_vars
      BY <3>2, InputStays
    <3>3. QED
      BY <3>1, <3>2 DEF InspectionNext, inspectionVars
  <2>2. QED
    BY <2>1 DEF NamesToldApart
<1>4. QED
  BY InspectionInvariantHolds, <1>1, <1>2, <1>3, PTL DEF InspectionSpec

(* What an inspection says of its bundle is said twice, in the findings    *)
(* and in the graph: whatever the documents, the limits and the reader's   *)
(* failures are, both agree on what is isolated, what is broken and what   *)
(* failed - unless two documents share an identifier.                      *)
THEOREM FindingsAndGraphAgree ==
  InspectionSpec /\ NamesToldApart => []FindingsAgreeWithGraph
<1>1. AgreementInvariant => FindingsAgreeWithGraph
  <2>1. ASSUME answer = NoAnswer PROVE FindingsAgreeWithGraph
    BY <2>1 DEF NoAnswer, FindingsAgreeWithGraph
  <2>2. ASSUME answer # NoAnswer, AgreementInvariant PROVE FindingsAgreeWithGraph
    <3>1. CASE answer.status = "inspected"
      BY <2>2, <3>1, InspectionAgrees DEF AgreementInvariant, Validated
    <3>2. CASE answer.status # "inspected"
      BY <3>2 DEF FindingsAgreeWithGraph
    <3>3. QED
      BY <3>1, <3>2
  <2>3. QED
    BY <2>1, <2>2
<1>2. QED
  BY AgreementInvariantHolds, <1>1, PTL

-------------------------------------------------------------------------------
(* Folds.                                                                  *)

(* A nonempty set of numbers has a least one.                              *)
LEMMA LeastOf ==
  ASSUME NEW T \in SUBSET Nat, T # {}
  PROVE  \E x \in T : \A y \in T : x <= y
<1> DEFINE R == OpToRel(<, Nat)
<1>1. IsWellFoundedOn(R, Nat)
  BY NatLessThanWellFounded
<1>2. \A x, y \in Nat : <<x, y>> \in R <=> x < y
  BY DEF OpToRel
<1> HIDE DEF R
<1>3. PICK x \in T : \A y \in T : ~(<<y, x>> \in R)
  BY <1>1, WFMin
<1>4. \A y \in T : x <= y
  <2> TAKE y \in T
  <2>1. x \in Nat /\ y \in Nat
    OBVIOUS
  <2>2. ~(y < x)
    BY <1>2, <1>3, <2>1
  <2> QED
    BY <2>1, <2>2
<1> QED
  BY <1>4

(* A nonempty set of positions has a last one.                             *)
LEMMA LastOf ==
  ASSUME NEW n \in Nat, NEW S \in SUBSET (1..n), S # {}
  PROVE  Max(S) \in S /\ \A y \in S : y <= Max(S)
<1> DEFINE T == {n - x : x \in S}
<1>1. T \in SUBSET Nat
  <2>1. \A x \in S : n - x \in Nat
    OBVIOUS
  <2> QED
    BY <2>1
<1>5. T # {}
  <2>1. PICK x \in S : TRUE
    OBVIOUS
  <2> QED
    BY <2>1
<1> HIDE DEF T
<1>2. PICK d \in T : \A y \in T : d <= y
  BY <1>1, <1>5, LeastOf
<1> USE DEF T
<1>3. PICK x \in S : d = n - x
  OBVIOUS
<1>4. \A y \in S : x >= y
  <2> TAKE y \in S
  <2>1. n - x <= n - y
    BY <1>2, <1>3
  <2> QED
    BY <2>1
<1> QED
  BY <1>4 DEF Max

(* The positions up to k, one by one.                                      *)
LEMMA Positions ==
  ASSUME NEW k \in Nat, k # 0
  PROVE  Max(1..k) = k /\ (1..k) \ {k} = 1..(k - 1) /\ 1..k # {}
<1>1. k \in 1..k
  OBVIOUS
<1>2. Max(1..k) \in 1..k /\ \A y \in 1..k : y <= Max(1..k)
  BY <1>1, LastOf
<1> QED
  BY <1>1, <1>2

(* Without its last one, what remains of the positions up to k.            *)
LEMMA RestOf ==
  ASSUME NEW k \in Nat, NEW S \in SUBSET (1..k), S # {}
  PROVE  Max(S) \in 1..k /\ S \ {Max(S)} \in SUBSET (1..(k - 1))
<1>1. Max(S) \in S /\ \A y \in S : y <= Max(S)
  BY LastOf
<1> HIDE DEF Max
<1>2. Max(S) \in 1..k
  BY <1>1
<1>3. \A y \in S \ {Max(S)} : y \in 1..(k - 1)
  <2> TAKE y \in S \ {Max(S)}
  <2>1. y \in 1..k /\ y <= Max(S) /\ y # Max(S)
    BY <1>1
  <2> QED
    BY <1>2, <2>1
<1> QED
  BY <1>2, <1>3

(* f is the function that a fold over the first k positions is made of.    *)
Folding(f, k, b, step) ==
  f = [S \in SUBSET (1..k) |-> IF S = {} THEN b ELSE step[<<f[S \ {Max(S)}], Max(S)>>]]

(* There is such a function over no position, from k - 1 positions one     *)
(* over k positions, and so one over any number of them.                   *)
LEMMA FoldStarts ==
  ASSUME NEW b, NEW V, b \in V, NEW step
  PROVE  \E f \in [SUBSET (1..0) -> V] : Folding(f, 0, b, step)
<1> DEFINE f == [S \in SUBSET (1..0) |-> b]
<1>1. SUBSET (1..0) = {{}}
  OBVIOUS
<1>2. f \in [SUBSET (1..0) -> V]
  OBVIOUS
<1>3. Folding(f, 0, b, step)
  BY <1>1 DEF Folding
<1> QED
  BY <1>2, <1>3

LEMMA FoldContinues ==
  ASSUME NEW n \in Nat, NEW V, NEW b \in V, NEW step \in [V \X (1..n) -> V],
         NEW k \in 1..n, NEW g \in [SUBSET (1..(k - 1)) -> V], Folding(g, k - 1, b, step)
  PROVE  \E f \in [SUBSET (1..k) -> V] : Folding(f, k, b, step)
<1> DEFINE f == [S \in SUBSET (1..k) |-> IF S = {} THEN b ELSE step[<<g[S \ {Max(S)}], Max(S)>>]]
<1>1. \A S \in SUBSET (1..k) : S # {} =>
        Max(S) \in 1..k /\ S \ {Max(S)} \in SUBSET (1..(k - 1))
  BY RestOf
<1>2. ASSUME NEW S \in SUBSET (1..k)
      PROVE  (IF S = {} THEN b ELSE step[<<g[S \ {Max(S)}], Max(S)>>]) \in V
  <2>1. CASE S = {}
    BY <2>1
  <2>2. CASE S # {}
    <3>1. g[S \ {Max(S)}] \in V /\ Max(S) \in 1..n
      BY <1>1, <2>2
    <3>2. <<g[S \ {Max(S)}], Max(S)>> \in V \X (1..n)
      BY <3>1
    <3>3. step[<<g[S \ {Max(S)}], Max(S)>>] \in V
      BY <3>2
    <3> QED
      BY <2>2, <3>3
  <2> QED
    BY <2>1, <2>2
<1>7. f \in [SUBSET (1..k) -> V]
  BY <1>2
<1>3. \A S \in SUBSET (1..(k - 1)) : S \in SUBSET (1..k) /\ f[S] = g[S]
  <2> TAKE S \in SUBSET (1..(k - 1))
  <2>1. S \in SUBSET (1..k)
    OBVIOUS
  <2>2. g[S] = IF S = {} THEN b ELSE step[<<g[S \ {Max(S)}], Max(S)>>]
    BY DEF Folding
  <2> QED
    BY <2>1, <2>2
<1>4. \A S \in SUBSET (1..k) : f[S] = IF S = {} THEN b ELSE step[<<f[S \ {Max(S)}], Max(S)>>]
  <2> TAKE S \in SUBSET (1..k)
  <2>1. CASE S = {}
    BY <2>1
  <2>2. CASE S # {}
    <3>1. f[S \ {Max(S)}] = g[S \ {Max(S)}]
      BY <1>1, <1>3, <2>2
    <3>2. f[S] = step[<<g[S \ {Max(S)}], Max(S)>>]
      BY <2>2
    <3> QED
      BY <2>2, <3>1, <3>2
  <2> QED
    BY <2>1, <2>2
<1>5. f = [S \in SUBSET (1..k) |-> IF S = {} THEN b ELSE step[<<f[S \ {Max(S)}], Max(S)>>]]
  <2> HIDE DEF f
  <2> QED
    BY <1>7, <1>4
<1>6. Folding(f, k, b, step)
  <2> HIDE DEF f
  <2> QED
    BY <1>5 DEF Folding
<1> QED
  <2> HIDE DEF f
  <2> QED
    BY <1>7, <1>6

LEMMA FoldExists ==
  ASSUME NEW n \in Nat, NEW V, NEW b \in V, NEW step \in [V \X (1..n) -> V]
  PROVE  \E f \in [SUBSET (1..n) -> V] : Folding(f, n, b, step)
<1> DEFINE T == {k \in 0..n : ~\E f \in [SUBSET (1..k) -> V] : Folding(f, k, b, step)}
<1> SUFFICES ASSUME T # {} PROVE FALSE
  <2>1. n \in 0..n
    OBVIOUS
  <2> QED
    BY <2>1
<1>1. T \in SUBSET Nat
  OBVIOUS
<1>2. PICK k \in T : \A y \in T : k <= y
  <2> HIDE DEF T
  <2> QED
    BY <1>1, LeastOf
<1>3. k # 0
  <2>1. \E f \in [SUBSET (1..0) -> V] : Folding(f, 0, b, step)
    BY FoldStarts
  <2> QED
    BY <2>1
<1>4. k - 1 \in 0..n /\ k \in 1..n /\ ~(k <= k - 1)
  BY <1>3
<1>5. PICK g \in [SUBSET (1..(k - 1)) -> V] : Folding(g, k - 1, b, step)
  BY <1>2, <1>4
<1>6. \E f \in [SUBSET (1..k) -> V] : Folding(f, k, b, step)
  BY <1>4, <1>5, FoldContinues
<1> QED
  BY <1>6

(* Paths.                                                                  *)

(* The provers do not know that a literal is a string.                     *)
Letters == STRING \cup {"/", ".", "md", "a"}

Marks == Letters \X Nat

Paths == Seq(Marks)

(* What a path is parted into, mark by mark.                               *)
Partings == Seq(Paths) \ {<<>>}

SplitStep(parts, t) ==
  IF t = Slash THEN Append(parts, <<>>) ELSE Append(Front(parts), Append(Last(parts), t))

(* One step keeps the type.                                                *)
LEMMA SplitStepType ==
  ASSUME NEW parts \in Partings, NEW t \in Marks
  PROVE  SplitStep(parts, t) \in Partings
<1>1. Front(parts) \in Seq(Paths) /\ Last(parts) \in Paths
  BY DEF Front, Last, Partings
<1>2. Append(Last(parts), t) \in Paths
  BY <1>1 DEF Paths
<1>3. Append(Front(parts), Append(Last(parts), t)) \in Partings
  <2> HIDE DEF Front, Last, Paths
  <2> QED
    BY <1>1, <1>2 DEF Partings
<1>4. Append(parts, <<>>) \in Partings
  BY DEF Partings, Paths
<1> QED
  BY <1>3, <1>4 DEF SplitStep

(* The segments of a path are the last of a sequence of steps.  The        *)
(* equation that a fold chooses its function by has a solution, therefore  *)
(* what it chooses solves it, and its values at the first k positions are  *)
(* the steps.                                                              *)
LEMMA SegmentsTrace ==
  ASSUME NEW p \in Paths
  PROVE  \E t : /\ t[0] = <<<<>>>>
                /\ \A k \in 1..Len(p) : t[k] = SplitStep(t[k - 1], p[k])
                /\ Segments(p) = t[Len(p)]
<1> DEFINE Fold(f) == [S \in SUBSET (1..Len(p)) |->
                         IF S = {} THEN <<<<>>>> ELSE SplitStep(f[S \ {Max(S)}], p[Max(S)])]
           step == [x \in Partings \X (1..Len(p)) |-> SplitStep(x[1], p[x[2]])]
           folded == CHOOSE f : f = Fold(f)
<1>1. Len(p) \in Nat /\ DOMAIN p = 1..Len(p) /\ \A k \in 1..Len(p) : p[k] \in Marks
  BY DEF Paths
<1>2. Segments(p) = folded[1..Len(p)]
  BY <1>1 DEF Segments, SplitStep, FoldLeft, MapThenFoldSet
<1>3. <<<<>>>> \in Partings
  BY DEF Partings, Paths
<1>4. step \in [Partings \X (1..Len(p)) -> Partings]
  BY <1>1, SplitStepType
<1>5. PICK f \in [SUBSET (1..Len(p)) -> Partings] : Folding(f, Len(p), <<<<>>>>, step)
  <2> HIDE DEF step
  <2> QED
    BY <1>1, <1>3, <1>4, FoldExists
<1>6. \A S \in SUBSET (1..Len(p)) : S # {} =>
        step[<<f[S \ {Max(S)}], Max(S)>>] = SplitStep(f[S \ {Max(S)}], p[Max(S)])
  <2> TAKE S \in SUBSET (1..Len(p))
  <2> HAVE S # {}
  <2>1. Max(S) \in 1..Len(p) /\ S \ {Max(S)} \in SUBSET (1..Len(p))
    BY <1>1, RestOf
  <2>2. <<f[S \ {Max(S)}], Max(S)>> \in Partings \X (1..Len(p))
    BY <1>5, <2>1
  <2> QED
    BY <2>2
<1>7. f = Fold(f)
  <2> HIDE DEF step
  <2> QED
    BY <1>5, <1>6 DEF Folding
<1>8. folded = Fold(folded)
  <2> HIDE DEF Fold
  <2> QED
    BY <1>7, Zenon
<1> HIDE DEF folded
<1> DEFINE t == [k \in 0..Len(p) |-> folded[1..k]]
<1>9. t[0] = <<<<>>>>
  <2>1. folded[{}] = <<<<>>>>
    BY <1>8
  <2> QED
    BY <1>1, <2>1
<1>10. ASSUME NEW k \in 1..Len(p)
       PROVE  t[k] = SplitStep(t[k - 1], p[k])
  <2>1. Max(1..k) = k /\ (1..k) \ {k} = 1..(k - 1) /\ 1..k # {}
    BY Positions
  <2>2. 1..k \in SUBSET (1..Len(p)) /\ k \in 0..Len(p) /\ k - 1 \in 0..Len(p)
    BY <1>1
  <2>3. folded[1..k] = SplitStep(folded[(1..k) \ {Max(1..k)}], p[Max(1..k)])
    BY <1>8, <2>1, <2>2
  <2> QED
    BY <2>1, <2>2, <2>3
<1>11. Segments(p) = t[Len(p)]
  BY <1>1, <1>2
<1> QED
  <2> HIDE DEF t
  <2> QED
    BY <1>9, <1>10, <1>11

(* Induction over the steps: where every step leads from a good value to a *)
(* good value, the last one is good.                                       *)
LEMMA TraceStays ==
  ASSUME NEW n \in Nat, NEW m \in 0..n, NEW t, NEW Good, t[m] \in Good,
         \A k \in (m + 1)..n : t[k - 1] \in Good => t[k] \in Good
  PROVE  t[n] \in Good
<1> DEFINE T == {k \in m..n : t[k] \notin Good}
<1> SUFFICES ASSUME T # {} PROVE FALSE
  <2>1. n \in m..n
    OBVIOUS
  <2> QED
    BY <2>1
<1>1. T \in SUBSET Nat
  OBVIOUS
<1>2. PICK k \in T : \A y \in T : k <= y
  <2> HIDE DEF T
  <2> QED
    BY <1>1, LeastOf
<1>3. k \in (m + 1)..n
  OBVIOUS
<1>4. k - 1 \in m..n /\ ~(k <= k - 1)
  BY <1>3
<1>5. t[k - 1] \in Good
  BY <1>2, <1>4
<1> QED
  BY <1>3, <1>5

Fates == {"open", "refused", "stable"}

(* The decoding of a path, round by round.                                 *)
Spellings == [path : Paths, fate : Fates]

UnescapeStep(s) ==
  IF s.fate # "open" THEN s
  ELSE IF PlainMarks(s.path) \cap (Controls \cup {"%"}) # {} THEN [s EXCEPT !.fate = "refused"]
  ELSE IF PercentDecode(s.path) = s.path THEN [s EXCEPT !.fate = "stable"]
  ELSE [s EXCEPT !.path = Slashes(PercentDecode(@))]

(* A path remains one when it is decoded or its backslashes are turned.    *)
LEMMA SpellingTypes ==
  ASSUME NEW p \in Paths
  PROVE  /\ Slashes(p) \in Paths /\ Len(Slashes(p)) = Len(p)
         /\ Slashes(Slashes(p)) = Slashes(p)
         /\ PercentDecode(p) \in Paths
<1>1. Len(p) \in Nat /\ DOMAIN p = 1..Len(p) /\ \A k \in 1..Len(p) : p[k] \in Letters \X Nat
  BY DEF Paths, Marks
<1>2. \A k \in 1..Len(p) : p[k] = <<p[k][1], p[k][2]>> /\ p[k][1] \in Letters /\ p[k][2] \in Nat
  BY <1>1
<1>3. Slash \in Letters \X Nat
  BY DEF Slash, Letters
<1>4. Slashes(p) = [i \in 1..Len(p) |-> IF p[i] = Backslash THEN Slash ELSE p[i]]
  BY <1>1 DEF Slashes
<1>5. Slashes(p) \in Paths /\ Len(Slashes(p)) = Len(p) /\ DOMAIN Slashes(p) = 1..Len(p)
  BY <1>1, <1>3, <1>4 DEF Paths, Marks
<1>6. Slashes(Slashes(p)) = Slashes(p)
  <2>1. \A i \in 1..Len(p) : Slashes(p)[i] # Backslash
    BY <1>4 DEF Slash, Backslash
  <2>2. Slashes(Slashes(p)) = [i \in 1..Len(p) |-> Slashes(p)[i]]
    BY <1>5, <2>1, Zenon DEF Slashes
  <2> QED
    BY <1>4, <2>2
<1>7. PercentDecode(p) = [i \in 1..Len(p) |-> <<p[i][1], IF p[i][2] > 0 THEN p[i][2] - 1 ELSE 0>>]
  BY <1>1 DEF PercentDecode
<1>8. \A i \in 1..Len(p) : <<p[i][1], IF p[i][2] > 0 THEN p[i][2] - 1 ELSE 0>> \in Letters \X Nat
  BY <1>2
<1>9. PercentDecode(p) \in Paths
  BY <1>1, <1>7, <1>8 DEF Paths, Marks
<1> QED
  BY <1>5, <1>6, <1>9

(* One round keeps the type.                                               *)
LEMMA UnescapeStepType ==
  ASSUME NEW s \in Spellings
  PROVE  UnescapeStep(s) \in Spellings
<1>1. s.path \in Paths
  BY DEF Spellings
<1>2. Slashes(PercentDecode(s.path)) \in Paths
  BY <1>1, SpellingTypes
<1>3. [s EXCEPT !.path = Slashes(PercentDecode(@))] = [s EXCEPT !.path = Slashes(PercentDecode(s.path))]
  BY DEF Spellings
<1> QED
  BY <1>1, <1>2, <1>3 DEF UnescapeStep, Spellings, Fates

(* What is decoded is the last of a sequence of rounds.                    *)
LEMMA UnescapeTrace ==
  ASSUME NEW p \in Paths
  PROVE  \E t : /\ t[0] = [path |-> Slashes(p), fate |-> "open"]
                /\ \A k \in 1..MaxDecodings : t[k] = UnescapeStep(t[k - 1])
                /\ Unescape(p) = t[MaxDecodings]
<1> DEFINE b == [path |-> Slashes(p), fate |-> "open"]
           Fold(f) == [S \in SUBSET (1..MaxDecodings) |->
                         IF S = {} THEN b ELSE UnescapeStep(f[S \ {Max(S)}])]
           step == [x \in Spellings \X (1..MaxDecodings) |-> UnescapeStep(x[1])]
           folded == CHOOSE f : f = Fold(f)
<1>1. MaxDecodings \in Nat /\ DOMAIN [turn \in 1..MaxDecodings |-> turn] = 1..MaxDecodings
  BY PathLimitsAssumption
<1>2. Unescape(p) = folded[1..MaxDecodings]
  BY <1>1 DEF Unescape, UnescapeStep, FoldLeft, MapThenFoldSet
<1>3. b \in Spellings
  BY SpellingTypes DEF Spellings, Fates
<1> HIDE DEF b
<1>4. step \in [Spellings \X (1..MaxDecodings) -> Spellings]
  BY UnescapeStepType
<1>5. PICK f \in [SUBSET (1..MaxDecodings) -> Spellings] : Folding(f, MaxDecodings, b, step)
  <2> HIDE DEF step
  <2> QED
    BY <1>1, <1>3, <1>4, FoldExists
<1>6. \A S \in SUBSET (1..MaxDecodings) : S # {} =>
        step[<<f[S \ {Max(S)}], Max(S)>>] = UnescapeStep(f[S \ {Max(S)}])
  <2> TAKE S \in SUBSET (1..MaxDecodings)
  <2> HAVE S # {}
  <2>1. Max(S) \in 1..MaxDecodings /\ S \ {Max(S)} \in SUBSET (1..MaxDecodings)
    BY <1>1, RestOf
  <2>2. <<f[S \ {Max(S)}], Max(S)>> \in Spellings \X (1..MaxDecodings)
    BY <1>5, <2>1
  <2> QED
    BY <2>2
<1>7. f = Fold(f)
  <2> HIDE DEF step
  <2> QED
    BY <1>5, <1>6 DEF Folding
<1>8. folded = Fold(folded)
  <2> HIDE DEF Fold
  <2> QED
    BY <1>7, Zenon
<1> HIDE DEF folded
<1> DEFINE t == [k \in 0..MaxDecodings |-> folded[1..k]]
<1>9. t[0] = b
  <2>1. folded[{}] = b
    BY <1>8
  <2> QED
    BY <1>1, <2>1
<1>10. ASSUME NEW k \in 1..MaxDecodings
       PROVE  t[k] = UnescapeStep(t[k - 1])
  <2>1. Max(1..k) = k /\ (1..k) \ {k} = 1..(k - 1) /\ 1..k # {}
    BY Positions
  <2>2. 1..k \in SUBSET (1..MaxDecodings) /\ k \in 0..MaxDecodings /\ k - 1 \in 0..MaxDecodings
    BY <1>1
  <2>3. folded[1..k] = UnescapeStep(folded[(1..k) \ {Max(1..k)}])
    BY <1>8, <2>1, <2>2
  <2> QED
    BY <2>1, <2>2, <2>3
<1>11. Unescape(p) = t[MaxDecodings]
  BY <1>1, <1>2
<1> QED
  <2> HIDE DEF t
  <2> QED
    BY <1>9, <1>10, <1>11 DEF b

(* A path that is its own last spelling.                                   *)
Plain(path) == PlainMarks(path) \cap (Controls \cup {"%"}) = {}

LastSpelling(path) == Slashes(path) = path /\ PercentDecode(path) = path /\ Plain(path)

(* A path that is accepted as stable is its own last spelling.             *)
LEMMA UnescapeSettles ==
  ASSUME NEW p \in Paths
  PROVE  /\ Unescape(p) \in Spellings
         /\ Unescape(p).fate = "stable" => LastSpelling(Unescape(p).path) /\ MaxDecodings # 0
<1> DEFINE Good == {s \in Spellings : Slashes(s.path) = s.path /\ (s.fate = "stable" => LastSpelling(s.path))}
<1>1. PICK t : /\ t[0] = [path |-> Slashes(p), fate |-> "open"]
               /\ \A k \in 1..MaxDecodings : t[k] = UnescapeStep(t[k - 1])
               /\ Unescape(p) = t[MaxDecodings]
  BY UnescapeTrace
<1>2. t[0] \in Good
  BY <1>1, SpellingTypes DEF Spellings, Fates
<1>3. ASSUME NEW s \in Good
      PROVE  UnescapeStep(s) \in Good
  <2>1. s \in Spellings /\ s.path \in Paths /\ Slashes(s.path) = s.path
    <3>1. s \in Spellings /\ Slashes(s.path) = s.path
      OBVIOUS
    <3> QED
      BY <3>1 DEF Spellings
  <2>2. CASE s.fate # "open"
    BY <2>2 DEF UnescapeStep
  <2>3. CASE s.fate = "open" /\ ~Plain(s.path)
    BY <2>1, <2>3 DEF UnescapeStep, Plain, Spellings, Fates
  <2>4. CASE s.fate = "open" /\ Plain(s.path) /\ PercentDecode(s.path) = s.path
    <3>1. UnescapeStep(s) = [s EXCEPT !.fate = "stable"]
      BY <2>4 DEF UnescapeStep, Plain
    <3> QED
      BY <2>1, <2>4, <3>1 DEF LastSpelling, Spellings, Fates
  <2>5. CASE s.fate = "open" /\ Plain(s.path) /\ PercentDecode(s.path) # s.path
    <3>1. UnescapeStep(s) = [s EXCEPT !.path = Slashes(PercentDecode(@))]
      BY <2>5 DEF UnescapeStep, Plain
    <3>2. UnescapeStep(s).path = Slashes(PercentDecode(s.path)) /\ UnescapeStep(s).fate = "open"
      BY <2>1, <2>5, <3>1 DEF Spellings
    <3>3. Slashes(UnescapeStep(s).path) = UnescapeStep(s).path
      BY <2>1, <3>2, SpellingTypes
    <3>4. UnescapeStep(s) \in Spellings
      BY <2>1, UnescapeStepType
    <3> QED
      BY <3>2, <3>3, <3>4
  <2> QED
    BY <2>2, <2>3, <2>4, <2>5
<1>4. \A k \in 1..MaxDecodings : t[k - 1] \in Good => t[k] \in Good
  <2> HIDE DEF Good
  <2> QED
    BY <1>1, <1>3
<1>5. t[MaxDecodings] \in Good
  <2> HIDE DEF Good
  <2>1. 0 \in 0..MaxDecodings
    BY PathLimitsAssumption
  <2> QED
    BY <1>2, <1>4, <2>1, PathLimitsAssumption, TraceStays
<1>6. Unescape(p).fate = "stable" => MaxDecodings # 0
  BY <1>1
<1>7. Unescape(p) \in Good
  BY <1>1, <1>5
<1> QED
  BY <1>6, <1>7

(* A path that is settled is found again at once.                          *)
LEMMA UnescapeAgain ==
  ASSUME NEW q \in Paths, LastSpelling(q), MaxDecodings # 0
  PROVE  Unescape(q) = [path |-> q, fate |-> "stable"]
<1> DEFINE final == [path |-> q, fate |-> "stable"]
<1>1. PICK t : /\ t[0] = [path |-> Slashes(q), fate |-> "open"]
               /\ \A k \in 1..MaxDecodings : t[k] = UnescapeStep(t[k - 1])
               /\ Unescape(q) = t[MaxDecodings]
  BY UnescapeTrace
<1>2. 1 \in 1..MaxDecodings /\ 1 \in 0..MaxDecodings
  BY PathLimitsAssumption
<1>3. t[1] = UnescapeStep([path |-> q, fate |-> "open"])
  <2>1. t[1] = UnescapeStep(t[1 - 1])
    BY <1>1, <1>2
  <2> QED
    BY <1>1, <2>1 DEF LastSpelling
<1>4. t[1] = final
  BY <1>3 DEF UnescapeStep, LastSpelling, Plain
<1>5. UnescapeStep(final) = final
  BY DEF UnescapeStep
<1>6. \A k \in (1 + 1)..MaxDecodings : t[k - 1] \in {final} => t[k] \in {final}
  <2> HIDE DEF final
  <2> QED
    BY <1>1, <1>5
<1>7. t[MaxDecodings] \in {final}
  <2> HIDE DEF final
  <2>1. t[1] \in {final}
    BY <1>4
  <2> QED
    BY <1>2, <1>6, <2>1, PathLimitsAssumption, TraceStays
<1> QED
  BY <1>1, <1>7

(* The segments of a path: what its last mark and its first two tell.      *)
LEMMA SegmentsEnd ==
  ASSUME NEW q \in Paths, q # <<>>
  PROVE  /\ Segments(q) \in Partings
         /\ Last(q) = Slash => Last(Segments(q)) = <<>>
         /\ Last(q) # Slash => Last(Segments(q)) # <<>> /\ Last(Last(Segments(q))) = Last(q)
<1>1. PICK t : /\ t[0] = <<<<>>>>
               /\ \A k \in 1..Len(q) : t[k] = SplitStep(t[k - 1], q[k])
               /\ Segments(q) = t[Len(q)]
  BY SegmentsTrace
<1>2. Len(q) \in Nat /\ Len(q) # 0 /\ \A k \in 1..Len(q) : q[k] \in Marks
  BY DEF Paths
<1>3. ASSUME NEW n \in 0..Len(q)
      PROVE  t[n] \in Partings
  <2>1. t[0] \in Partings
    BY <1>1 DEF Partings, Paths
  <2>2. \A k \in 1..n : t[k - 1] \in Partings => t[k] \in Partings
    BY <1>1, <1>2, SplitStepType
  <2>3. 0 \in 0..n /\ n \in Nat
    BY <1>2
  <2> HIDE DEF Partings
  <2> QED
    BY <2>1, <2>2, <2>3, TraceStays
<1>4. Len(q) - 1 \in 0..Len(q) /\ Len(q) \in 1..Len(q) /\ Last(q) = q[Len(q)]
  BY <1>2 DEF Last
<1> DEFINE parts == t[Len(q) - 1]
<1>5. parts \in Partings /\ Segments(q) = SplitStep(parts, Last(q)) /\ Last(q) \in Marks
  BY <1>1, <1>2, <1>3, <1>4
<1> HIDE DEF parts
<1>6. Segments(q) \in Partings
  BY <1>5, SplitStepType
<1>7. CASE Last(q) = Slash
  <2>1. Segments(q) = Append(parts, <<>>)
    BY <1>5, <1>7 DEF SplitStep
  <2>2. Last(Append(parts, <<>>)) = <<>>
    BY <1>5 DEF Last, Partings
  <2> QED
    BY <1>6, <1>7, <2>1, <2>2
<1>8. CASE Last(q) # Slash
  <2>1. Segments(q) = Append(Front(parts), Append(Last(parts), Last(q)))
    BY <1>5, <1>8 DEF SplitStep
  <2>2. Front(parts) \in Seq(Paths) /\ Last(parts) \in Paths
    BY <1>5 DEF Front, Last, Partings
  <2>3. Append(Last(parts), Last(q)) # <<>> /\ Last(Append(Last(parts), Last(q))) = Last(q)
    <3> DEFINE part == Last(parts)
               mark == Last(q)
    <3>1. part \in Seq(Marks) /\ mark \in Marks
      BY <1>5, <2>2 DEF Paths
    <3> HIDE DEF part, mark
    <3>2. Append(part, mark) # <<>> /\ Last(Append(part, mark)) = mark
      BY <3>1 DEF Last
    <3> QED
      BY <3>2 DEF part, mark
  <2>4. Last(Segments(q)) = Append(Last(parts), Last(q))
    <3> DEFINE front == Front(parts)
               part == Append(Last(parts), Last(q))
    <3>1. front \in Seq(Paths)
      BY <2>2
    <3> HIDE DEF front, part
    <3>2. Last(Append(front, part)) = part
      BY <3>1 DEF Last
    <3> QED
      BY <2>1, <3>2 DEF front, part
  <2> QED
    BY <1>6, <1>8, <2>3, <2>4
<1> QED
  BY <1>7, <1>8

(* A path that begins with ./ has a segment that is a period.              *)
LEMMA SegmentsBegin ==
  ASSUME NEW q \in Paths, Len(q) >= 2, q[1] = Period, q[2] = Slash
  PROVE  <<Period>> \in ToSet(Segments(q))
<1> DEFINE Good == {parts \in Partings : Len(parts) >= 2 /\ parts[1] = <<Period>>}
<1>1. PICK t : /\ t[0] = <<<<>>>>
               /\ \A k \in 1..Len(q) : t[k] = SplitStep(t[k - 1], q[k])
               /\ Segments(q) = t[Len(q)]
  BY SegmentsTrace
<1>2. Len(q) \in Nat /\ 1 \in 1..Len(q) /\ 2 \in 1..Len(q) /\ \A k \in 1..Len(q) : q[k] \in Marks
  BY DEF Paths
<1>3. t[1] = <<<<Period>>>>
  <2>1. t[1] = SplitStep(t[1 - 1], q[1])
    BY <1>1, <1>2
  <2>2. t[1] = SplitStep(<<<<>>>>, Period)
    BY <1>1, <2>1
  <2>3. Front(<<<<>>>>) = <<>> /\ Last(<<<<>>>>) = <<>>
    BY DEF Front, Last
  <2> QED
    BY <2>2, <2>3 DEF SplitStep, Period, Slash
<1>4. t[2] = Append(<<<<Period>>>>, <<>>)
  <2>1. t[2] = SplitStep(t[2 - 1], q[2])
    BY <1>1, <1>2
  <2>2. t[2] = SplitStep(<<<<Period>>>>, Slash)
    BY <1>3, <2>1
  <2> QED
    BY <2>2 DEF SplitStep
<1>5. t[2] \in Good
  <2>1. Period \in Marks
    BY DEF Period, Marks, Letters
  <2>2. <<Period>> \in Paths /\ <<>> \in Paths
    BY <2>1 DEF Paths
  <2> DEFINE one == <<Period>>
             none == <<>>
  <2>3. one \in Paths /\ none \in Paths
    BY <2>2
  <2> HIDE DEF one, none
  <2>4. <<one>> \in Seq(Paths) /\ Len(<<one>>) = 1 /\ <<one>>[1] = one
    BY <2>3
  <2>5. /\ Append(<<one>>, none) \in Seq(Paths) /\ Len(Append(<<one>>, none)) = 2
        /\ Append(<<one>>, none)[1] = one
    BY <2>3, <2>4
  <2>6. Append(<<one>>, none) \in Partings
    BY <2>5 DEF Partings
  <2>7. t[2] = Append(<<one>>, none)
    BY <1>4 DEF one, none
  <2>8. t[2] \in Partings /\ Len(t[2]) >= 2 /\ t[2][1] = one
    BY <2>5, <2>6, <2>7
  <2>9. t[2][1] = <<Period>>
    BY <2>8 DEF one
  <2> QED
    BY <2>8, <2>9
<1>6. ASSUME NEW parts \in Good, NEW m \in Marks
      PROVE  SplitStep(parts, m) \in Good
  <2>1. SplitStep(parts, m) \in Partings
    BY SplitStepType
  <2>2. parts \in Seq(Paths) /\ Len(parts) >= 2 /\ parts[1] = <<Period>>
    BY DEF Partings
  <2>3. CASE m = Slash
    <3>1. Len(Append(parts, <<>>)) >= 2 /\ Append(parts, <<>>)[1] = <<Period>>
      BY <2>2
    <3> QED
      BY <2>1, <2>3, <3>1 DEF SplitStep
  <2>4. CASE m # Slash
    <3> DEFINE part == Append(Last(parts), m)
    <3>1. Front(parts) \in Seq(Paths) /\ Len(Front(parts)) >= 1 /\ Front(parts)[1] = <<Period>>
      BY <2>2 DEF Front
    <3> HIDE DEF part
    <3>2. Len(Append(Front(parts), part)) >= 2 /\ Append(Front(parts), part)[1] = <<Period>>
      BY <3>1
    <3> QED
      BY <2>1, <2>4, <3>2 DEF SplitStep, part
  <2> QED
    BY <2>3, <2>4
<1>7. \A k \in (2 + 1)..Len(q) : t[k - 1] \in Good => t[k] \in Good
  <2> HIDE DEF Good
  <2> QED
    BY <1>1, <1>2, <1>6
<1>8. t[Len(q)] \in Good
  <2> HIDE DEF Good
  <2>1. 2 \in 0..Len(q)
    BY <1>2
  <2> QED
    BY <1>2, <1>5, <1>7, <2>1, TraceStays
<1> QED
  BY <1>1, <1>8 DEF ToSet, Partings

(* The two folds of TrimmedPath, and a step of each.                       *)
HeadCut(p) == IF Len(p) >= 2 /\ SubSeq(p, 1, 2) = <<Period, Slash>> THEN SubSeq(p, 3, Len(p)) ELSE p

EndCut(p) == IF Len(p) > 1 /\ Last(p) = Slash THEN Front(p) ELSE p

HeadsCut(path) ==
  FoldLeft(LAMBDA p, turn : IF Len(p) >= 2 /\ SubSeq(p, 1, 2) = <<Period, Slash>>
                             THEN SubSeq(p, 3, Len(p)) ELSE p, Slashes(path), path)

EndsCut(tail, path) ==
  FoldLeft(LAMBDA p, turn : IF Len(p) > 1 /\ Last(p) = Slash THEN Front(p) ELSE p, tail, path)

(* A step keeps the type.                                                  *)
LEMMA CutTypes ==
  ASSUME NEW p \in Paths
  PROVE  HeadCut(p) \in Paths /\ EndCut(p) \in Paths
<1>1. p \in Seq(Marks) /\ Len(p) \in Nat
  BY DEF Paths
<1>2. Len(p) >= 2 => SubSeq(p, 3, Len(p)) \in Seq(Marks)
  BY <1>1
<1>3. Len(p) > 1 => Front(p) \in Seq(Marks)
  BY <1>1 DEF Front
<1> QED
  BY <1>1, <1>2, <1>3 DEF HeadCut, EndCut, Paths

(* These are the folds of TrimmedPath.                                     *)
LEMMA TrimmedByCuts ==
  ASSUME NEW p
  PROVE  TrimmedPath(p) = IF EndsCut(HeadsCut(p), p) = <<>> /\ ~BlankPath(p) THEN <<Period>>
                          ELSE EndsCut(HeadsCut(p), p)
BY DEF TrimmedPath, HeadsCut, EndsCut

(* Both are the last of a sequence of steps.                               *)
LEMMA HeadsCutTrace ==
  ASSUME NEW p \in Paths
  PROVE  \E t : /\ t[0] = Slashes(p)
                /\ \A k \in 1..Len(p) : t[k] = HeadCut(t[k - 1])
                /\ HeadsCut(p) = t[Len(p)]
<1> DEFINE Fold(f) == [S \in SUBSET (1..Len(p)) |->
                         IF S = {} THEN Slashes(p) ELSE HeadCut(f[S \ {Max(S)}])]
           step == [x \in Paths \X (1..Len(p)) |-> HeadCut(x[1])]
           folded == CHOOSE f : f = Fold(f)
<1>1. Len(p) \in Nat /\ DOMAIN p = 1..Len(p)
  BY DEF Paths
<1>2. HeadsCut(p) = folded[1..Len(p)]
  BY <1>1 DEF HeadsCut, HeadCut, FoldLeft, MapThenFoldSet
<1>3. Slashes(p) \in Paths
  BY SpellingTypes
<1>4. step \in [Paths \X (1..Len(p)) -> Paths]
  BY CutTypes
<1>5. PICK f \in [SUBSET (1..Len(p)) -> Paths] : Folding(f, Len(p), Slashes(p), step)
  <2> HIDE DEF step
  <2> QED
    BY <1>1, <1>3, <1>4, FoldExists
<1>6. \A S \in SUBSET (1..Len(p)) : S # {} =>
        step[<<f[S \ {Max(S)}], Max(S)>>] = HeadCut(f[S \ {Max(S)}])
  <2> TAKE S \in SUBSET (1..Len(p))
  <2> HAVE S # {}
  <2>1. Max(S) \in 1..Len(p) /\ S \ {Max(S)} \in SUBSET (1..Len(p))
    BY <1>1, RestOf
  <2>2. <<f[S \ {Max(S)}], Max(S)>> \in Paths \X (1..Len(p))
    BY <1>5, <2>1
  <2> QED
    BY <2>2
<1>7. f = Fold(f)
  <2> HIDE DEF step
  <2> QED
    BY <1>5, <1>6 DEF Folding
<1>8. folded = Fold(folded)
  <2> HIDE DEF Fold
  <2> QED
    BY <1>7, Zenon
<1> HIDE DEF folded
<1> DEFINE t == [k \in 0..Len(p) |-> folded[1..k]]
<1>9. t[0] = Slashes(p)
  <2>1. folded[{}] = Slashes(p)
    BY <1>8
  <2> QED
    BY <1>1, <2>1
<1>10. ASSUME NEW k \in 1..Len(p)
       PROVE  t[k] = HeadCut(t[k - 1])
  <2>1. Max(1..k) = k /\ (1..k) \ {k} = 1..(k - 1) /\ 1..k # {}
    BY Positions
  <2>2. 1..k \in SUBSET (1..Len(p)) /\ k \in 0..Len(p) /\ k - 1 \in 0..Len(p)
    BY <1>1
  <2>3. folded[1..k] = HeadCut(folded[(1..k) \ {Max(1..k)}])
    BY <1>8, <2>1, <2>2
  <2> QED
    BY <2>1, <2>2, <2>3
<1>11. HeadsCut(p) = t[Len(p)]
  BY <1>1, <1>2
<1> QED
  <2> HIDE DEF t
  <2> QED
    BY <1>9, <1>10, <1>11

LEMMA EndsCutTrace ==
  ASSUME NEW p \in Paths, NEW tail \in Paths
  PROVE  \E t : /\ t[0] = tail
                /\ \A k \in 1..Len(p) : t[k] = EndCut(t[k - 1])
                /\ EndsCut(tail, p) = t[Len(p)]
<1> DEFINE Fold(f) == [S \in SUBSET (1..Len(p)) |->
                         IF S = {} THEN tail ELSE EndCut(f[S \ {Max(S)}])]
           step == [x \in Paths \X (1..Len(p)) |-> EndCut(x[1])]
           folded == CHOOSE f : f = Fold(f)
<1>1. Len(p) \in Nat /\ DOMAIN p = 1..Len(p)
  BY DEF Paths
<1>2. EndsCut(tail, p) = folded[1..Len(p)]
  BY <1>1 DEF EndsCut, EndCut, FoldLeft, MapThenFoldSet
<1>4. step \in [Paths \X (1..Len(p)) -> Paths]
  BY CutTypes
<1>5. PICK f \in [SUBSET (1..Len(p)) -> Paths] : Folding(f, Len(p), tail, step)
  <2> HIDE DEF step
  <2> QED
    BY <1>1, <1>4, FoldExists
<1>6. \A S \in SUBSET (1..Len(p)) : S # {} =>
        step[<<f[S \ {Max(S)}], Max(S)>>] = EndCut(f[S \ {Max(S)}])
  <2> TAKE S \in SUBSET (1..Len(p))
  <2> HAVE S # {}
  <2>1. Max(S) \in 1..Len(p) /\ S \ {Max(S)} \in SUBSET (1..Len(p))
    BY <1>1, RestOf
  <2>2. <<f[S \ {Max(S)}], Max(S)>> \in Paths \X (1..Len(p))
    BY <1>5, <2>1
  <2> QED
    BY <2>2
<1>7. f = Fold(f)
  <2> HIDE DEF step
  <2> QED
    BY <1>5, <1>6 DEF Folding
<1>8. folded = Fold(folded)
  <2> HIDE DEF Fold
  <2> QED
    BY <1>7, Zenon
<1> HIDE DEF folded
<1> DEFINE t == [k \in 0..Len(p) |-> folded[1..k]]
<1>9. t[0] = tail
  <2>1. folded[{}] = tail
    BY <1>8
  <2> QED
    BY <1>1, <2>1
<1>10. ASSUME NEW k \in 1..Len(p)
       PROVE  t[k] = EndCut(t[k - 1])
  <2>1. Max(1..k) = k /\ (1..k) \ {k} = 1..(k - 1) /\ 1..k # {}
    BY Positions
  <2>2. 1..k \in SUBSET (1..Len(p)) /\ k \in 0..Len(p) /\ k - 1 \in 0..Len(p)
    BY <1>1
  <2>3. folded[1..k] = EndCut(folded[(1..k) \ {Max(1..k)}])
    BY <1>8, <2>1, <2>2
  <2> QED
    BY <2>1, <2>2, <2>3
<1>11. EndsCut(tail, p) = t[Len(p)]
  BY <1>1, <1>2
<1> QED
  <2> HIDE DEF t
  <2> QED
    BY <1>9, <1>10, <1>11

(* Both keep the type.                                                     *)
LEMMA CutsType ==
  ASSUME NEW p \in Paths, NEW tail \in Paths
  PROVE  HeadsCut(p) \in Paths /\ EndsCut(tail, p) \in Paths
<1>1. Len(p) \in Nat /\ 0 \in 0..Len(p)
  BY DEF Paths
<1>2. HeadsCut(p) \in Paths
  <2>1. PICK t : /\ t[0] = Slashes(p)
                 /\ \A k \in 1..Len(p) : t[k] = HeadCut(t[k - 1])
                 /\ HeadsCut(p) = t[Len(p)]
    BY HeadsCutTrace
  <2>2. \A k \in (0 + 1)..Len(p) : t[k - 1] \in Paths => t[k] \in Paths
    BY <2>1, CutTypes
  <2>3. t[0] \in Paths
    BY <2>1, SpellingTypes
  <2> QED
    BY <1>1, <2>1, <2>2, <2>3, TraceStays
<1>3. EndsCut(tail, p) \in Paths
  <2>1. PICK t : /\ t[0] = tail
                 /\ \A k \in 1..Len(p) : t[k] = EndCut(t[k - 1])
                 /\ EndsCut(tail, p) = t[Len(p)]
    BY EndsCutTrace
  <2>2. \A k \in (0 + 1)..Len(p) : t[k - 1] \in Paths => t[k] \in Paths
    BY <2>1, CutTypes
  <2>3. t[0] \in Paths
    BY <2>1
  <2> QED
    BY <1>1, <2>1, <2>2, <2>3, TraceStays
<1> QED
  BY <1>2, <1>3

LEMMA TrimmedType ==
  ASSUME NEW p \in Paths
  PROVE  TrimmedPath(p) \in Paths
<1>1. EndsCut(HeadsCut(p), p) \in Paths
  BY CutsType
<1>2. Period \in Marks
  BY DEF Period, Marks, Letters
<1>3. <<Period>> \in Paths
  BY <1>2 DEF Paths
<1> QED
  BY <1>1, <1>3, TrimmedByCuts

(* Where there is nothing to cut, nothing is cut.                          *)
LEMMA UncutStays ==
  ASSUME NEW q \in Paths, q # <<>>, Slashes(q) = q, HeadCut(q) = q, EndCut(q) = q
  PROVE  TrimmedPath(q) = q
<1>1. Len(q) \in Nat /\ 0 \in 0..Len(q)
  BY DEF Paths
<1>2. HeadsCut(q) = q
  <2>1. PICK t : /\ t[0] = Slashes(q)
                 /\ \A k \in 1..Len(q) : t[k] = HeadCut(t[k - 1])
                 /\ HeadsCut(q) = t[Len(q)]
    BY HeadsCutTrace
  <2>2. \A k \in (0 + 1)..Len(q) : t[k - 1] \in {q} => t[k] \in {q}
    BY <2>1
  <2>3. t[0] \in {q}
    BY <2>1
  <2>4. t[Len(q)] \in {q}
    BY <1>1, <2>2, <2>3, TraceStays
  <2> QED
    BY <2>1, <2>4
<1>3. EndsCut(q, q) = q
  <2>1. PICK t : /\ t[0] = q
                 /\ \A k \in 1..Len(q) : t[k] = EndCut(t[k - 1])
                 /\ EndsCut(q, q) = t[Len(q)]
    BY EndsCutTrace
  <2>2. \A k \in (0 + 1)..Len(q) : t[k - 1] \in {q} => t[k] \in {q}
    BY <2>1
  <2>3. t[0] \in {q}
    BY <2>1
  <2>4. t[Len(q)] \in {q}
    BY <1>1, <2>2, <2>3, TraceStays
  <2> QED
    BY <2>1, <2>4
<1> QED
  BY <1>2, <1>3, TrimmedByCuts

(* The last segment is a segment.                                          *)
LEMMA LastSegment ==
  ASSUME NEW q \in Paths, q # <<>>
  PROVE  Last(Segments(q)) \in ToSet(Segments(q))
<1>1. Segments(q) \in Partings
  BY SegmentsEnd
<1>2. Len(Segments(q)) \in DOMAIN Segments(q)
  BY <1>1 DEF Partings
<1> QED
  BY <1>2 DEF Last, ToSet

(* A confined path is neither blank nor trimmed.                           *)
LEMMA ConfinedIsTrimmed ==
  ASSUME NEW q \in Paths, ConfinedPath(q), Slashes(q) = q
  PROVE  TrimmedPath(q) = q /\ ~BlankPath(q)
<1>1. q # <<>> /\ ProperSegments(q) /\ PortablePath(q) /\ Len(q) \in Nat /\ Len(q) # 0
  BY DEF ConfinedPath, Paths
<1>2. Last(Segments(q)) # <<>>
  BY <1>1, LastSegment DEF ProperSegments
<1>3. Last(q) # Slash /\ Last(Last(Segments(q))) = Last(q)
  BY <1>1, <1>2, SegmentsEnd
<1>4. Last(q) # <<" ", 0>>
  <2>1. PortableSegment(Last(Segments(q)))
    BY <1>1, LastSegment DEF PortablePath
  <2> QED
    BY <1>2, <1>3, <2>1 DEF PortableSegment
<1>5. ~BlankPath(q)
  <2>1. Len(q) \in DOMAIN q
    BY <1>1 DEF Paths
  <2>2. Last(q) \in ToSet(q)
    BY <2>1 DEF Last, ToSet
  <2> QED
    BY <1>4, <2>2 DEF BlankPath
<1>6. HeadCut(q) = q
  <2>1. <<Period>> \notin ToSet(Segments(q))
    BY <1>1 DEF ProperSegments
  <2> SUFFICES ASSUME Len(q) >= 2, SubSeq(q, 1, 2) = <<Period, Slash>>
               PROVE  FALSE
    BY DEF HeadCut
  <2>2. q[1] = Period /\ q[2] = Slash
    <3>1. SubSeq(q, 1, 2)[1] = q[1] /\ SubSeq(q, 1, 2)[2] = q[2]
      BY DEF Paths
    <3>2. <<Period, Slash>>[1] = Period /\ <<Period, Slash>>[2] = Slash
      OBVIOUS
    <3> QED
      BY <3>1, <3>2
  <2> QED
    BY <2>1, <2>2, SegmentsBegin
<1>7. EndCut(q) = q
  BY <1>3 DEF EndCut
<1> QED
  BY <1>1, <1>5, <1>6, <1>7, UncutStays

(* The rules are the same for a path and for its last spelling.            *)
LEMMA SettledBounds ==
  ASSUME NEW q \in Paths, Slashes(q) = q, BoundedPath(q, {Slash})
  PROVE  BoundedPath(q, {Slash, Backslash})
<1>1. \A i \in DOMAIN q : q[i] # Backslash
  <2> TAKE i \in DOMAIN q
  <2>1. q[i] = IF q[i] = Backslash THEN Slash ELSE q[i]
    <3>1. Slashes(q)[i] = IF q[i] = Backslash THEN Slash ELSE q[i]
      BY DEF Slashes
    <3> QED
      BY <3>1
  <2> QED
    BY <2>1 DEF Slash, Backslash
<1>2. {i \in DOMAIN q : q[i] \in {Slash, Backslash}} = {i \in DOMAIN q : q[i] \in {Slash}}
  BY <1>1
<1> QED
  BY <1>2, Zenon DEF BoundedPath

(* The okf command writes to such a path.                                  *)
LEMMA SettledWritable ==
  ASSUME NEW q \in Paths, LastSpelling(q), BoundedPath(q, {Slash}), ConfinedPath(q)
  PROVE  WritablePath(q)
<1>1. PlainMarks(q) \cap Controls = {}
  BY DEF LastSpelling, Plain
<1>2. q # <<>>
  BY DEF ConfinedPath
<1> QED
  BY <1>1, <1>2 DEF WritablePath, LastSpelling

(* What a concept is rendered at: its own last spelling, that can be       *)
(* written and rendered again.                                             *)
LEMMA ConceptPathSettled ==
  ASSUME NEW p \in Paths, ConceptPath(p) # <<>>
  PROVE  /\ LastSpelling(ConceptPath(p)) /\ WritablePath(ConceptPath(p))
         /\ ~IsReservedName(Last(Segments(ConceptPath(p))))
         /\ ConceptPath(ConceptPath(p)) = ConceptPath(p)
<1> DEFINE q == Unescape(p).path
<1>1. AcceptsConceptPath(p) /\ ConceptPath(p) = q
  BY DEF ConceptPath
<1>2. Unescape(p).fate = "stable"
  BY <1>1 DEF AcceptsConceptPath
<1>3. q \in Paths /\ LastSpelling(q) /\ MaxDecodings # 0
  BY <1>2, UnescapeSettles DEF Spellings
<1>4. /\ BoundedPath(q, {Slash}) /\ ConfinedPath(q) /\ ~IsReservedName(Last(Segments(q)))
      /\ EndsWithExtension(q) /\ Last(Segments(q)) # Extension
  BY <1>1 DEF AcceptsConceptPath
<1> HIDE DEF q
<1>5. WritablePath(q)
  BY <1>3, <1>4, SettledWritable
<1>6. Unescape(q) = [path |-> q, fate |-> "stable"]
  BY <1>3, UnescapeAgain
<1>7. Unescape(q).path = q /\ Unescape(q).fate = "stable"
  BY <1>6
<1>8. BoundedPath(q, {Slash, Backslash}) /\ ~BlankPath(q)
  BY <1>3, <1>4, SettledBounds, ConfinedIsTrimmed DEF LastSpelling
<1>9. AcceptsConceptPath(q)
  BY <1>4, <1>7, <1>8 DEF AcceptsConceptPath
<1>10. ConceptPath(q) = q
  BY <1>7, <1>9 DEF ConceptPath
<1> QED
  BY <1>1, <1>3, <1>4, <1>5, <1>10

(* The bundle itself, as a directory.                                      *)
LEMMA PeriodAccepted ==
  ASSUME BoundedPath(<<Period>>, {Slash, Backslash})
  PROVE  /\ AcceptsBundleDirectory(<<Period>>) /\ BundleDirectory(<<Period>>) = <<Period>>
         /\ Slashes(PercentDecode(<<Period>>)) = <<Period>>
<1> DEFINE q == <<Period>>
<1>1. Period \in Marks
  BY DEF Period, Marks, Letters
<1>2. q \in Paths /\ q # <<>> /\ Len(q) = 1 /\ q[1] = Period /\ DOMAIN q = {1}
  BY <1>1 DEF Paths
<1>3. PercentDecode(q) = q
  <2>1. PercentDecode(q) = [i \in {1} |-> <<q[i][1], IF q[i][2] > 0 THEN q[i][2] - 1 ELSE 0>>]
    BY <1>2 DEF PercentDecode
  <2>2. q = [i \in {1} |-> Period]
    OBVIOUS
  <2>3. <<q[1][1], IF q[1][2] > 0 THEN q[1][2] - 1 ELSE 0>> = Period
    BY <1>2 DEF Period
  <2> QED
    BY <2>1, <2>2, <2>3
<1>4. Slashes(q) = q
  <2>1. Period # Backslash
    BY DEF Period, Backslash
  <2>2. q = [i \in {1} |-> Period]
    OBVIOUS
  <2> QED
    BY <1>2, <2>1, <2>2 DEF Slashes
<1>5. Last(q) # Slash
  BY <1>2 DEF Last, Period, Slash
<1>6. HeadCut(q) = q /\ EndCut(q) = q
  BY <1>2, <1>5 DEF HeadCut, EndCut
<1>7. TrimmedPath(q) = q
  <2> HIDE DEF q
  <2> QED
    BY <1>2, <1>4, <1>6, UncutStays
<1> QED
  BY <1>3, <1>4, <1>7 DEF AcceptsBundleDirectory, BundleDirectory

(* Any directory of a bundle, once it is accepted.                         *)
LEMMA BundleDirectorySettled ==
  ASSUME NEW p \in Paths, AcceptsBundleDirectory(p), BoundedPath(<<Period>>, {Slash, Backslash})
  PROVE  LET q == BundleDirectory(p)
         IN /\ Slashes(PercentDecode(q)) = q
            /\ q # <<Period>> => WritablePath(q)
            /\ AcceptsBundleDirectory(q) /\ BundleDirectory(q) = q
<1>1. CASE BundleDirectory(p) = <<Period>>
  BY <1>1, PeriodAccepted
<1>2. CASE BundleDirectory(p) # <<Period>>
  <2> DEFINE q == Unescape(TrimmedPath(p)).path
  <2>1. TrimmedPath(p) # <<Period>> /\ BundleDirectory(p) = q
    BY <1>2 DEF BundleDirectory
  <2>2. Unescape(TrimmedPath(p)).fate = "stable"
    BY <2>1 DEF AcceptsBundleDirectory
  <2>3. q \in Paths /\ LastSpelling(q) /\ MaxDecodings # 0
    BY <2>2, TrimmedType, UnescapeSettles DEF Spellings
  <2>4. BoundedPath(q, {Slash}) /\ ConfinedPath(q)
    BY <1>2, <2>1 DEF AcceptsBundleDirectory
  <2> HIDE DEF q
  <2>5. WritablePath(q)
    BY <2>3, <2>4, SettledWritable
  <2>6. TrimmedPath(q) = q /\ ~BlankPath(q)
    BY <2>3, <2>4, ConfinedIsTrimmed DEF LastSpelling
  <2>7. Unescape(q) = [path |-> q, fate |-> "stable"]
    BY <2>3, UnescapeAgain
  <2>8. Unescape(q).path = q /\ Unescape(q).fate = "stable"
    BY <2>7
  <2>9. BoundedPath(q, {Slash, Backslash})
    BY <2>3, <2>4, SettledBounds DEF LastSpelling
  <2>10. AcceptsBundleDirectory(q)
    BY <2>4, <2>6, <2>8, <2>9 DEF AcceptsBundleDirectory
  <2>11. BundleDirectory(q) = q
    BY <2>6, <2>8 DEF BundleDirectory
  <2> QED
    BY <2>1, <2>3, <2>5, <2>10, <2>11 DEF LastSpelling
<1> QED
  BY <1>1, <1>2

(* The length of a path, mark by mark.                                     *)
AddUnits(sum, t) == sum + 1 + 2 * t[2]

LEMMA UnitsTrace ==
  ASSUME NEW p \in Paths
  PROVE  \E t : /\ t[0] = 0
                /\ \A k \in 1..Len(p) : t[k] = AddUnits(t[k - 1], p[k])
                /\ Units(p) = t[Len(p)]
<1> DEFINE Fold(f) == [S \in SUBSET (1..Len(p)) |->
                         IF S = {} THEN 0 ELSE AddUnits(f[S \ {Max(S)}], p[Max(S)])]
           step == [x \in Nat \X (1..Len(p)) |-> AddUnits(x[1], p[x[2]])]
           folded == CHOOSE f : f = Fold(f)
<1>1. Len(p) \in Nat /\ DOMAIN p = 1..Len(p) /\ \A k \in 1..Len(p) : p[k][2] \in Nat
  BY DEF Paths, Marks
<1>2. Units(p) = folded[1..Len(p)]
  BY <1>1 DEF Units, AddUnits, FoldLeft, MapThenFoldSet
<1>4. step \in [Nat \X (1..Len(p)) -> Nat]
  <2>1. \A n \in Nat, k \in 1..Len(p) : AddUnits(n, p[k]) \in Nat
    BY <1>1 DEF AddUnits
  <2> QED
    BY <2>1
<1>5. PICK f \in [SUBSET (1..Len(p)) -> Nat] : Folding(f, Len(p), 0, step)
  <2> HIDE DEF step
  <2> QED
    BY <1>1, <1>4, FoldExists
<1>6. \A S \in SUBSET (1..Len(p)) : S # {} =>
        step[<<f[S \ {Max(S)}], Max(S)>>] = AddUnits(f[S \ {Max(S)}], p[Max(S)])
  <2> TAKE S \in SUBSET (1..Len(p))
  <2> HAVE S # {}
  <2>1. Max(S) \in 1..Len(p) /\ S \ {Max(S)} \in SUBSET (1..Len(p))
    BY <1>1, RestOf
  <2>2. <<f[S \ {Max(S)}], Max(S)>> \in Nat \X (1..Len(p))
    BY <1>5, <2>1
  <2> QED
    BY <2>2
<1>7. f = Fold(f)
  <2> HIDE DEF step
  <2> QED
    BY <1>5, <1>6 DEF Folding
<1>8. folded = Fold(folded)
  <2> HIDE DEF Fold
  <2> QED
    BY <1>7, Zenon
<1> HIDE DEF folded
<1> DEFINE t == [k \in 0..Len(p) |-> folded[1..k]]
<1>9. t[0] = 0
  <2>1. folded[{}] = 0
    BY <1>8
  <2> QED
    BY <1>1, <2>1
<1>10. ASSUME NEW k \in 1..Len(p)
       PROVE  t[k] = AddUnits(t[k - 1], p[k])
  <2>1. Max(1..k) = k /\ (1..k) \ {k} = 1..(k - 1) /\ 1..k # {}
    BY Positions
  <2>2. 1..k \in SUBSET (1..Len(p)) /\ k \in 0..Len(p) /\ k - 1 \in 0..Len(p)
    BY <1>1
  <2>3. folded[1..k] = AddUnits(folded[(1..k) \ {Max(1..k)}], p[Max(1..k)])
    BY <1>8, <2>1, <2>2
  <2> QED
    BY <2>1, <2>2, <2>3
<1>11. Units(p) = t[Len(p)]
  BY <1>1, <1>2
<1> QED
  <2> HIDE DEF t
  <2> QED
    BY <1>9, <1>10, <1>11

(* The path of the bundle itself is within the limits.                     *)
LEMMA PeriodBounded ==
  BoundedPath(<<Period>>, {Slash, Backslash})
<1> DEFINE q == <<Period>>
<1>1. Period \in Marks /\ Period[2] = 0
  BY DEF Period, Marks, Letters
<1>2. q \in Paths /\ Len(q) = 1 /\ q[1] = Period /\ DOMAIN q = {1}
  BY <1>1 DEF Paths
<1> HIDE DEF q
<1>3. Units(q) = 1
  <2>1. PICK t : /\ t[0] = 0
                 /\ \A k \in 1..Len(q) : t[k] = AddUnits(t[k - 1], q[k])
                 /\ Units(q) = t[Len(q)]
    BY <1>2, UnitsTrace
  <2>2. t[1] = AddUnits(t[1 - 1], q[1])
    BY <1>2, <2>1
  <2>3. t[1] = AddUnits(0, Period)
    BY <1>2, <2>1, <2>2
  <2> QED
    BY <1>1, <1>2, <2>1, <2>3 DEF AddUnits
<1>4. {i \in DOMAIN q : q[i] \in {Slash, Backslash}} = {}
  BY <1>2 DEF Period, Slash, Backslash
<1>5. BoundedPath(q, {Slash, Backslash})
  BY <1>3, <1>4, FS_EmptySet, PathLimitsAssumption DEF BoundedPath
<1> QED
  BY <1>5 DEF q

(* The paths that are given are paths.                                     *)
LEMMA GivenArePaths ==
  GivenPaths \subseteq Paths
<1>1. Seq(STRING \X Nat) \subseteq Seq(Marks)
  <2>1. STRING \X Nat \subseteq Marks
    BY DEF Marks, Letters
  <2> QED
    BY <2>1
<1> QED
  BY <1>1, GivenPathsAssumption DEF Paths

(* Only paths are asked for, and what is rendered is settled.              *)
PathRequested == request.op \in {"concept", "new", "agent", "provider"} => request.path \in Paths

SettledInvariant == PathRequested /\ PathsSettled

(* The path and the extension that the code completes are paths.           *)
LEMMA WordsArePaths ==
  Name("a") \in Paths /\ Extension \in Paths
<1>1. Period \in Marks /\ <<"md", 0>> \in Marks /\ <<"a", 0>> \in Marks
  BY DEF Period, Marks, Letters
<1>2. Extension \in Seq(Marks)
  BY <1>1 DEF Extension
<1>3. Name("a") \in Seq(Marks)
  <2>1. <<<<"a", 0>>>> \in Seq(Marks)
    BY <1>1
  <2> DEFINE a == <<"a", 0>>
             md == <<"md", 0>>
  <2>2. a \in Marks /\ md \in Marks /\ Name("a") = <<a, Period, md>>
    BY <1>1 DEF Name
  <2> HIDE DEF a, md
  <2>3. <<a, Period, md>> \in Seq(Marks)
    BY <1>1, <2>2
  <2> QED
    BY <2>2, <2>3
<1> QED
  BY <1>2, <1>3 DEF Paths

(* A concept is rendered at a settled path.                                *)
LEMMA ConceptFileSettled ==
  ASSUME NEW p \in Paths, NEW meta, rendered' = ConceptFile(p, meta)
  PROVE  PathsSettled'
<1>1. CASE ConceptPath(p) = <<>> \/ ~AcceptsMetadata(meta)
  BY <1>1 DEF ConceptFile, Rejected, PathsSettled
<1>2. CASE ConceptPath(p) # <<>> /\ AcceptsMetadata(meta)
  <2>1. rendered' = [is |-> "concept", path |-> ConceptPath(p), lines |-> ConceptLines(meta)]
    BY <1>2 DEF ConceptFile
  <2>2. rendered'.is = "concept" /\ rendered'.path = ConceptPath(p)
    BY <2>1
  <2> DEFINE q == ConceptPath(p)
  <2>3. /\ LastSpelling(q) /\ WritablePath(q) /\ ~IsReservedName(Last(Segments(q)))
        /\ ConceptPath(q) = q
    BY <1>2, ConceptPathSettled
  <2>4. rendered'.path = q
    BY <2>2
  <2> HIDE DEF q
  <2> QED
    BY <2>2, <2>3, <2>4 DEF PathsSettled, LastSpelling
<1> QED
  BY <1>1, <1>2

(* For any paths and limits: a concept and the agent files are rendered at *)
(* the last spelling of what was asked for, which the okf command writes   *)
(* and which asks for itself (templates.rs, validate_concept_path and      *)
(* validate_bundle_directory).                                             *)
THEOREM PathsAlwaysSettled ==
  TemplatesSpec => []PathsSettled
<1>1. TemplatesInit => SettledInvariant
  <2> SUFFICES ASSUME TemplatesInit PROVE SettledInvariant
    OBVIOUS
  <2>1. PathsSettled
    BY DEF TemplatesInit, Idle, PathsSettled
  <2>2. ASSUME \E path \in GivenPaths, op \in {"concept", "new", "agent", "provider"} :
                 request = [op |-> op, path |-> path, meta |-> AnyMetadata]
        PROVE  PathRequested
    <3>1. PICK path \in GivenPaths, op \in {"concept", "new", "agent", "provider"} :
                 request = [op |-> op, path |-> path, meta |-> AnyMetadata]
      BY <2>2
    <3>2. request.path = path
      BY <3>1
    <3> QED
      BY <3>2, GivenArePaths DEF PathRequested
  <2>3. ASSUME \E meta \in Metadata : request = [op |-> "concept", path |-> Name("a"), meta |-> meta]
        PROVE  PathRequested
    <3>1. PICK meta \in Metadata : request = [op |-> "concept", path |-> Name("a"), meta |-> meta]
      BY <2>3
    <3>2. request.path = Name("a")
      BY <3>1
    <3> QED
      BY <3>2, WordsArePaths DEF PathRequested
  <2>4. ASSUME \E content \in Contents : request = [op |-> "index", concepts |-> content]
        PROVE  PathRequested
    <3>1. PICK content \in Contents : request = [op |-> "index", concepts |-> content]
      BY <2>4
    <3>2. request.op = "index"
      BY <3>1
    <3> QED
      BY <3>2 DEF PathRequested
  <2>5. PathRequested
    BY <2>2, <2>3, <2>4 DEF TemplatesInit
  <2> QED
    BY <2>1, <2>5 DEF SettledInvariant
<1>2. SettledInvariant /\ [TemplatesNext]_templatesVars => SettledInvariant'
  <2> SUFFICES ASSUME SettledInvariant, [TemplatesNext]_templatesVars PROVE SettledInvariant'
    OBVIOUS
  <2>1. CASE UNCHANGED templatesVars
    BY <2>1 DEF SettledInvariant, PathRequested, PathsSettled, templatesVars
  <2>2. CASE TemplatesNext
    <3>1. UNCHANGED request
      BY <2>2 DEF TemplatesNext, RenderConcept, RenderNew, RenderAgent, RenderProviderAgent,
                  RenderIndexFiles, Rendering
    <3>2. PathRequested'
      BY <3>1 DEF SettledInvariant, PathRequested
    <3>3. CASE RenderConcept
      <4>1. request.path \in Paths
        BY <3>3 DEF RenderConcept, Rendering, SettledInvariant, PathRequested
      <4> QED
        BY <3>2, <3>3, <4>1, ConceptFileSettled DEF RenderConcept, SettledInvariant
    <3>4. CASE RenderNew
      <4>1. request.path \in Paths
        BY <3>4 DEF RenderNew, Rendering, SettledInvariant, PathRequested
      <4>2. NewPath(request.path) \in Paths
        BY <4>1, WordsArePaths DEF NewPath, Paths
      <4>3. CASE WritablePath(request.path)
        <5>1. rendered' = ConceptFile(NewPath(request.path), request.meta)
          BY <3>4, <4>3 DEF RenderNew
        <5> QED
          BY <3>2, <4>2, <5>1, ConceptFileSettled DEF SettledInvariant
      <4>4. CASE ~WritablePath(request.path)
        BY <3>2, <3>4, <4>4 DEF RenderNew, Rejected, PathsSettled, SettledInvariant
      <4> QED
        BY <4>3, <4>4
    <3>5. CASE RenderAgent
      <4>1. request.path \in Paths
        BY <3>5 DEF RenderAgent, Rendering, SettledInvariant, PathRequested
      <4>2. CASE AcceptsBundleDirectory(request.path)
        <5> DEFINE q == BundleDirectory(request.path)
        <5>1. /\ Slashes(PercentDecode(q)) = q /\ (q # <<Period>> => WritablePath(q))
              /\ AcceptsBundleDirectory(q) /\ BundleDirectory(q) = q
          BY <4>1, <4>2, PeriodBounded, BundleDirectorySettled
        <5>2. rendered' = [is |-> "agent", path |-> q]
          BY <3>5, <4>2 DEF RenderAgent
        <5>3. rendered'.is = "agent" /\ rendered'.path = q
          BY <5>2
        <5> HIDE DEF q
        <5>4. PathsSettled'
          BY <5>1, <5>3 DEF PathsSettled
        <5> QED
          BY <3>2, <5>4 DEF SettledInvariant
      <4>3. CASE ~AcceptsBundleDirectory(request.path)
        BY <3>2, <3>5, <4>3 DEF RenderAgent, Rejected, PathsSettled, SettledInvariant
      <4> QED
        BY <4>2, <4>3
    <3>6. CASE RenderProviderAgent
      <4>1. rendered'.is \in {"refused", "provider"}
        BY <3>6 DEF RenderProviderAgent, Rejected
      <4> QED
        BY <3>2, <4>1 DEF PathsSettled, SettledInvariant
    <3>7. CASE RenderIndexFiles
      BY <3>2, <3>7 DEF RenderIndexFiles, PathsSettled, SettledInvariant
    <3> QED
      BY <2>2, <3>3, <3>4, <3>5, <3>6, <3>7 DEF TemplatesNext
  <2> QED
    BY <2>1, <2>2
<1>3. SettledInvariant => PathsSettled
  BY DEF SettledInvariant
<1> QED
  BY <1>1, <1>2, <1>3, PTL DEF TemplatesSpec

-------------------------------------------------------------------------------
(* Texts.                                                                  *)

(* Sequences with the same elements are the same, whatever their elements  *)
(* are.                                                                    *)
LEMMA SameSequence ==
  ASSUME NEW X, NEW Y, NEW s \in Seq(X), NEW t \in Seq(Y), Len(s) = Len(t),
         \A i \in 1..Len(t) : s[i] = t[i]
  PROVE  s = t
<1>1. DOMAIN s = 1..Len(t) /\ DOMAIN t = 1..Len(t)
  OBVIOUS
<1>2. s = [i \in 1..Len(t) |-> s[i]] /\ t = [i \in 1..Len(t) |-> t[i]]
  BY <1>1
<1> QED
  BY <1>2

(* A sequence is one of its own elements.                                  *)
LEMMA SequenceOf ==
  ASSUME NEW X, NEW s \in Seq(X)
  PROVE  /\ s \in Seq(ToSet(s)) /\ ToSet(s) \subseteq X
         /\ ToSet(s) = {s[i] : i \in 1..Len(s)}
         /\ Len(s) \in Nat /\ DOMAIN s = 1..Len(s)
<1>1. Len(s) \in Nat /\ DOMAIN s = 1..Len(s)
  OBVIOUS
<1>2. ToSet(s) = {s[i] : i \in 1..Len(s)}
  BY <1>1 DEF ToSet
<1>3. ToSet(s) \subseteq X
  BY <1>2
<1>4. s \in Seq(ToSet(s))
  BY <1>1, <1>2, SeqOfRange DEF ToSet
<1> QED
  BY <1>1, <1>2, <1>3, <1>4

(* The elements of a sequence that is appended to.                         *)
LEMMA AppendedSet ==
  ASSUME NEW X, NEW s \in Seq(X), NEW x \in X
  PROVE  ToSet(Append(s, x)) = ToSet(s) \cup {x}
<1> DEFINE z == Append(s, x)
<1>1. z \in Seq(X) /\ Len(z) = Len(s) + 1 /\ Len(s) \in Nat /\ z[Len(s) + 1] = x
      /\ \A i \in 1..Len(s) : z[i] = s[i]
  OBVIOUS
<1> HIDE DEF z
<1>2. ToSet(z) = {z[i] : i \in 1..Len(z)} /\ ToSet(s) = {s[i] : i \in 1..Len(s)}
  BY <1>1, SequenceOf
<1>3. 1..Len(z) = (1..Len(s)) \cup {Len(s) + 1}
  BY <1>1
<1>4. ToSet(z) = ToSet(s) \cup {x}
  BY <1>1, <1>2, <1>3
<1> QED
  BY <1>4 DEF z

(* The elements of two sequences in a row.                                 *)
LEMMA ConcatSet ==
  ASSUME NEW X, NEW p \in Seq(X), NEW q \in Seq(X)
  PROVE  ToSet(p \o q) = ToSet(p) \cup ToSet(q)
<1> DEFINE z == p \o q
<1>1. z \in Seq(X) /\ Len(z) = Len(p) + Len(q) /\ Len(p) \in Nat /\ Len(q) \in Nat
  BY ConcatProperties
<1>2. (\A i \in 1..Len(p) : z[i] = p[i]) /\ \A i \in 1..Len(q) : z[Len(p) + i] = q[i]
  OBVIOUS
<1> HIDE DEF z
<1>3. /\ ToSet(z) = {z[i] : i \in 1..Len(z)} /\ ToSet(p) = {p[i] : i \in 1..Len(p)}
      /\ ToSet(q) = {q[i] : i \in 1..Len(q)}
  BY <1>1, SequenceOf
<1>4. ASSUME NEW v \in ToSet(z)
      PROVE  v \in ToSet(p) \cup ToSet(q)
  <2>1. PICK i \in 1..Len(z) : v = z[i]
    BY <1>3
  <2>2. CASE i <= Len(p)
    BY <1>1, <1>2, <1>3, <2>1, <2>2
  <2>3. CASE i > Len(p)
    <3>1. i - Len(p) \in 1..Len(q) /\ Len(p) + (i - Len(p)) = i
      BY <1>1, <2>3
    <3>2. z[i] = q[i - Len(p)]
      BY <1>2, <3>1
    <3> QED
      BY <1>3, <2>1, <3>1, <3>2
  <2> QED
    BY <1>1, <2>2, <2>3
<1>5. ASSUME NEW v \in ToSet(p) \cup ToSet(q)
      PROVE  v \in ToSet(z)
  <2>1. CASE v \in ToSet(p)
    <3>1. PICK i \in 1..Len(p) : v = p[i]
      BY <1>3, <2>1
    <3>2. i \in 1..Len(z) /\ z[i] = v
      BY <1>1, <1>2, <3>1
    <3> QED
      BY <1>3, <3>2
  <2>2. CASE v \in ToSet(q)
    <3>1. PICK i \in 1..Len(q) : v = q[i]
      BY <1>3, <2>2
    <3>2. Len(p) + i \in 1..Len(z) /\ z[Len(p) + i] = v
      BY <1>1, <1>2, <3>1
    <3> QED
      BY <1>3, <3>2
  <2> QED
    BY <2>1, <2>2
<1>6. ToSet(z) = ToSet(p) \cup ToSet(q)
  BY <1>4, <1>5
<1> QED
  BY <1>6 DEF z

(* A text is a sequence of lines, whatever a line is.                      *)
IsText(s) == s \in Seq(ToSet(s))

(* 1 for a byte order mark.                                                *)
Mark(text) == IF Head(text) = Bom THEN 1 ELSE 0

(* A text t: b lines for its byte order mark, a delimiter, the frontmatter *)
(* f, a delimiter, and the body y.                                         *)
Shaped(t, b, f, y) ==
  /\ IsText(t) /\ IsText(f) /\ IsText(y)
  /\ b \in {0, 1}
  /\ Len(t) = b + 2 + Len(f) + Len(y)
  /\ b = 1 => t[1] = Bom
  /\ t[b + 1] = Fence
  /\ \A i \in 1..Len(f) : t[b + 1 + i] = f[i] /\ f[i] # Fence
  /\ t[b + 2 + Len(f)] = Fence
  /\ \A i \in 1..Len(y) : t[b + 2 + Len(f) + i] = y[i]

(* The closing delimiter is the first one after the opening.               *)
LEMMA ClosingFound ==
  ASSUME NEW X, NEW lines \in Seq(X), \E i \in 2..Len(lines) : lines[i] = Fence
  PROVE  /\ Closing(lines) \in 2..Len(lines) /\ lines[Closing(lines)] = Fence
         /\ \A j \in 2..(Closing(lines) - 1) : lines[j] # Fence
<1> DEFINE F == {i \in 2..Len(lines) : lines[i] = Fence}
<1>1. F \in SUBSET Nat /\ F # {}
  OBVIOUS
<1>2. PICK m \in F : \A k \in F : m <= k
  <2> HIDE DEF F
  <2> QED
    BY <1>1, LeastOf
<1>3. \A j \in 2..(m - 1) : lines[j] # Fence
  BY <1>2
<1>4. m \in 2..Len(lines) /\ lines[m] = Fence
  BY <1>2
<1> HIDE DEF F
<1>5. \E i \in 2..Len(lines) : lines[i] = Fence /\ \A j \in 2..(i - 1) : lines[j] # Fence
  BY <1>3, <1>4
<1> QED
  BY <1>5 DEF Closing

(* A first delimiter after the opening is the closing one.                 *)
LEMMA ClosingIs ==
  ASSUME NEW X, NEW lines \in Seq(X), NEW m \in 2..Len(lines), lines[m] = Fence,
         \A j \in 2..(m - 1) : lines[j] # Fence
  PROVE  Closing(lines) = m
<1>1. /\ Closing(lines) \in 2..Len(lines) /\ lines[Closing(lines)] = Fence
      /\ \A j \in 2..(Closing(lines) - 1) : lines[j] # Fence
  BY ClosingFound
<1> QED
  BY <1>1

(* A text with a frontmatter has the shape of its parts.                   *)
LEMMA ShapeOf ==
  ASSUME NEW t, IsText(t), HasFrontmatter(t)
  PROVE  Shaped(t, Mark(t), FrontLines(t), Body(t))
<1> DEFINE c == CanonicalText(t)
           b == Mark(t)
           m == Closing(c)
           X == ToSet(t)
<1>0. Fence # Bom /\ t \in Seq(X) /\ Len(t) \in Nat
  BY DEF Fence, Bom, IsText
<1>1. /\ c \in Seq(X) /\ c # <<>> /\ Head(c) = Fence /\ b \in {0, 1}
      /\ Len(t) = b + Len(c) /\ (b = 1 => t[1] = Bom) /\ \A i \in 1..Len(c) : c[i] = t[b + i]
  <2>1. CASE t # <<>> /\ Head(t) = Bom
    BY <1>0, <2>1 DEF HasFrontmatter, Opens, CanonicalText, Mark
  <2>2. CASE ~(t # <<>> /\ Head(t) = Bom)
    <3>1. c = t
      BY <2>2 DEF CanonicalText
    <3>2. c # <<>> /\ Head(c) = Fence
      BY DEF HasFrontmatter, Opens
    <3>3. b = 0
      BY <2>2, <3>1, <3>2 DEF Mark
    <3> QED
      BY <1>0, <3>1, <3>2, <3>3
  <2> QED
    BY <2>1, <2>2
<1>2. c[1] = Fence /\ Len(c) \in Nat
  BY <1>1
<1>3. /\ m \in 2..Len(c) /\ c[m] = Fence
      /\ \A j \in 2..(m - 1) : c[j] # Fence
  <2>1. \E i \in 2..Len(c) : c[i] = Fence
    BY DEF HasFrontmatter
  <2> HIDE DEF c
  <2> QED
    BY <1>1, <2>1, ClosingFound
<1>4. FrontLines(t) = SubSeq(c, 2, m - 1) /\ Body(t) = SubSeq(c, m + 1, Len(c))
  BY DEF FrontLines, Body
<1> HIDE DEF c, m, b, X
<1>5. /\ FrontLines(t) \in Seq(X) /\ Len(FrontLines(t)) = m - 2
      /\ \A i \in 1..(m - 2) : FrontLines(t)[i] = c[i + 1]
  BY <1>1, <1>2, <1>3, <1>4
<1>6. /\ Body(t) \in Seq(X) /\ Len(Body(t)) = Len(c) - m
      /\ \A i \in 1..(Len(c) - m) : Body(t)[i] = c[m + i]
  BY <1>1, <1>2, <1>3, <1>4
<1>7. IsText(t) /\ IsText(FrontLines(t)) /\ IsText(Body(t))
  BY <1>5, <1>6, SequenceOf DEF IsText
<1>8. Len(t) = b + 2 + Len(FrontLines(t)) + Len(Body(t))
  BY <1>1, <1>2, <1>3, <1>5, <1>6
<1>9. t[b + 1] = Fence /\ t[b + 2 + Len(FrontLines(t))] = Fence
  BY <1>1, <1>2, <1>3, <1>5
<1>10. \A i \in 1..Len(FrontLines(t)) : t[b + 1 + i] = FrontLines(t)[i] /\ FrontLines(t)[i] # Fence
  <2> TAKE i \in 1..Len(FrontLines(t))
  <2>1. i + 1 \in 2..(m - 1) /\ i + 1 \in 1..Len(c) /\ i \in 1..(m - 2)
    BY <1>2, <1>3, <1>5
  <2>2. FrontLines(t)[i] = c[i + 1] /\ c[i + 1] = t[b + (i + 1)] /\ c[i + 1] # Fence
    BY <1>1, <1>3, <1>5, <2>1
  <2> QED
    BY <1>1, <2>1, <2>2
<1>11. \A i \in 1..Len(Body(t)) : t[b + 2 + Len(FrontLines(t)) + i] = Body(t)[i]
  <2> TAKE i \in 1..Len(Body(t))
  <2>1. m + i \in 1..Len(c) /\ i \in 1..(Len(c) - m) /\ b + (m + i) = b + 2 + Len(FrontLines(t)) + i
    BY <1>1, <1>2, <1>3, <1>5, <1>6
  <2> QED
    BY <1>1, <1>6, <2>1
<1> QED
  BY <1>1, <1>7, <1>8, <1>9, <1>10, <1>11 DEF Shaped, b

(* The least of a set of numbers is what it is chosen as.                  *)
LEMMA LeastIs ==
  ASSUME NEW F \in SUBSET Nat, NEW m \in F, \A j \in F : m <= j
  PROVE  (CHOOSE i \in F : \A j \in F : i <= j) = m
<1>1. \A i \in F : (\A j \in F : i <= j) => i = m
  <2> TAKE i \in F
  <2> HAVE \A j \in F : i <= j
  <2>1. i <= m /\ m <= i /\ i \in Nat /\ m \in Nat
    OBVIOUS
  <2> QED
    BY <2>1
<1> QED
  BY <1>1

(* A text of a shape has these parts, and the delimiter that is found      *)
(* again in the text itself is the closing one.                            *)
LEMMA ShapeParts ==
  ASSUME NEW t, NEW b, NEW f, NEW y, Shaped(t, b, f, y)
  PROVE  /\ HasFrontmatter(t) /\ FrontLines(t) = f /\ Body(t) = y
         /\ Mark(t) = b /\ (Head(t) = Bom <=> b = 1) /\ ClosingStart(t) = b + 2 + Len(f)
<1> DEFINE c == CanonicalText(t)
           n == Len(f)
           X == ToSet(t)
<1>0. Fence # Bom /\ t \in Seq(X) /\ Len(t) \in Nat /\ b \in {0, 1} /\ n \in Nat /\ Len(y) \in Nat
      /\ f \in Seq(ToSet(f)) /\ y \in Seq(ToSet(y)) /\ Len(t) = b + 2 + n + Len(y)
  BY DEF Fence, Bom, IsText, Shaped
<1>1. /\ t # <<>> /\ Head(t) = t[1] /\ (Head(t) = Bom <=> b = 1)
  <2>1. t[b + 1] = Fence /\ (b = 1 => t[1] = Bom)
    BY DEF Shaped
  <2> QED
    BY <1>0, <2>1
<1>2. /\ c \in Seq(X) /\ Len(c) = 2 + n + Len(y) /\ \A i \in 1..Len(c) : c[i] = t[b + i]
  <2>1. CASE b = 1
    BY <1>0, <1>1, <2>1 DEF CanonicalText
  <2>2. CASE b = 0
    BY <1>0, <1>1, <2>2 DEF CanonicalText
  <2> QED
    BY <1>0, <2>1, <2>2
<1> HIDE DEF c
<1>3. c[1] = Fence /\ c[n + 2] = Fence
  <2>1. t[b + 1] = Fence /\ t[b + 2 + n] = Fence
    BY DEF Shaped
  <2>2. 1 \in 1..Len(c) /\ n + 2 \in 1..Len(c) /\ b + (n + 2) = b + 2 + n
    BY <1>0, <1>2
  <2> QED
    BY <1>2, <2>1, <2>2
<1>4. \A i \in 1..n : c[i + 1] = f[i] /\ f[i] # Fence
  <2> TAKE i \in 1..n
  <2>1. i + 1 \in 1..Len(c) /\ b + (i + 1) = b + 1 + i
    BY <1>0, <1>2
  <2>2. t[b + 1 + i] = f[i] /\ f[i] # Fence
    BY DEF Shaped
  <2> QED
    BY <1>2, <2>1, <2>2
<1>5. \A i \in 1..Len(y) : c[n + 2 + i] = y[i]
  <2> TAKE i \in 1..Len(y)
  <2>1. n + 2 + i \in 1..Len(c) /\ b + (n + 2 + i) = b + 2 + n + i
    BY <1>0, <1>2
  <2>2. t[b + 2 + n + i] = y[i]
    BY DEF Shaped
  <2> QED
    BY <1>2, <2>1, <2>2
<1>6. \A j \in 2..(n + 1) : c[j] # Fence
  <2> TAKE j \in 2..(n + 1)
  <2>1. j - 1 \in 1..n /\ (j - 1) + 1 = j
    BY <1>0
  <2> QED
    BY <1>4, <2>1
<1>7. Closing(c) = n + 2
  <2>1. n + 2 \in 2..Len(c) /\ (n + 2) - 1 = n + 1
    BY <1>0, <1>2
  <2> QED
    BY <1>2, <1>3, <1>6, <2>1, ClosingIs
<1>8. HasFrontmatter(t)
  <2>1. c # <<>> /\ Head(c) = Fence /\ n + 2 \in 2..Len(c)
    BY <1>0, <1>2, <1>3
  <2> QED
    BY <1>3, <2>1 DEF HasFrontmatter, Opens, c
<1>9. FrontLines(t) = f
  <2>1. FrontLines(t) = SubSeq(c, 2, n + 1)
    BY <1>0, <1>7 DEF FrontLines, c
  <2>2. SubSeq(c, 2, n + 1) \in Seq(X) /\ Len(SubSeq(c, 2, n + 1)) = n /\ \A i \in 1..n : SubSeq(c, 2, n + 1)[i] = f[i]
    BY <1>0, <1>2, <1>4
  <2> QED
    BY <1>0, <2>1, <2>2, SeqEqual
<1>10. Body(t) = y
  <2>1. Body(t) = SubSeq(c, n + 3, Len(c))
    BY <1>0, <1>7 DEF Body, c
  <2>2. SubSeq(c, n + 3, Len(c)) \in Seq(X) /\ Len(SubSeq(c, n + 3, Len(c))) = Len(y)
    BY <1>0, <1>2
  <2>3. ASSUME NEW i \in 1..Len(y)
        PROVE  SubSeq(c, n + 3, Len(c))[i] = y[i]
    <3>1. SubSeq(c, n + 3, Len(c))[i] = c[n + 2 + i]
      BY <1>0, <1>2
    <3> QED
      BY <1>5, <3>1
  <2> DEFINE z == SubSeq(c, n + 3, Len(c))
  <2>4. z \in Seq(X) /\ y \in Seq(ToSet(y)) /\ Len(z) = Len(y) /\ \A i \in 1..Len(y) : z[i] = y[i]
    BY <1>0, <2>2, <2>3
  <2> HIDE DEF z
  <2>5. z = y
    BY <2>4, SameSequence
  <2> QED
    BY <2>1, <2>5 DEF z
<1>11. ClosingStart(t) = b + 2 + n
  <2> DEFINE F == {i \in DOMAIN t : t[i] = Fence}
  <2>1. DOMAIN t = 1..Len(t)
    BY <1>0
  <2>2. b + 1 \in F /\ b + 2 + n \in F
    BY <1>0, <2>1 DEF Shaped
  <2>3. \A i \in F : i = b + 1 \/ i >= b + 2 + n
    <3> SUFFICES ASSUME NEW i \in F, i # b + 1, ~(i >= b + 2 + n) PROVE FALSE
      OBVIOUS
    <3>1. i \in 1..Len(t) /\ t[i] = Fence
      BY <2>1
    <3>2. ~(b = 1 /\ i = 1)
      BY <1>0, <3>1 DEF Shaped
    <3>3. i - b - 1 \in 1..n /\ b + 1 + (i - b - 1) = i
      BY <1>0, <3>1, <3>2
    <3>4. t[b + 1 + (i - b - 1)] # Fence
      BY <3>3 DEF Shaped
    <3> QED
      BY <3>1, <3>3, <3>4
  <2>4. F \in SUBSET Nat
    BY <2>1
  <2> HIDE DEF F
  <2>7. \A i \in F : b + 1 <= i
    BY <1>0, <2>3, <2>4
  <2>5. (CHOOSE i \in F : \A j \in F : i <= j) = b + 1
    BY <1>0, <2>2, <2>4, <2>7, LeastIs
  <2>8. b + 2 + n \in F \ {b + 1} /\ \A i \in F \ {b + 1} : b + 2 + n <= i
    BY <1>0, <2>2, <2>3, <2>4
  <2>6. (CHOOSE i \in F \ {b + 1} : \A j \in F \ {b + 1} : i <= j) = b + 2 + n
    <3>1. F \ {b + 1} \in SUBSET Nat
      BY <2>4
    <3> QED
      BY <2>8, <3>1, LeastIs
  <2> QED
    BY <2>5, <2>6 DEF ClosingStart, F
<1>12. Mark(t) = b
  BY <1>0, <1>1 DEF Mark
<1> QED
  BY <1>1, <1>8, <1>9, <1>10, <1>11, <1>12

(* A text with the lines after from, up to upto, replaced.                 *)
Splice(t, from, upto, ls) == SubSeq(t, 1, from) \o ls \o SubSeq(t, upto + 1, Len(t))

(* What of s stems from t and what from ls.                                *)
IsSplice(s, t, from, upto, ls) ==
  /\ IsText(s)
  /\ Len(s) = from + Len(ls) + (Len(t) - upto)
  /\ \A i \in 1..from : s[i] = t[i]
  /\ \A i \in 1..Len(ls) : s[from + i] = ls[i]
  /\ \A i \in 1..(Len(t) - upto) : s[from + Len(ls) + i] = t[upto + i]

(* A splice has the lines of t around those of ls.                         *)
LEMMA Spliced ==
  ASSUME NEW t, NEW ls, IsText(t), IsText(ls), NEW from \in 0..Len(t), NEW upto \in from..Len(t)
  PROVE  IsSplice(Splice(t, from, upto, ls), t, from, upto, ls)
<1> DEFINE X == ToSet(t) \cup ToSet(ls)
           p == SubSeq(t, 1, from)
           q == SubSeq(t, upto + 1, Len(t))
<1>1. t \in Seq(X) /\ ls \in Seq(X) /\ Len(t) \in Nat /\ Len(ls) \in Nat
  BY SeqMonotonic DEF IsText
<1> HIDE DEF X
<1>2. /\ p \in Seq(X) /\ Len(p) = from /\ \A i \in 1..from : p[i] = t[i]
  BY <1>1
<1>3. /\ q \in Seq(X) /\ Len(q) = Len(t) - upto /\ \A i \in 1..(Len(t) - upto) : q[i] = t[upto + i]
  <2>1. q \in Seq(X) /\ Len(q) = Len(t) - upto
    BY <1>1
  <2>2. ASSUME NEW i \in 1..(Len(t) - upto)
        PROVE  q[i] = t[upto + i]
    BY <1>1
  <2> QED
    BY <2>1, <2>2
<1> HIDE DEF p, q
<1>4. /\ p \o ls \in Seq(X) /\ Len(p \o ls) = from + Len(ls)
      /\ \A i \in 1..from : (p \o ls)[i] = t[i]
      /\ \A i \in 1..Len(ls) : (p \o ls)[from + i] = ls[i]
  <2>1. p \o ls \in Seq(X) /\ Len(p \o ls) = from + Len(ls)
    BY <1>1, <1>2
  <2>2. ASSUME NEW i \in 1..from
        PROVE  (p \o ls)[i] = t[i]
    BY <1>1, <1>2
  <2>3. ASSUME NEW i \in 1..Len(ls)
        PROVE  (p \o ls)[from + i] = ls[i]
    BY <1>1, <1>2
  <2> QED
    BY <2>1, <2>2, <2>3
<1> DEFINE r == p \o ls
<1>5. r \in Seq(X) /\ Len(r) = from + Len(ls) /\ (\A i \in 1..from : r[i] = t[i]) /\ \A i \in 1..Len(ls) : r[from + i] = ls[i]
  BY <1>4
<1> HIDE DEF r
<1>6. /\ r \o q \in Seq(X) /\ Len(r \o q) = from + Len(ls) + (Len(t) - upto)
  BY <1>3, <1>5, ConcatProperties
<1>7. ASSUME NEW i \in 1..from
      PROVE  (r \o q)[i] = t[i]
  <2>1. (r \o q)[i] = r[i]
    BY <1>1, <1>3, <1>5
  <2> QED
    BY <1>5, <2>1
<1>8. ASSUME NEW i \in 1..Len(ls)
      PROVE  (r \o q)[from + i] = ls[i]
  <2>2. from + i \in 1..Len(r)
    BY <1>1, <1>5
  <2>1. (r \o q)[from + i] = r[from + i]
    BY <1>1, <1>3, <1>5, <2>2
  <2> QED
    BY <1>5, <2>1
<1>9. ASSUME NEW i \in 1..(Len(t) - upto)
      PROVE  (r \o q)[from + Len(ls) + i] = t[upto + i]
  <2>1. r \in Seq(X) /\ q \in Seq(X) /\ i \in 1..Len(q)
    BY <1>3, <1>5
  <2>2. (r \o q)[Len(r) + i] = q[i]
    BY <2>1
  <2> QED
    BY <1>3, <1>5, <2>2
<1>10. Splice(t, from, upto, ls) = r \o q
  BY DEF Splice, p, q, r
<1>11. IsText(r \o q)
  BY <1>6, SequenceOf DEF IsText
<1> DEFINE s == r \o q
<1>12. IsText(s) /\ Len(s) = from + Len(ls) + (Len(t) - upto)
  BY <1>6, <1>11
<1>13. /\ \A i \in 1..from : s[i] = t[i]
       /\ \A i \in 1..Len(ls) : s[from + i] = ls[i]
       /\ \A i \in 1..(Len(t) - upto) : s[from + Len(ls) + i] = t[upto + i]
  BY <1>7, <1>8, <1>9
<1>14. Splice(t, from, upto, ls) = s
  BY <1>10
<1> HIDE DEF s
<1> QED
  BY <1>12, <1>13, <1>14 DEF IsSplice

(* A splice within the frontmatter is one of the frontmatter.              *)
LEMMA SpliceShape ==
  ASSUME NEW t, NEW b, NEW f, NEW y, Shaped(t, b, f, y), NEW ls, IsText(ls), Fence \notin ToSet(ls),
         NEW from \in 0..Len(f), NEW upto \in from..Len(f)
  PROVE  Shaped(Splice(t, b + 1 + from, b + 1 + upto, ls), b, Splice(f, from, upto, ls), y)
<1> DEFINE s == Splice(t, b + 1 + from, b + 1 + upto, ls)
           g == Splice(f, from, upto, ls)
<1>1. /\ IsText(t) /\ IsText(f) /\ IsText(y) /\ b \in {0, 1}
      /\ Len(t) \in Nat /\ Len(f) \in Nat /\ Len(y) \in Nat /\ Len(ls) \in Nat
      /\ Len(t) = b + 2 + Len(f) + Len(y)
  BY DEF Shaped, IsText
<1>2. /\ (b = 1 => t[1] = Bom) /\ t[b + 1] = Fence /\ t[b + 2 + Len(f)] = Fence
      /\ \A i \in 1..Len(f) : t[b + 1 + i] = f[i] /\ f[i] # Fence
      /\ \A i \in 1..Len(y) : t[b + 2 + Len(f) + i] = y[i]
  BY DEF Shaped
<1>3. /\ IsText(g) /\ Len(g) = from + Len(ls) + (Len(f) - upto)
      /\ \A i \in 1..from : g[i] = f[i]
      /\ \A i \in 1..Len(ls) : g[from + i] = ls[i]
      /\ \A i \in 1..(Len(f) - upto) : g[from + Len(ls) + i] = f[upto + i]
  <2>1. IsSplice(g, f, from, upto, ls)
    BY <1>1, Spliced
  <2> HIDE DEF g
  <2> QED
    BY <2>1 DEF IsSplice
<1>4. /\ IsText(s) /\ Len(s) = b + 1 + from + Len(ls) + (Len(t) - (b + 1 + upto))
      /\ \A i \in 1..(b + 1 + from) : s[i] = t[i]
      /\ \A i \in 1..Len(ls) : s[b + 1 + from + i] = ls[i]
      /\ \A i \in 1..(Len(t) - (b + 1 + upto)) : s[b + 1 + from + Len(ls) + i] = t[b + 1 + upto + i]
  <2>1. b + 1 + from \in 0..Len(t) /\ b + 1 + upto \in (b + 1 + from)..Len(t)
    BY <1>1
  <2>2. IsSplice(s, t, b + 1 + from, b + 1 + upto, ls)
    BY <1>1, <2>1, Spliced
  <2> HIDE DEF s
  <2> QED
    BY <2>2 DEF IsSplice
<1>5. \A i \in 1..Len(ls) : ls[i] # Fence
  <2>1. \A i \in 1..Len(ls) : ls[i] \in ToSet(ls)
    BY DEF IsText
  <2> QED
    BY <2>1
<1> HIDE DEF s, g
<1>6. Len(s) = b + 2 + Len(g) + Len(y)
  BY <1>1, <1>3, <1>4
<1>7. (b = 1 => s[1] = Bom) /\ s[b + 1] = Fence
  BY <1>1, <1>2, <1>4
<1>8. ASSUME NEW i \in 1..Len(g)
      PROVE  s[b + 1 + i] = g[i] /\ g[i] # Fence
  <2>1. CASE i <= from
    <3>1. i \in 1..from /\ i \in 1..Len(f) /\ b + 1 + i \in 1..(b + 1 + from)
      BY <1>1, <2>1
    <3> QED
      BY <1>2, <1>3, <1>4, <3>1
  <2>2. CASE i > from /\ i <= from + Len(ls)
    <3>1. i - from \in 1..Len(ls) /\ from + (i - from) = i /\ b + 1 + from + (i - from) = b + 1 + i
      BY <1>1, <2>2
    <3>2. g[from + (i - from)] = ls[i - from] /\ s[b + 1 + from + (i - from)] = ls[i - from] /\ ls[i - from] # Fence
      BY <1>3, <1>4, <1>5, <3>1
    <3> QED
      BY <3>1, <3>2
  <2>3. CASE i > from + Len(ls)
    <3> DEFINE j == i - from - Len(ls)
    <3>1. /\ j \in 1..(Len(f) - upto) /\ j \in 1..(Len(t) - (b + 1 + upto)) /\ from + Len(ls) + j = i
          /\ b + 1 + from + Len(ls) + j = b + 1 + i
          /\ upto + j \in 1..Len(f) /\ b + 1 + (upto + j) = b + 1 + upto + j
      BY <1>1, <1>3, <2>3
    <3> HIDE DEF j
    <3>2. g[from + Len(ls) + j] = f[upto + j] /\ s[b + 1 + from + Len(ls) + j] = t[b + 1 + upto + j]
      BY <1>3, <1>4, <3>1
    <3>3. t[b + 1 + (upto + j)] = f[upto + j] /\ f[upto + j] # Fence
      BY <1>2, <3>1
    <3> QED
      BY <3>1, <3>2, <3>3
  <2> QED
    BY <1>1, <1>3, <2>1, <2>2, <2>3
<1>9. s[b + 2 + Len(g)] = Fence
  <2> DEFINE j == Len(f) - upto + 1
  <2>1. /\ j \in 1..(Len(t) - (b + 1 + upto)) /\ b + 1 + from + Len(ls) + j = b + 2 + Len(g)
        /\ b + 1 + upto + j = b + 2 + Len(f)
    BY <1>1, <1>3
  <2> HIDE DEF j
  <2>2. s[b + 1 + from + Len(ls) + j] = t[b + 1 + upto + j]
    BY <1>4, <2>1
  <2> QED
    BY <1>2, <2>1, <2>2
<1>10. ASSUME NEW i \in 1..Len(y)
       PROVE  s[b + 2 + Len(g) + i] = y[i]
  <2> DEFINE j == Len(f) - upto + 1 + i
  <2>1. /\ j \in 1..(Len(t) - (b + 1 + upto)) /\ b + 1 + from + Len(ls) + j = b + 2 + Len(g) + i
        /\ b + 1 + upto + j = b + 2 + Len(f) + i
    BY <1>1, <1>3
  <2> HIDE DEF j
  <2>2. s[b + 1 + from + Len(ls) + j] = t[b + 1 + upto + j]
    BY <1>4, <2>1
  <2> QED
    BY <1>2, <2>1, <2>2
<1>11. Shaped(s, b, g, y)
  BY <1>1, <1>3, <1>4, <1>6, <1>7, <1>8, <1>9, <1>10 DEF Shaped
<1> QED
  BY <1>11 DEF s, g

-------------------------------------------------------------------------------
(* Edits.                                                                  *)

(* One edit, and the one that comes first in the text.                     *)
Put(e, t) == Splice(t, e.from, e.upto, e.lines)

Lowest(rest) == CHOOSE e \in rest : \A d \in rest : e.from <= d.from

(* The edits are applied by a function on the sets of edits, if there is   *)
(* one.                                                                    *)
LEMMA ApplyFold ==
  ASSUME NEW text, NEW edits, NEW g,
         g = [s \in SUBSET edits |-> IF s = {} THEN text ELSE Put(Lowest(s), g[s \ {Lowest(s)}])]
  PROVE  \E h : /\ h = [s \in SUBSET edits |-> IF s = {} THEN text ELSE Put(Lowest(s), h[s \ {Lowest(s)}])]
                /\ ApplyEdits(text, edits) = h[edits]
<1> DEFINE Fold(f) == [s \in SUBSET edits |-> IF s = {} THEN text ELSE Put(Lowest(s), f[s \ {Lowest(s)}])]
           h == CHOOSE f : f = Fold(f)
<1>1. ApplyEdits(text, edits) = h[edits]
  BY DEF ApplyEdits, MapThenFoldSet, Put, Splice, Lowest
<1>2. h = Fold(h)
  <2>1. g = Fold(g)
    OBVIOUS
  <2> HIDE DEF Fold
  <2> QED
    BY <2>1, Zenon
<1> HIDE DEF h
<1> QED
  BY <1>1, <1>2

(* No edit, one, and two of them, where the later one comes first.         *)
LEMMA ApplyNone ==
  ASSUME NEW text
  PROVE  ApplyEdits(text, {}) = text
<1> DEFINE g == [s \in SUBSET {} |-> text]
<1>1. SUBSET {} = {{}}
  OBVIOUS
<1>2. g = [s \in SUBSET {} |-> IF s = {} THEN text ELSE Put(Lowest(s), g[s \ {Lowest(s)}])]
  BY <1>1
<1> HIDE DEF g
<1>3. PICK h : /\ h = [s \in SUBSET {} |-> IF s = {} THEN text ELSE Put(Lowest(s), h[s \ {Lowest(s)}])]
               /\ ApplyEdits(text, {}) = h[{}]
  BY <1>2, ApplyFold
<1> QED
  BY <1>1, <1>3

LEMMA ApplyOne ==
  ASSUME NEW text, NEW e, e.from \in Nat
  PROVE  ApplyEdits(text, {e}) = Put(e, text)
<1> DEFINE g == [s \in SUBSET {e} |-> IF s = {} THEN text ELSE Put(e, text)]
<1>1. \A s \in SUBSET {e} : s = {} \/ s = {e}
  OBVIOUS
<1>2. Lowest({e}) = e
  BY DEF Lowest
<1>3. ASSUME NEW s \in SUBSET {e}
      PROVE  g[s] = IF s = {} THEN text ELSE Put(Lowest(s), g[s \ {Lowest(s)}])
  <2>1. CASE s = {}
    BY <2>1
  <2>2. CASE s = {e}
    <3>1. s \ {Lowest(s)} = {} /\ s # {}
      BY <1>2, <2>2
    <3> QED
      BY <1>2, <2>2, <3>1
  <2> QED
    BY <1>1, <2>1, <2>2
<1>4. g = [s \in SUBSET {e} |-> IF s = {} THEN text ELSE Put(Lowest(s), g[s \ {Lowest(s)}])]
  <2>1. g = [s \in SUBSET {e} |-> g[s]]
    OBVIOUS
  <2> HIDE DEF g
  <2> QED
    BY <1>3, <2>1
<1> HIDE DEF g
<1>5. PICK h : /\ h = [s \in SUBSET {e} |-> IF s = {} THEN text ELSE Put(Lowest(s), h[s \ {Lowest(s)}])]
               /\ ApplyEdits(text, {e}) = h[{e}]
  BY <1>4, ApplyFold
<1>6. h[{}] = text
  BY <1>5
<1>7. h[{e}] = Put(Lowest({e}), h[{e} \ {Lowest({e})}])
  BY <1>5
<1> QED
  BY <1>2, <1>5, <1>6, <1>7

LEMMA ApplyTwo ==
  ASSUME NEW text, NEW d, NEW e, d.from \in Nat, e.from \in Nat, d.from < e.from
  PROVE  ApplyEdits(text, {d, e}) = Put(d, Put(e, text))
<1> DEFINE g == [s \in SUBSET {d, e} |-> IF s = {} THEN text ELSE IF s = {d} THEN Put(d, text)
                                          ELSE IF s = {e} THEN Put(e, text) ELSE Put(d, Put(e, text))]
<1>0. d # e
  OBVIOUS
<1>1. \A s \in SUBSET {d, e} : s = {} \/ s = {d} \/ s = {e} \/ s = {d, e}
  OBVIOUS
<1>2. Lowest({d}) = d /\ Lowest({e}) = e
  BY DEF Lowest
<1>3. Lowest({d, e}) = d
  <2>1. \A x \in {d, e} : (\A z \in {d, e} : x.from <= z.from) <=> x = d
    OBVIOUS
  <2> QED
    BY <2>1 DEF Lowest
<1>4. ASSUME NEW s \in SUBSET {d, e}
      PROVE  g[s] = IF s = {} THEN text ELSE Put(Lowest(s), g[s \ {Lowest(s)}])
  <2>1. CASE s = {}
    BY <2>1
  <2>2. CASE s = {d}
    <3>1. s \ {Lowest(s)} = {} /\ s # {}
      BY <1>2, <2>2
    <3> QED
      BY <1>2, <2>2, <3>1
  <2>3. CASE s = {e}
    <3>1. s \ {Lowest(s)} = {} /\ s # {} /\ s # {d}
      BY <1>0, <1>2, <2>3
    <3> QED
      BY <1>2, <2>3, <3>1
  <2>4. CASE s = {d, e}
    <3>1. s \ {Lowest(s)} = {e} /\ {e} # {} /\ {e} # {d} /\ s # {} /\ s # {d} /\ s # {e}
      BY <1>0, <1>3, <2>4
    <3> QED
      BY <1>3, <2>4, <3>1
  <2> QED
    BY <1>1, <2>1, <2>2, <2>3, <2>4
<1>5. g = [s \in SUBSET {d, e} |-> IF s = {} THEN text ELSE Put(Lowest(s), g[s \ {Lowest(s)}])]
  <2>1. g = [s \in SUBSET {d, e} |-> g[s]]
    OBVIOUS
  <2> HIDE DEF g
  <2> QED
    BY <1>4, <2>1
<1> HIDE DEF g
<1>6. PICK h : /\ h = [s \in SUBSET {d, e} |-> IF s = {} THEN text ELSE Put(Lowest(s), h[s \ {Lowest(s)}])]
               /\ ApplyEdits(text, {d, e}) = h[{d, e}]
  BY <1>5, ApplyFold
<1>7. h[{}] = text
  BY <1>6
<1>8. h[{e}] = Put(e, text)
  <2>1. h[{e}] = Put(Lowest({e}), h[{e} \ {Lowest({e})}]) /\ {e} \ {Lowest({e})} = {}
    BY <1>2, <1>6
  <2> QED
    BY <1>2, <1>7, <2>1
<1>9. h[{d, e}] = Put(Lowest({d, e}), h[{d, e} \ {Lowest({d, e})}]) /\ {d, e} \ {Lowest({d, e})} = {e}
  BY <1>0, <1>3, <1>6
<1> QED
  BY <1>3, <1>6, <1>8, <1>9
-------------------------------------------------------------------------------
(* Selections.                                                             *)

(* A step of a selection.                                                  *)
KeepStep(out, x, S) == IF x \in S THEN Append(out, x) ELSE out

(* A selection is the last of a sequence of steps.                         *)
LEMMA OnlyTrace ==
  ASSUME NEW X, NEW s \in Seq(X), NEW S
  PROVE  \E t : /\ t[0] = <<>>
                /\ \A k \in 1..Len(s) : t[k] = KeepStep(t[k - 1], s[k], S)
                /\ Only(s, S) = t[Len(s)]
<1> DEFINE V == Seq(X)
           Fold(f) == [P \in SUBSET (1..Len(s)) |->
                         IF P = {} THEN <<>> ELSE KeepStep(f[P \ {Max(P)}], s[Max(P)], S)]
           step == [x \in V \X (1..Len(s)) |-> KeepStep(x[1], s[x[2]], S)]
           folded == CHOOSE f : f = Fold(f)
<1>1. Len(s) \in Nat /\ DOMAIN s = 1..Len(s) /\ \A k \in 1..Len(s) : s[k] \in X
  OBVIOUS
<1>2. Only(s, S) = folded[1..Len(s)]
  BY <1>1 DEF Only, KeepStep, FoldLeft, MapThenFoldSet
<1>3. <<>> \in V
  OBVIOUS
<1>4. step \in [V \X (1..Len(s)) -> V]
  <2>1. ASSUME NEW out \in V, NEW k \in 1..Len(s)
        PROVE  KeepStep(out, s[k], S) \in V
    BY <1>1 DEF KeepStep
  <2> HIDE DEF V
  <2> QED
    BY <2>1
<1>5. PICK f \in [SUBSET (1..Len(s)) -> V] : Folding(f, Len(s), <<>>, step)
  <2> HIDE DEF step
  <2> QED
    BY <1>1, <1>3, <1>4, FoldExists
<1>6. \A P \in SUBSET (1..Len(s)) : P # {} =>
        step[<<f[P \ {Max(P)}], Max(P)>>] = KeepStep(f[P \ {Max(P)}], s[Max(P)], S)
  <2> TAKE P \in SUBSET (1..Len(s))
  <2> HAVE P # {}
  <2>1. Max(P) \in 1..Len(s) /\ P \ {Max(P)} \in SUBSET (1..Len(s))
    BY <1>1, RestOf
  <2>2. <<f[P \ {Max(P)}], Max(P)>> \in V \X (1..Len(s))
    BY <1>5, <2>1
  <2> QED
    BY <2>2
<1>7. f = Fold(f)
  <2> HIDE DEF step
  <2> QED
    BY <1>5, <1>6 DEF Folding
<1>8. folded = Fold(folded)
  <2> HIDE DEF Fold
  <2> QED
    BY <1>7, Zenon
<1> HIDE DEF folded
<1> DEFINE t == [k \in 0..Len(s) |-> folded[1..k]]
<1>9. t[0] = <<>>
  <2>1. folded[{}] = <<>>
    BY <1>8
  <2> QED
    BY <1>1, <2>1
<1>10. ASSUME NEW k \in 1..Len(s)
       PROVE  t[k] = KeepStep(t[k - 1], s[k], S)
  <2>1. Max(1..k) = k /\ (1..k) \ {k} = 1..(k - 1) /\ 1..k # {}
    BY Positions
  <2>2. 1..k \in SUBSET (1..Len(s)) /\ k \in 0..Len(s) /\ k - 1 \in 0..Len(s)
    BY <1>1
  <2>3. folded[1..k] = KeepStep(folded[(1..k) \ {Max(1..k)}], s[Max(1..k)], S)
    BY <1>8, <2>1, <2>2
  <2> QED
    BY <2>1, <2>2, <2>3
<1>11. Only(s, S) = t[Len(s)]
  BY <1>1, <1>2
<1> QED
  <2> HIDE DEF t
  <2> QED
    BY <1>9, <1>10, <1>11

(* What is selected is what is in S.                                       *)
LEMMA OnlyType ==
  ASSUME NEW X, NEW s \in Seq(X), NEW S
  PROVE  Only(s, S) \in Seq(X) /\ ToSet(Only(s, S)) = ToSet(s) \cap S
<1> DEFINE n == Len(s)
           Upto(k) == {s[i] : i \in 1..k}
<1>1. PICK t : /\ t[0] = <<>>
               /\ \A k \in 1..n : t[k] = KeepStep(t[k - 1], s[k], S)
               /\ Only(s, S) = t[n]
  BY OnlyTrace
<1>2. n \in Nat /\ ToSet(s) = Upto(n) /\ \A k \in 1..n : s[k] \in X
  BY SequenceOf
<1> DEFINE Good == {x \in [upto : 0..n, out : Seq(X)] : ToSet(x.out) = Upto(x.upto) \cap S}
           pairs == [k \in 0..n |-> [upto |-> k, out |-> t[k]]]
<1>3. pairs[0] \in Good
  <2>1. Upto(0) = {} /\ ToSet(<<>>) = {} /\ <<>> \in Seq(X)
    BY DEF ToSet
  <2> HIDE DEF Upto
  <2>2. [upto |-> 0, out |-> <<>>] \in Good
    BY <1>2, <2>1
  <2> QED
    BY <1>1, <1>2, <2>2
<1>4. ASSUME NEW k \in 1..n, pairs[k - 1] \in Good
      PROVE  pairs[k] \in Good
  <2>1. k - 1 \in 0..n /\ k \in 0..n
    BY <1>2
  <2>2. t[k - 1] \in Seq(X) /\ ToSet(t[k - 1]) = Upto(k - 1) \cap S
    BY <1>4, <2>1
  <2>3. Upto(k) = Upto(k - 1) \cup {s[k]}
    <3>1. 1..k = (1..(k - 1)) \cup {k}
      OBVIOUS
    <3> QED
      BY <3>1
  <2>4. t[k] = KeepStep(t[k - 1], s[k], S)
    BY <1>1
  <2>5. t[k] \in Seq(X) /\ ToSet(t[k]) = Upto(k) \cap S
    <3>1. CASE s[k] \in S
      <4>1. t[k] = Append(t[k - 1], s[k])
        BY <2>4, <3>1 DEF KeepStep
      <4>2. ToSet(Append(t[k - 1], s[k])) = ToSet(t[k - 1]) \cup {s[k]}
        <5> HIDE DEF Upto
        <5> QED
          BY <1>2, <2>2, AppendedSet
      <4> QED
        BY <1>2, <2>2, <2>3, <3>1, <4>1, <4>2
    <3>2. CASE s[k] \notin S
      <4>1. t[k] = t[k - 1]
        BY <2>4, <3>2 DEF KeepStep
      <4> QED
        BY <2>2, <2>3, <3>2, <4>1
    <3> QED
      BY <3>1, <3>2
  <2> HIDE DEF Upto
  <2> QED
    BY <2>1, <2>5
<1>5. pairs[n] \in Good
  <2> HIDE DEF pairs, Good
  <2>1. 0 \in 0..n /\ \A k \in (0 + 1)..n : pairs[k - 1] \in Good => pairs[k] \in Good
    BY <1>2, <1>4
  <2> QED
    BY <1>2, <1>3, <2>1, TraceStays
<1> QED
  BY <1>1, <1>2, <1>5

(* What is selected from two sequences in a row is selected from each.     *)
LEMMA OnlyConcat ==
  ASSUME NEW X, NEW p \in Seq(X), NEW q \in Seq(X), NEW S
  PROVE  Only(p \o q, S) = Only(p, S) \o Only(q, S)
<1> DEFINE m == Len(p)
           n == Len(q)
<1>1. p \o q \in Seq(X) /\ Len(p \o q) = m + n /\ m \in Nat /\ n \in Nat
  BY ConcatProperties
<1>2. \A k \in 1..m : (p \o q)[k] = p[k]
  BY <1>1
<1>3. \A k \in 1..n : (p \o q)[m + k] = q[k]
  BY <1>1
<1>4. PICK a : /\ a[0] = <<>>
               /\ \A k \in 1..m : a[k] = KeepStep(a[k - 1], p[k], S)
               /\ Only(p, S) = a[m]
  BY OnlyTrace
<1>5. PICK b : /\ b[0] = <<>>
               /\ \A k \in 1..n : b[k] = KeepStep(b[k - 1], q[k], S)
               /\ Only(q, S) = b[n]
  BY OnlyTrace
<1>6. PICK c : /\ c[0] = <<>>
               /\ \A k \in 1..(m + n) : c[k] = KeepStep(c[k - 1], (p \o q)[k], S)
               /\ Only(p \o q, S) = c[m + n]
  <2> DEFINE r == p \o q
  <2>1. r \in Seq(X) /\ Len(r) = m + n
    BY <1>1
  <2> HIDE DEF r
  <2>2. \E c : /\ c[0] = <<>>
               /\ \A k \in 1..Len(r) : c[k] = KeepStep(c[k - 1], r[k], S)
               /\ Only(r, S) = c[Len(r)]
    BY <2>1, OnlyTrace
  <2> QED
    BY <2>1, <2>2 DEF r
<1>7. c[m] = a[m]
  <2> DEFINE Good == {0}
             differ == [k \in 0..m |-> IF c[k] = a[k] THEN 0 ELSE 1]
  <2>1. differ[0] \in Good
    BY <1>1, <1>4, <1>6
  <2>2. ASSUME NEW k \in 1..m, differ[k - 1] \in Good
        PROVE  differ[k] \in Good
    <3>1. k - 1 \in 0..m /\ k \in 0..m /\ k \in 1..(m + n)
      BY <1>1
    <3>2. c[k - 1] = a[k - 1]
      BY <2>2, <3>1
    <3>3. c[k] = a[k]
      BY <1>2, <1>4, <1>6, <3>1, <3>2
    <3> QED
      BY <3>1, <3>3
  <2>3. differ[m] \in Good
    <3> HIDE DEF differ, Good
    <3>1. 0 \in 0..m /\ \A k \in (0 + 1)..m : differ[k - 1] \in Good => differ[k] \in Good
      BY <1>1, <2>2
    <3> QED
      BY <1>1, <2>1, <3>1, TraceStays
  <2> QED
    BY <1>1, <2>3
<1>8. PICK w \in Seq(X) : w = a[m]
  BY <1>4, OnlyType
<1>9. c[m + n] = w \o b[n]
  <2> DEFINE Good == {[one |-> w \o v, two |-> v] : v \in Seq(X)}
             pairs == [k \in 0..n |-> [one |-> c[m + k], two |-> b[k]]]
  <2>1. pairs[0] \in Good
    <3>1. c[m + 0] = w /\ b[0] = <<>> /\ w \o <<>> = w /\ <<>> \in Seq(X)
      BY <1>1, <1>5, <1>7, <1>8
    <3>2. pairs[0] = [one |-> w \o <<>>, two |-> <<>>]
      BY <1>1, <3>1
    <3> QED
      BY <1>8, <3>1, <3>2
  <2>2. ASSUME NEW k \in 1..n, pairs[k - 1] \in Good
        PROVE  pairs[k] \in Good
    <3>1. k - 1 \in 0..n /\ k \in 0..n /\ m + k \in 1..(m + n) /\ m + k - 1 = m + (k - 1)
      BY <1>1
    <3>2. /\ c[m + (k - 1)] \in Seq(X) /\ b[k - 1] \in Seq(X)
          /\ c[m + (k - 1)] = w \o b[k - 1]
      <4>1. PICK v \in Seq(X) : pairs[k - 1] = [one |-> w \o v, two |-> v]
        BY <2>2
      <4>2. pairs[k - 1] = [one |-> c[m + (k - 1)], two |-> b[k - 1]]
        BY <3>1
      <4> HIDE DEF pairs
      <4>3. c[m + (k - 1)] = w \o v /\ b[k - 1] = v
        BY <4>1, <4>2
      <4> QED
        BY <4>3, ConcatProperties
    <3>3. c[m + k] = KeepStep(c[m + (k - 1)], q[k], S) /\ b[k] = KeepStep(b[k - 1], q[k], S) /\ q[k] \in X
      BY <1>3, <1>5, <1>6, <3>1
    <3>4. /\ c[m + k] \in Seq(X) /\ b[k] \in Seq(X) /\ c[m + k] = w \o b[k]
      <4>1. CASE q[k] \in S
        <5>1. c[m + k] = Append(w \o b[k - 1], q[k]) /\ b[k] = Append(b[k - 1], q[k])
          BY <3>2, <3>3, <4>1 DEF KeepStep
        <5>2. Append(w \o b[k - 1], q[k]) = w \o Append(b[k - 1], q[k])
          <6>1. PICK u \in Seq(X) : u = b[k - 1]
            BY <3>2
          <6>3. PICK z \in X : z = q[k]
            BY <3>3
          <6>2. Append(w \o u, z) = w \o Append(u, z)
            <7> HIDE DEF Good, pairs, m, n
            <7>1. Append(w \o u, z) = (w \o u) \o <<z>>
              BY ConcatProperties, AppendIsConcat
            <7>2. Append(u, z) = u \o <<z>> /\ <<z>> \in Seq(X)
              BY AppendIsConcat
            <7>3. (w \o u) \o <<z>> = w \o (u \o <<z>>)
              BY <7>2, ConcatAssociative
            <7> QED
              BY <7>1, <7>2, <7>3
          <6> QED
            BY <6>1, <6>2, <6>3
        <5> QED
          BY <1>8, <3>2, <3>3, <5>1, <5>2
      <4>2. CASE q[k] \notin S
        BY <3>2, <3>3, <4>2 DEF KeepStep
      <4> QED
        BY <4>1, <4>2
    <3> QED
      BY <3>1, <3>4
  <2>3. pairs[n] \in Good
    <3> HIDE DEF pairs, Good
    <3>1. 0 \in 0..n /\ \A k \in (0 + 1)..n : pairs[k - 1] \in Good => pairs[k] \in Good
      BY <1>1, <2>2
    <3> QED
      BY <1>1, <2>1, <3>1, TraceStays
  <2>4. pairs[n] = [one |-> c[m + n], two |-> b[n]]
    BY <1>1
  <2>5. PICK v \in Seq(X) : pairs[n] = [one |-> w \o v, two |-> v]
    BY <2>3
  <2> HIDE DEF pairs
  <2>6. c[m + n] = w \o v /\ b[n] = v
    BY <2>4, <2>5
  <2> QED
    BY <2>6
<1> QED
  BY <1>4, <1>5, <1>6, <1>8, <1>9

(* The same, with a name for the concatenation.                            *)
Both(p, q) == p \o q

LEMMA OnlyBoth ==
  ASSUME NEW X, NEW p \in Seq(X), NEW q \in Seq(X), NEW S
  PROVE  Only(Both(p, q), S) = Both(Only(p, S), Only(q, S))
BY OnlyConcat DEF Both

(* A selection depends on what of the sequence is in the set.              *)
LEMMA OnlySame ==
  ASSUME NEW X, NEW s \in Seq(X), NEW S, NEW T, ToSet(s) \cap S = ToSet(s) \cap T
  PROVE  Only(s, S) = Only(s, T)
<1> DEFINE n == Len(s)
<1>1. n \in Nat /\ \A k \in 1..n : s[k] \in ToSet(s)
  BY SequenceOf
<1>2. PICK a : /\ a[0] = <<>>
               /\ \A k \in 1..n : a[k] = KeepStep(a[k - 1], s[k], S)
               /\ Only(s, S) = a[n]
  BY OnlyTrace
<1>3. PICK b : /\ b[0] = <<>>
               /\ \A k \in 1..n : b[k] = KeepStep(b[k - 1], s[k], T)
               /\ Only(s, T) = b[n]
  BY OnlyTrace
<1> DEFINE Good == {0}
           differ == [k \in 0..n |-> IF a[k] = b[k] THEN 0 ELSE 1]
<1>4. differ[0] \in Good
  BY <1>1, <1>2, <1>3
<1>5. ASSUME NEW k \in 1..n, differ[k - 1] \in Good
      PROVE  differ[k] \in Good
  <2>1. k - 1 \in 0..n /\ k \in 0..n
    BY <1>1
  <2>2. a[k - 1] = b[k - 1]
    BY <1>5, <2>1
  <2>3. s[k] \in S <=> s[k] \in T
    BY <1>1
  <2>4. a[k] = b[k]
    BY <1>2, <1>3, <2>2, <2>3 DEF KeepStep
  <2> QED
    BY <2>1, <2>4
<1>6. differ[n] \in Good
  <2> HIDE DEF differ, Good
  <2>1. 0 \in 0..n /\ \A k \in (0 + 1)..n : differ[k - 1] \in Good => differ[k] \in Good
    BY <1>1, <1>5
  <2> QED
    BY <1>1, <1>4, <2>1, TraceStays
<1> QED
  BY <1>1, <1>2, <1>3, <1>6

(* Of what is not in the set, nothing is selected.                         *)
LEMMA OnlyNothing ==
  ASSUME NEW X, NEW s \in Seq(X), NEW S, ToSet(s) \cap S = {}
  PROVE  Only(s, S) = <<>>
<1>1. Only(s, S) \in Seq(X) /\ ToSet(Only(s, S)) = {}
  BY OnlyType
<1> DEFINE o == Only(s, S)
<1>2. o \in Seq(X) /\ ToSet(o) = {}
  BY <1>1
<1> HIDE DEF o
<1>3. \A i \in 1..Len(o) : o[i] \in ToSet(o)
  BY <1>2, SequenceOf
<1>4. Len(o) = 0
  BY <1>2, <1>3
<1>5. o = <<>>
  BY <1>2, <1>4
<1> QED
  BY <1>5 DEF o

(* Of one value, at most this one.                                         *)
LEMMA OnlySingle ==
  ASSUME NEW x, NEW S
  PROVE  Only(<<x>>, S) = IF x \in S THEN <<x>> ELSE <<>>
<1> DEFINE s == <<x>>
<1>1. s \in Seq({x}) /\ Len(s) = 1 /\ s[1] = x
  OBVIOUS
<1> HIDE DEF s
<1>2. PICK t : /\ t[0] = <<>>
               /\ \A k \in 1..Len(s) : t[k] = KeepStep(t[k - 1], s[k], S)
               /\ Only(s, S) = t[Len(s)]
  BY <1>1, OnlyTrace
<1>3. Only(s, S) = KeepStep(<<>>, x, S)
  <2>1. t[1] = KeepStep(t[1 - 1], s[1], S)
    BY <1>1, <1>2
  <2> QED
    BY <1>1, <1>2, <2>1
<1>4. Append(<<>>, x) = <<x>>
  OBVIOUS
<1> QED
  BY <1>3, <1>4 DEF KeepStep, s
-------------------------------------------------------------------------------
(* Citations.                                                              *)

(* What the scan for citations sees of a line.                             *)
Scanned(l) == IF l = Fence THEN PlainLine ELSE l[2]

(* The URLs of the lines that may be bullets.                              *)
Urls(body) == {l[2].url : l \in {k \in ToSet(body) \ {Fence} : ~k[2].deep}}

(* The states of the scan of a body.                                       *)
Scans(body) ==
  [in : BOOLEAN, found : BOOLEAN, ambiguous : BOOLEAN, resources : Seq(Urls(body)),
   fence : {NoFence} \cup {Scanned(l).fence : l \in ToSet(body)},
   html : {""} \cup {Scanned(l).html : l \in ToSet(body)}]

(* A bullet, a line and so the whole scan keep to these states.            *)
LEMMA CitationType ==
  ASSUME NEW body, NEW scan \in Scans(body), NEW l \in ToSet(body)
  PROVE  Citation(scan, Scanned(l)) \in Scans(body)
<1> DEFINE line == Scanned(l)
<1>1. CASE ~scan.in \/ line.blank \/ line.deep
  BY <1>1 DEF Citation
<1>2. CASE ~(~scan.in \/ line.blank \/ line.deep) /\ line.url = ""
  <2>1. Citation(scan, line) = [scan EXCEPT !.ambiguous = TRUE]
    BY <1>2 DEF Citation
  <2>2. [scan EXCEPT !.ambiguous = TRUE] \in Scans(body)
    BY DEF Scans
  <2> QED
    BY <2>1, <2>2
<1>3. CASE ~(~scan.in \/ line.blank \/ line.deep) /\ line.url # ""
  <2>1. Citation(scan, line) =
          [scan EXCEPT !.resources = IF line.url \in ToSet(scan.resources) THEN scan.resources
                                     ELSE Append(scan.resources, line.url)]
    BY <1>3 DEF Citation
  <2>2. l # Fence
    BY <1>3 DEF Scanned, PlainLine
  <2>3. line.url \in Urls(body)
    <3>1. line = l[2]
      BY <2>2 DEF Scanned
    <3>2. ~l[2].deep /\ line.url = l[2].url
      BY <1>3, <3>1
    <3> HIDE DEF line
    <3> QED
      BY <2>2, <3>2 DEF Urls
  <2>4. scan.resources \in Seq(Urls(body))
    BY DEF Scans
  <2> DEFINE found == IF line.url \in ToSet(scan.resources) THEN scan.resources ELSE Append(scan.resources, line.url)
  <2>5. found \in Seq(Urls(body))
    <3> HIDE DEF line
    <3> QED
      BY <2>3, <2>4
  <2>6. Citation(scan, line) = [scan EXCEPT !.resources = found]
    BY <2>1
  <2> HIDE DEF found
  <2>7. [scan EXCEPT !.resources = found] \in Scans(body)
    BY <2>5 DEF Scans
  <2> QED
    BY <2>6, <2>7
<1> QED
  BY <1>1, <1>2, <1>3

LEMMA ScanLineType ==
  ASSUME NEW body, NEW scan \in Scans(body), NEW l \in ToSet(body)
  PROVE  ScanLine(scan, Scanned(l)) \in Scans(body)
<1> DEFINE line == Scanned(l)
           F == {NoFence} \cup {Scanned(k).fence : k \in ToSet(body)}
           H == {""} \cup {Scanned(k).html : k \in ToSet(body)}
<1>1. /\ line.fence \in F /\ NoFence \in F /\ line.html \in H /\ "" \in H
  OBVIOUS
<1>2. /\ scan.in \in BOOLEAN /\ scan.found \in BOOLEAN /\ scan.ambiguous \in BOOLEAN
      /\ scan.fence \in F /\ scan.html \in H
  BY DEF Scans
<1>3. InFence(scan, line) \in Scans(body)
  <2> HIDE DEF line
  <2> QED
    BY <1>1 DEF InFence, Scans
<1>4. InHtml(scan, line) \in Scans(body)
  <2> DEFINE one == scan.found \/ line.mentions
             two == scan.ambiguous \/ line.mentions
             three == IF scan.html \in line.ends THEN "" ELSE scan.html
  <2>1. one \in BOOLEAN /\ two \in BOOLEAN /\ three \in H
    <3> HIDE DEF line, H
    <3> QED
      BY <1>1, <1>2
  <2>2. InHtml(scan, line) = [scan EXCEPT !.found = one, !.ambiguous = two, !.html = three]
    BY DEF InHtml
  <2> HIDE DEF line, one, two, three
  <2> QED
    BY <2>1, <2>2 DEF Scans
<1>5. [scan EXCEPT !.fence = line.fence, !.ambiguous = @ \/ scan.in] \in Scans(body)
  <2> DEFINE two == scan.ambiguous \/ scan.in
  <2>1. two \in BOOLEAN
    BY <1>2
  <2>2. [scan EXCEPT !.fence = line.fence, !.ambiguous = @ \/ scan.in] =
        [scan EXCEPT !.fence = line.fence, !.ambiguous = two]
    OBVIOUS
  <2> HIDE DEF line, two
  <2> QED
    BY <1>1, <2>1, <2>2 DEF Scans
<1>6. [scan EXCEPT !.found = @ \/ scan.in \/ line.mentions,
                   !.ambiguous = @ \/ scan.in \/ line.mentions,
                   !.html = IF line.html \in line.ends THEN "" ELSE line.html] \in Scans(body)
  <2> DEFINE one == scan.found \/ scan.in \/ line.mentions
             two == scan.ambiguous \/ scan.in \/ line.mentions
             three == IF line.html \in line.ends THEN "" ELSE line.html
  <2>1. one \in BOOLEAN /\ two \in BOOLEAN /\ three \in H
    <3> HIDE DEF line, H
    <3> QED
      BY <1>1, <1>2
  <2>2. [scan EXCEPT !.found = @ \/ scan.in \/ line.mentions,
                     !.ambiguous = @ \/ scan.in \/ line.mentions,
                     !.html = IF line.html \in line.ends THEN "" ELSE line.html] =
        [scan EXCEPT !.found = one, !.ambiguous = two, !.html = three]
    OBVIOUS
  <2> HIDE DEF line, one, two, three
  <2> QED
    BY <2>1, <2>2 DEF Scans
<1>7. [scan EXCEPT !.in = line.title = "Citations", !.found = @ \/ line.title = "Citations"] \in Scans(body)
  <2> DEFINE one == line.title = "Citations"
             two == scan.found \/ line.title = "Citations"
  <2>1. one \in BOOLEAN /\ two \in BOOLEAN
    BY <1>2
  <2>2. [scan EXCEPT !.in = line.title = "Citations", !.found = @ \/ line.title = "Citations"] =
        [scan EXCEPT !.in = one, !.found = two]
    OBVIOUS
  <2> HIDE DEF line, one, two
  <2> QED
    BY <2>1, <2>2 DEF Scans
<1>8. Citation(scan, line) \in Scans(body)
  BY CitationType
<1> HIDE DEF line
<1> QED
  BY <1>3, <1>4, <1>5, <1>6, <1>7, <1>8 DEF ScanLine, line

(* The scan is the last of a sequence of steps.                            *)
LEMMA AnalysisTrace ==
  ASSUME NEW body, IsText(body)
  PROVE  \E t : /\ t[0] = ScanStart
                /\ \A k \in 1..Len(body) : t[k] = ScanLine(t[k - 1], Scanned(body[k]))
                /\ AnalyzeCitations(body) = t[Len(body)]
<1> DEFINE V == Scans(body)
           Fold(f) == [P \in SUBSET (1..Len(body)) |->
                         IF P = {} THEN ScanStart ELSE ScanLine(f[P \ {Max(P)}], Scanned(body[Max(P)]))]
           step == [x \in V \X (1..Len(body)) |-> ScanLine(x[1], Scanned(body[x[2]]))]
           folded == CHOOSE f : f = Fold(f)
<1>1. Len(body) \in Nat /\ DOMAIN body = 1..Len(body) /\ \A k \in 1..Len(body) : body[k] \in ToSet(body)
  BY DEF IsText
<1>2. AnalyzeCitations(body) = folded[1..Len(body)]
  BY <1>1 DEF AnalyzeCitations, Scanned, FoldLeft, MapThenFoldSet
<1>3. ScanStart \in V
  BY DEF ScanStart, Scans
<1>4. step \in [V \X (1..Len(body)) -> V]
  <2>1. ASSUME NEW scan \in V, NEW k \in 1..Len(body)
        PROVE  ScanLine(scan, Scanned(body[k])) \in V
    BY <1>1, ScanLineType
  <2> HIDE DEF V
  <2> QED
    BY <2>1
<1>5. PICK f \in [SUBSET (1..Len(body)) -> V] : Folding(f, Len(body), ScanStart, step)
  <2> HIDE DEF step
  <2> QED
    BY <1>1, <1>3, <1>4, FoldExists
<1>6. \A P \in SUBSET (1..Len(body)) : P # {} =>
        step[<<f[P \ {Max(P)}], Max(P)>>] = ScanLine(f[P \ {Max(P)}], Scanned(body[Max(P)]))
  <2> TAKE P \in SUBSET (1..Len(body))
  <2> HAVE P # {}
  <2>1. Max(P) \in 1..Len(body) /\ P \ {Max(P)} \in SUBSET (1..Len(body))
    BY <1>1, RestOf
  <2>2. <<f[P \ {Max(P)}], Max(P)>> \in V \X (1..Len(body))
    BY <1>5, <2>1
  <2> QED
    BY <2>2
<1>7. f = Fold(f)
  <2> HIDE DEF step
  <2> QED
    BY <1>5, <1>6 DEF Folding
<1>8. folded = Fold(folded)
  <2> HIDE DEF Fold
  <2> QED
    BY <1>7, Zenon
<1> HIDE DEF folded
<1> DEFINE t == [k \in 0..Len(body) |-> folded[1..k]]
<1>9. t[0] = ScanStart
  <2>1. folded[{}] = ScanStart
    BY <1>8
  <2> QED
    BY <1>1, <2>1
<1>10. ASSUME NEW k \in 1..Len(body)
       PROVE  t[k] = ScanLine(t[k - 1], Scanned(body[k]))
  <2>1. Max(1..k) = k /\ (1..k) \ {k} = 1..(k - 1) /\ 1..k # {}
    BY Positions
  <2>2. 1..k \in SUBSET (1..Len(body)) /\ k \in 0..Len(body) /\ k - 1 \in 0..Len(body)
    BY <1>1
  <2>3. folded[1..k] = ScanLine(folded[(1..k) \ {Max(1..k)}], Scanned(body[Max(1..k)]))
    BY <1>8, <2>1, <2>2
  <2> QED
    BY <2>1, <2>2, <2>3
<1>11. AnalyzeCitations(body) = t[Len(body)]
  BY <1>1, <1>2
<1> QED
  <2> HIDE DEF t
  <2> QED
    BY <1>9, <1>10, <1>11

(* What is cited are URLs of bullets.                                      *)
LEMMA CitedUrls ==
  ASSUME NEW body, IsText(body)
  PROVE  AnalyzeCitations(body) \in Scans(body)
<1> DEFINE n == Len(body)
<1>1. n \in Nat /\ \A k \in 1..n : body[k] \in ToSet(body)
  BY DEF IsText
<1>2. PICK t : /\ t[0] = ScanStart
               /\ \A k \in 1..n : t[k] = ScanLine(t[k - 1], Scanned(body[k]))
               /\ AnalyzeCitations(body) = t[n]
  BY AnalysisTrace
<1>3. t[0] \in Scans(body)
  <2>1. ScanStart \in Scans(body)
    BY DEF ScanStart, Scans
  <2> QED
    BY <1>2, <2>1
<1>4. \A k \in (0 + 1)..n : t[k - 1] \in Scans(body) => t[k] \in Scans(body)
  BY <1>1, <1>2, ScanLineType
<1>5. t[n] \in Scans(body)
  <2> HIDE DEF n
  <2>1. 0 \in 0..n
    BY <1>1
  <2> QED
    BY <1>1, <1>3, <1>4, <2>1, TraceStays
<1> QED
  BY <1>2, <1>5
-------------------------------------------------------------------------------
(* What edits do to a frontmatter.                                         *)

(* The lines of a splice.                                                  *)
LEMMA SpliceSet ==
  ASSUME NEW f, NEW ls, IsText(f), IsText(ls), NEW from \in 0..Len(f), NEW upto \in from..Len(f)
  PROVE  ToSet(Splice(f, from, upto, ls)) =
           {f[i] : i \in 1..from} \cup ToSet(ls) \cup {f[i] : i \in (upto + 1)..Len(f)}
<1> DEFINE s == Splice(f, from, upto, ls)
<1>1. IsSplice(s, f, from, upto, ls)
  BY Spliced
<1> HIDE DEF s
<1>2. /\ Len(f) \in Nat /\ Len(ls) \in Nat /\ Len(s) = from + Len(ls) + (Len(f) - upto) /\ s \in Seq(ToSet(s))
      /\ ls \in Seq(ToSet(ls))
  BY <1>1 DEF IsSplice, IsText
<1>3. /\ \A i \in 1..from : s[i] = f[i]
      /\ \A i \in 1..Len(ls) : s[from + i] = ls[i]
      /\ \A i \in 1..(Len(f) - upto) : s[from + Len(ls) + i] = f[upto + i]
  BY <1>1 DEF IsSplice
<1>4. ToSet(s) = {s[i] : i \in 1..Len(s)} /\ ToSet(ls) = {ls[i] : i \in 1..Len(ls)}
  BY <1>2, SequenceOf
<1>5. ASSUME NEW v \in ToSet(s)
      PROVE  v \in {f[i] : i \in 1..from} \cup ToSet(ls) \cup {f[i] : i \in (upto + 1)..Len(f)}
  <2>1. PICK i \in 1..Len(s) : v = s[i]
    BY <1>4
  <2>2. CASE i <= from
    BY <1>3, <2>1, <2>2
  <2>3. CASE i > from /\ i <= from + Len(ls)
    <3>1. i - from \in 1..Len(ls) /\ from + (i - from) = i
      BY <1>2, <2>3
    <3>2. v = ls[i - from]
      BY <1>3, <2>1, <3>1
    <3> QED
      BY <1>4, <3>1, <3>2
  <2>4. CASE i > from + Len(ls)
    <3> DEFINE j == i - from - Len(ls)
    <3>1. j \in 1..(Len(f) - upto) /\ from + Len(ls) + j = i /\ upto + j \in (upto + 1)..Len(f)
      BY <1>2, <2>4
    <3> HIDE DEF j
    <3>2. v = f[upto + j]
      BY <1>3, <2>1, <3>1
    <3> QED
      BY <3>1, <3>2
  <2> QED
    BY <1>2, <2>2, <2>3, <2>4
<1>6. ASSUME NEW i \in 1..from
      PROVE  f[i] \in ToSet(s)
  <2>1. i \in 1..Len(s) /\ s[i] = f[i]
    BY <1>2, <1>3
  <2> QED
    BY <1>4, <2>1
<1>7. ASSUME NEW i \in 1..Len(ls)
      PROVE  ls[i] \in ToSet(s)
  <2>1. from + i \in 1..Len(s) /\ s[from + i] = ls[i]
    BY <1>2, <1>3
  <2> QED
    BY <1>4, <2>1
<1>8. ASSUME NEW i \in (upto + 1)..Len(f)
      PROVE  f[i] \in ToSet(s)
  <2> DEFINE j == i - upto
  <2>1. j \in 1..(Len(f) - upto) /\ upto + j = i /\ from + Len(ls) + j \in 1..Len(s)
    BY <1>2
  <2> HIDE DEF j
  <2>2. s[from + Len(ls) + j] = f[i]
    BY <1>3, <2>1
  <2> QED
    BY <1>4, <2>1, <2>2
<1>9. ToSet(s) = {f[i] : i \in 1..from} \cup ToSet(ls) \cup {f[i] : i \in (upto + 1)..Len(f)}
  BY <1>4, <1>5, <1>6, <1>7, <1>8
<1> QED
  BY <1>9 DEF s

(* The lines that a migration may write or replace.                        *)
Owned(l) == l = <<"deeper">> \/ (l[1] = "field" /\ l[2] \in {"okf_version", "timestamp", "generated", "sources"})

(* The other lines are kept.                                               *)
KeptOf(S) ==
  {l \in S \ {<<"deeper">>} : l[1] = "field" => l[2] \notin {"okf_version", "timestamp", "generated", "sources"}}

LEMMA KeptIsOwned ==
  ASSUME NEW S, NEW l \in S
  PROVE  l \in KeptOf(S) <=> ~Owned(l)
BY DEF KeptOf, Owned

(* Where only such lines are written or replaced, what is kept is the      *)
(* same.                                                                   *)
LEMMA KeptSplice ==
  ASSUME NEW f, NEW ls, IsText(f), IsText(ls), NEW from \in 0..Len(f), NEW upto \in from..Len(f),
         \A l \in ToSet(ls) : Owned(l), \A i \in (from + 1)..upto : Owned(f[i])
  PROVE  KeptFields(Splice(f, from, upto, ls)) = KeptFields(f)
<1> DEFINE X == ToSet(f) \cup ToSet(ls)
           K == KeptOf(X)
           p == SubSeq(f, 1, from)
           r == SubSeq(f, from + 1, upto)
           q == SubSeq(f, upto + 1, Len(f))
<1>1. f \in Seq(X) /\ ls \in Seq(X) /\ Len(f) \in Nat
  BY SeqMonotonic DEF IsText
<1>2. ASSUME NEW s \in Seq(X)
      PROVE  KeptFields(s) = Only(s, K)
  <2>1. ToSet(s) \subseteq X
    BY SequenceOf
  <2>2. ToSet(s) \cap KeptOf(ToSet(s)) = ToSet(s) \cap K
    <3>1. ASSUME NEW l \in ToSet(s)
          PROVE  l \in KeptOf(ToSet(s)) <=> l \in KeptOf(X)
      BY <2>1 DEF KeptOf
    <3> QED
      BY <3>1
  <2>3. KeptFields(s) = Only(s, KeptOf(ToSet(s)))
    BY DEF KeptFields, KeptOf
  <2> HIDE DEF X, K
  <2> QED
    BY <2>2, <2>3, OnlySame
<1>3. p \in Seq(X) /\ r \in Seq(X) /\ q \in Seq(X)
  <2> HIDE DEF X
  <2> QED
    BY <1>1
<1>4. Only(ls, K) = <<>>
  <2>1. ToSet(ls) \cap K = {}
    BY KeptIsOwned
  <2> HIDE DEF X, K
  <2> QED
    BY <1>1, <2>1, OnlyNothing
<1>5. Only(r, K) = <<>>
  <2>1. ASSUME NEW l \in ToSet(r)
        PROVE  Owned(l)
    <3> HIDE DEF r, X
    <3>1. Len(r) = upto - from /\ \A i \in 1..Len(r) : r[i] = f[from + i]
      BY <1>1 DEF r
    <3>2. PICK i \in 1..Len(r) : l = r[i]
      BY <1>3, SequenceOf
    <3>3. from + i \in (from + 1)..upto
      BY <3>1
    <3> QED
      BY <3>1, <3>2, <3>3
  <2>2. ToSet(r) \subseteq X
    <3> HIDE DEF X, r
    <3> QED
      BY <1>3, SequenceOf
  <2>3. ToSet(r) \cap K = {}
    <3> HIDE DEF X, r
    <3> QED
      BY <2>1, <2>2, KeptIsOwned
  <2> HIDE DEF X, K, r
  <2> QED
    BY <1>3, <2>3, OnlyNothing
<1> HIDE DEF X, K
<1>6. f = p \o (r \o q)
  <2>1. SubSeq(f, 1, Len(f)) = f
    BY <1>1, SubSeqFull
  <2>4. /\ from + 1 \in 1..(Len(f) + 1) /\ upto \in ((from + 1) - 1)..Len(f) /\ Len(f) \in upto..Len(f)
        /\ 1 \in 1..(Len(f) + 1) /\ from \in (1 - 1)..Len(f) /\ Len(f) \in from..Len(f)
    BY <1>1
  <2>2. r \o q = SubSeq(f, from + 1, Len(f))
    BY <1>1, <2>4, ConcatAdjacentSubSeq, Zenon
  <2>3. p \o SubSeq(f, from + 1, Len(f)) = SubSeq(f, 1, Len(f))
    BY <1>1, <2>4, ConcatAdjacentSubSeq, Zenon
  <2> QED
    BY <2>1, <2>2, <2>3
<1>7. Splice(f, from, upto, ls) = (p \o ls) \o q
  BY DEF Splice
<1> HIDE DEF p, q, r
<1>8. p \o ls \in Seq(X) /\ r \o q \in Seq(X) /\ (p \o ls) \o q \in Seq(X) /\ p \o (r \o q) \in Seq(X)
  BY <1>1, <1>3, ConcatProperties
<1>9. Only(p, K) \in Seq(X) /\ Only(q, K) \in Seq(X)
  BY <1>3, OnlyType
<1>10. Only((p \o ls) \o q, K) = Only(p, K) \o Only(q, K)
  <2>1. Only(Both(Both(p, ls), q), K) = Both(Only(Both(p, ls), K), Only(q, K))
    <3>1. Both(p, ls) \in Seq(X)
      BY <1>8 DEF Both
    <3> QED
      BY <1>3, <3>1, OnlyBoth
  <2>2. Only(Both(p, ls), K) = Both(Only(p, K), Only(ls, K))
    BY <1>1, <1>3, OnlyBoth
  <2>3. Both(Only(p, K), <<>>) = Only(p, K)
    BY <1>9, ConcatEmptySeq DEF Both
  <2>4. Only(Both(Both(p, ls), q), K) = Both(Only(p, K), Only(q, K))
    BY <1>4, <2>1, <2>2, <2>3
  <2> QED
    BY <2>4 DEF Both
<1>11. Only(p \o (r \o q), K) = Only(p, K) \o Only(q, K)
  <2>1. Only(Both(p, Both(r, q)), K) = Both(Only(p, K), Only(Both(r, q), K))
    <3>1. Both(r, q) \in Seq(X)
      BY <1>8 DEF Both
    <3> QED
      BY <1>3, <3>1, OnlyBoth
  <2>2. Only(Both(r, q), K) = Both(Only(r, K), Only(q, K))
    BY <1>3, OnlyBoth
  <2>3. Both(<<>>, Only(q, K)) = Only(q, K)
    BY <1>9, ConcatEmptySeq DEF Both
  <2>4. Only(Both(p, Both(r, q)), K) = Both(Only(p, K), Only(q, K))
    BY <1>5, <2>1, <2>2, <2>3
  <2> QED
    BY <2>4 DEF Both
<1> QED
  BY <1>1, <1>2, <1>6, <1>7, <1>8, <1>10, <1>11

(* A line that has the key, as a field or in a flow mapping.               *)
HasKey(l, key) == (l[1] = "field" /\ l[2] = key) \/ (l[1] = "flow" /\ key \in DOMAIN l[2])

(* The keys of a text are those of the lines of its frontmatter.           *)
LEMMA KeysOfLines ==
  ASSUME NEW t, NEW key
  PROVE  key \in Keys(t) <=> \E l \in ToSet(FrontLines(t)) : HasKey(l, key)
<1> DEFINE LineKeys(l) == CASE l[1] = "field" -> {l[2]} [] l[1] = "flow" -> DOMAIN l[2] [] OTHER -> {}
<1>1. ASSUME NEW l
      PROVE  key \in LineKeys(l) <=> HasKey(l, key)
  <2>1. CASE l[1] = "field"
    BY <2>1 DEF HasKey
  <2>2. CASE l[1] = "flow"
    BY <2>2 DEF HasKey
  <2>3. CASE l[1] # "field" /\ l[1] # "flow"
    BY <2>3 DEF HasKey
  <2> QED
    BY <2>1, <2>2, <2>3
<1>2. Keys(t) = UNION {LineKeys(l) : l \in ToSet(FrontLines(t))}
  BY DEF Keys
<1> HIDE DEF LineKeys
<1> QED
  BY <1>1, <1>2

(* A range is a line of the field.                                         *)
LEMMA RangeShape ==
  ASSUME NEW t, NEW key, SimpleFieldRange(t, key).is = "range", IsText(FrontLines(t))
  PROVE  \E i \in 1..Len(FrontLines(t)) :
           /\ SimpleFieldRange(t, key).line = Mark(t) + 1 + i
           /\ FrontLines(t)[i][1] = "field" /\ FrontLines(t)[i][2] = key
<1> DEFINE front == FrontLines(t)
           starts == {i \in DOMAIN front : front[i][1] = "field" /\ front[i][2] = key}
           i == CHOOSE n \in starts : \A m \in starts : n <= m
           line == i + 1 + (IF Head(t) = Bom THEN 1 ELSE 0)
<1>1. SimpleFieldRange(t, key) =
        IF starts = {} THEN [is |-> "unavailable"]
        ELSE IF front[i][3] # "plain" \/ ValueContinues(front, i) THEN NoRange
        ELSE IF t[line] # front[i] THEN [is |-> "unavailable"]
        ELSE [is |-> "range", line |-> line]
  BY DEF SimpleFieldRange
<1>2. [is |-> "unavailable"].is # "range" /\ NoRange.is # "range"
  BY DEF NoRange
<1>3. starts # {} /\ SimpleFieldRange(t, key) = [is |-> "range", line |-> line]
  <2> HIDE DEF starts, i, line, front
  <2> QED
    BY <1>1, <1>2
<1>4. Len(front) \in Nat /\ DOMAIN front = 1..Len(front)
  BY DEF IsText
<1>5. starts \in SUBSET Nat
  BY <1>4
<1>6. \E n \in starts : \A m \in starts : n <= m
  <2> HIDE DEF starts
  <2> QED
    BY <1>3, <1>5, LeastOf
<1>7. i \in starts
  <2> HIDE DEF starts
  <2> QED
    BY <1>6
<1>8. i \in 1..Len(front) /\ front[i][1] = "field" /\ front[i][2] = key
  <2> HIDE DEF i
  <2> QED
    BY <1>4, <1>7
<1>9. line = Mark(t) + 1 + i
  <2> HIDE DEF i
  <2>1. i \in Nat
    BY <1>5, <1>7
  <2> QED
    BY <2>1 DEF Mark
<1>10. SimpleFieldRange(t, key).line = line
  BY <1>3
<1> HIDE DEF i, line
<1> QED
  BY <1>8, <1>9, <1>10

(* One line of the frontmatter, replaced.                                  *)
LEMMA RenewedShape ==
  ASSUME NEW t, NEW b, NEW f, NEW y, Shaped(t, b, f, y), NEW ls, IsText(ls), Fence \notin ToSet(ls),
         NEW i \in 1..Len(f)
  PROVE  Shaped(Put(Edit(b + i, b + 1 + i, ls), t), b, Splice(f, i - 1, i, ls), y)
<1>1. b \in {0, 1} /\ Len(f) \in Nat
  BY DEF Shaped, IsText
<1>2. i - 1 \in 0..Len(f) /\ i \in (i - 1)..Len(f) /\ b + 1 + (i - 1) = b + i
  BY <1>1
<1>3. Shaped(Splice(t, b + 1 + (i - 1), b + 1 + i, ls), b, Splice(f, i - 1, i, ls), y)
  BY <1>2, SpliceShape
<1>4. Put(Edit(b + i, b + 1 + i, ls), t) = Splice(t, b + i, b + 1 + i, ls)
  BY DEF Put, Edit
<1> QED
  BY <1>2, <1>3, <1>4

(* Lines, added at the end of the frontmatter.                             *)
LEMMA ExtendedShape ==
  ASSUME NEW t, NEW b, NEW f, NEW y, Shaped(t, b, f, y), NEW ls, IsText(ls), Fence \notin ToSet(ls)
  PROVE  Shaped(Put(Edit(b + 1 + Len(f), b + 1 + Len(f), ls), t), b, Splice(f, Len(f), Len(f), ls), y)
<1>1. Len(f) \in Nat
  BY DEF Shaped, IsText
<1>2. Shaped(Splice(t, b + 1 + Len(f), b + 1 + Len(f), ls), b, Splice(f, Len(f), Len(f), ls), y)
  BY <1>1, SpliceShape
<1> QED
  BY <1>2 DEF Put, Edit

(* The lines that replace a timestamp, and those that list the sources.    *)
Stamped(timestamp) == <<<<"field", "generated", "block", timestamp>>, <<"deeper">>, <<"deeper">>>>

Cited(resources) ==
  <<<<"field", "sources", "block", resources>>>> \o [i \in DOMAIN resources |-> <<"deeper">>]

(* The lines that replace a timestamp.                                     *)
LEMMA StampedLines ==
  ASSUME NEW v
  PROVE  /\ IsText(Stamped(v)) /\ Fence \notin ToSet(Stamped(v))
         /\ ToSet(Stamped(v)) = {<<"field", "generated", "block", v>>, <<"deeper">>}
         /\ \A l \in ToSet(Stamped(v)) : Owned(l)
<1> DEFINE S == {<<"field", "generated", "block", v>>, <<"deeper">>}
           s == Stamped(v)
<1>1. /\ s \in Seq(S) /\ Len(s) = 3 /\ s[1] = <<"field", "generated", "block", v>> /\ s[2] = <<"deeper">>
      /\ s[3] = <<"deeper">>
  BY DEF Stamped
<1>2. Owned(<<"field", "generated", "block", v>>) /\ Owned(<<"deeper">>)
  BY DEF Owned
<1>3. Fence # <<"field", "generated", "block", v>> /\ Fence # <<"deeper">>
  BY DEF Fence
<1> HIDE DEF s
<1>4. ToSet(s) = {s[i] : i \in 1..3}
  BY <1>1, SequenceOf
<1>5. 1..3 = {1, 2, 3}
  OBVIOUS
<1>6. ToSet(s) = S
  BY <1>1, <1>4, <1>5
<1>7. IsText(s)
  BY <1>1, SequenceOf DEF IsText
<1> QED
  BY <1>2, <1>3, <1>6, <1>7 DEF s

(* The lines that list the sources.                                        *)
LEMMA CitedLines ==
  ASSUME NEW U, NEW resources \in Seq(U)
  PROVE  /\ IsText(Cited(resources)) /\ Fence \notin ToSet(Cited(resources))
         /\ <<"field", "sources", "block", resources>> \in ToSet(Cited(resources))
         /\ \A l \in ToSet(Cited(resources)) : l = <<"field", "sources", "block", resources>> \/ l = <<"deeper">>
         /\ \A l \in ToSet(Cited(resources)) : Owned(l)
<1> DEFINE head == <<"field", "sources", "block", resources>>
           S == {head, <<"deeper">>}
           r == [i \in DOMAIN resources |-> <<"deeper">>]
<1>1. r \in Seq(S) /\ ToSet(r) \subseteq {<<"deeper">>}
  <2>1. DOMAIN resources = 1..Len(resources) /\ Len(resources) \in Nat
    OBVIOUS
  <2>2. r \in [1..Len(resources) -> S]
    BY <2>1
  <2>3. r \in Seq(S)
    <3> HIDE DEF r, S
    <3> QED
      BY <2>1, <2>2
  <2>4. \A i \in DOMAIN r : r[i] = <<"deeper">>
    OBVIOUS
  <2> HIDE DEF r, S
  <2> QED
    BY <2>3, <2>4 DEF ToSet
<1>2. <<head>> \in Seq(S) /\ ToSet(<<head>>) = {head}
  <2>1. <<head>> \in Seq(S) /\ Len(<<head>>) = 1 /\ <<head>>[1] = head
    OBVIOUS
  <2> HIDE DEF head
  <2>2. 1..1 = {1}
    OBVIOUS
  <2> QED
    BY <2>1, <2>2 DEF ToSet
<1>3. Owned(head) /\ Owned(<<"deeper">>)
  BY DEF Owned
<1>4. Fence # head /\ Fence # <<"deeper">>
  BY DEF Fence
<1> HIDE DEF r, head
<1>5. <<head>> \o r \in Seq(S) /\ ToSet(<<head>> \o r) = {head} \cup ToSet(r)
  <2> DEFINE h == <<head>>
  <2>1. h \in Seq(S) /\ ToSet(h) = {head}
    BY <1>2
  <2> HIDE DEF h, S
  <2>2. h \o r \in Seq(S)
    BY <1>1, <2>1, ConcatProperties
  <2>3. ToSet(h \o r) = ToSet(h) \cup ToSet(r)
    BY <1>1, <2>1, ConcatSet
  <2> QED
    BY <2>1, <2>2, <2>3 DEF h
<1>6. Cited(resources) = <<head>> \o r
  BY DEF Cited, r, head
<1> HIDE DEF S
<1>7. IsText(<<head>> \o r)
  BY <1>5, SequenceOf DEF IsText
<1>8. /\ ToSet(Cited(resources)) = {head} \cup ToSet(r) /\ IsText(Cited(resources))
  BY <1>5, <1>6, <1>7
<1>9. \A l \in ToSet(Cited(resources)) : l = head \/ l = <<"deeper">>
  BY <1>1, <1>8
<1> QED
  BY <1>3, <1>4, <1>8, <1>9 DEF head

(* The fronts that one edit makes of f.                                    *)
LEMMA StampedFront ==
  ASSUME NEW f, IsText(f), NEW i \in 1..Len(f), f[i][1] = "field", f[i][2] = "timestamp", NEW v
  PROVE  LET g == Splice(f, i - 1, i, Stamped(v))
         IN /\ IsText(g) /\ KeptFields(g) = KeptFields(f)
            /\ \A l \in ToSet(f) : l \in ToSet(g) \/ (l[1] = "field" /\ l[2] = "timestamp")
            /\ \A l \in ToSet(g) : l \in ToSet(f) \/ l \in ToSet(Stamped(v))
            /\ ToSet(Stamped(v)) \subseteq ToSet(g)
<1> DEFINE ls == Stamped(v)
           g == Splice(f, i - 1, i, ls)
<1>1. /\ Len(f) \in Nat /\ i - 1 \in 0..Len(f) /\ i \in (i - 1)..Len(f)
      /\ ToSet(f) = {f[j] : j \in 1..Len(f)}
  BY SequenceOf DEF IsText
<1>2. IsText(ls) /\ \A l \in ToSet(ls) : Owned(l)
  BY StampedLines
<1>3. \A j \in ((i - 1) + 1)..i : Owned(f[j])
  BY DEF Owned
<1> HIDE DEF ls
<1>4. KeptFields(g) = KeptFields(f)
  BY <1>1, <1>2, <1>3, KeptSplice
<1>5. ToSet(g) = {f[j] : j \in 1..(i - 1)} \cup ToSet(ls) \cup {f[j] : j \in (i + 1)..Len(f)}
  BY <1>1, <1>2, SpliceSet
<1>6. IsText(g)
  BY <1>1, <1>2, Spliced DEF IsSplice
<1> HIDE DEF g
<1>7. ASSUME NEW l \in ToSet(f)
      PROVE  l \in ToSet(g) \/ (l[1] = "field" /\ l[2] = "timestamp")
  <2>1. PICK j \in 1..Len(f) : l = f[j]
    BY <1>1
  <2>2. j \in 1..(i - 1) \/ j = i \/ j \in (i + 1)..Len(f)
    BY <1>1
  <2> QED
    BY <1>5, <2>1, <2>2
<1>8. ASSUME NEW l \in ToSet(g)
      PROVE  l \in ToSet(f) \/ l \in ToSet(ls)
  <2>1. \A j \in 1..(i - 1) : j \in 1..Len(f)
    BY <1>1
  <2>2. \A j \in (i + 1)..Len(f) : j \in 1..Len(f)
    BY <1>1
  <2> QED
    BY <1>1, <1>5, <2>1, <2>2
<1>9. ToSet(ls) \subseteq ToSet(g)
  BY <1>5
<1> QED
  BY <1>4, <1>6, <1>7, <1>8, <1>9 DEF g, ls

(* The lines of the sources are put at the end, after all the others.      *)
LEMMA CitedFront ==
  ASSUME NEW f, IsText(f), NEW U, NEW resources \in Seq(U)
  PROVE  LET g == Splice(f, Len(f), Len(f), Cited(resources))
         IN /\ IsText(g) /\ KeptFields(g) = KeptFields(f) /\ Len(f) <= Len(g) /\ Len(g) \in Nat
            /\ \A i \in 1..Len(f) : g[i] = f[i]
            /\ ToSet(g) = ToSet(f) \cup ToSet(Cited(resources))
<1> DEFINE ls == Cited(resources)
           g == Splice(f, Len(f), Len(f), ls)
<1>1. /\ Len(f) \in Nat /\ Len(f) \in 0..Len(f) /\ Len(f) \in Len(f)..Len(f)
      /\ ToSet(f) = {f[j] : j \in 1..Len(f)} /\ (Len(f) + 1)..Len(f) = {}
  <2>1. ToSet(f) = {f[j] : j \in 1..Len(f)} /\ Len(f) \in Nat
    BY SequenceOf DEF IsText
  <2> QED
    BY <2>1
<1>2. IsText(ls) /\ \A l \in ToSet(ls) : Owned(l)
  BY CitedLines
<1> HIDE DEF ls
<1>4. KeptFields(g) = KeptFields(f)
  BY <1>1, <1>2, KeptSplice
<1>5. ToSet(g) = {f[j] : j \in 1..Len(f)} \cup ToSet(ls) \cup {f[j] : j \in (Len(f) + 1)..Len(f)}
  BY <1>1, <1>2, SpliceSet
<1>6. IsSplice(g, f, Len(f), Len(f), ls)
  BY <1>1, <1>2, Spliced
<1> HIDE DEF g
<1>7. ToSet(g) = ToSet(f) \cup ToSet(ls)
  BY <1>1, <1>5
<1>8. IsText(g) /\ Len(g) = Len(f) + Len(ls) + (Len(f) - Len(f)) /\ \A i \in 1..Len(f) : g[i] = f[i]
  BY <1>6 DEF IsSplice
<1>9. Len(ls) \in Nat
  BY <1>2 DEF IsText
<1> QED
  BY <1>1, <1>4, <1>7, <1>8, <1>9 DEF g, ls

-------------------------------------------------------------------------------
(* A concept and its edits.                                                *)

(* What a text cites.                                                      *)
SourcesOf(t) == AnalyzeCitations(Body(t)).resources

(* The edit of a timestamp is that of a line of the frontmatter.           *)
LEMMA TimestampEditShape ==
  ASSUME NEW t, IsText(FrontLines(t)), Mark(t) \in {0, 1}, TimestampEdits(t) # {}
  PROVE  \E i \in 1..Len(FrontLines(t)) :
           /\ FrontLines(t)[i][1] = "field" /\ FrontLines(t)[i][2] = "timestamp"
           /\ TimestampEdits(t) = {Edit(Mark(t) + i, Mark(t) + 1 + i, Stamped(Value(t, "timestamp")))}
<1>1. /\ TimestampRange(t).is = "range"
      /\ TimestampEdits(t) = {GeneratedEdit(TimestampRange(t).line, Value(t, "timestamp"))}
  BY DEF TimestampEdits
<1>2. NoRange.is # "range"
  BY DEF NoRange
<1>3. TimestampRange(t) = SimpleFieldRange(t, "timestamp")
  BY <1>1, <1>2 DEF TimestampRange
<1>4. PICK i \in 1..Len(FrontLines(t)) :
        /\ SimpleFieldRange(t, "timestamp").line = Mark(t) + 1 + i
        /\ FrontLines(t)[i][1] = "field" /\ FrontLines(t)[i][2] = "timestamp"
  BY <1>1, <1>3, RangeShape
<1>5. Mark(t) + 1 + i - 1 = Mark(t) + i
  <2>1. Len(FrontLines(t)) \in Nat
    BY DEF IsText
  <2> QED
    BY <2>1
<1>6. GeneratedEdit(Mark(t) + 1 + i, Value(t, "timestamp")) =
        Edit(Mark(t) + i, Mark(t) + 1 + i, Stamped(Value(t, "timestamp")))
  BY <1>5 DEF GeneratedEdit, Stamped
<1> QED
  BY <1>1, <1>3, <1>4, <1>6

(* The edit of the citations is at the end of the frontmatter.             *)
LEMMA CitationEditShape ==
  ASSUME NEW t, NEW b, NEW f, NEW y, Shaped(t, b, f, y)
  PROVE  SourcesEdit(t, SourcesOf(t)) = Edit(b + 1 + Len(f), b + 1 + Len(f), Cited(SourcesOf(t)))
<1>1. ClosingStart(t) = b + 2 + Len(f)
  BY ShapeParts
<1>2. b \in {0, 1} /\ Len(f) \in Nat
  BY DEF Shaped, IsText
<1>3. ClosingStart(t) - 1 = b + 1 + Len(f)
  BY <1>1, <1>2
<1> QED
  BY <1>3 DEF SourcesEdit, Cited

(* There is at most this edit of the citations.                            *)
LEMMA CitationEditsAre ==
  ASSUME NEW t, NEW insert
  PROVE  CitationEdits(t, insert) = {} \/ CitationEdits(t, insert) = {SourcesEdit(t, SourcesOf(t))}
BY DEF CitationEdits, SourcesOf

(* The front that the edits of a concept make.                             *)
MigratedFront(t, insert, g) ==
  LET f == FrontLines(t)
      stamped == ToSet(Stamped(Value(t, "timestamp")))
      cited == ToSet(Cited(SourcesOf(t)))
  IN /\ KeptFields(g) = KeptFields(f)
     /\ \A l \in ToSet(f) : l \in ToSet(g) \/ (TimestampEdits(t) # {} /\ l[1] = "field" /\ l[2] = "timestamp")
     /\ \A l \in ToSet(g) : \/ l \in ToSet(f)
                            \/ TimestampEdits(t) # {} /\ l \in stamped
                            \/ CitationEdits(t, insert) # {} /\ l \in cited
     /\ TimestampEdits(t) # {} => stamped \subseteq ToSet(g)
     /\ CitationEdits(t, insert) # {} => cited \subseteq ToSet(g)
     /\ TimestampEdits(t) = {} /\ CitationEdits(t, insert) = {} => g = f
     /\ TimestampEdits(t) = {} /\ CitationEdits(t, insert) # {} =>
          g = Splice(f, Len(f), Len(f), Cited(SourcesOf(t)))

(* The edits of a concept change its frontmatter alone, and only by the    *)
(* lines above.                                                            *)
LEMMA ConceptShape ==
  ASSUME NEW t, IsText(t), HasFrontmatter(t), NEW insert
  PROVE  \E g : /\ Shaped(ApplyEdits(t, ConceptEdits(t, insert)), Mark(t), g, Body(t))
                /\ MigratedFront(t, insert, g)
<1> DEFINE b == Mark(t)
           f == FrontLines(t)
           y == Body(t)
           res == SourcesOf(t)
           v == Value(t, "timestamp")
           TE == TimestampEdits(t)
           CE == CitationEdits(t, insert)
           C == Edit(b + 1 + Len(f), b + 1 + Len(f), Cited(res))
           f1 == Splice(f, Len(f), Len(f), Cited(res))
<1>1. Shaped(t, b, f, y)
  BY ShapeOf
<1>2. IsText(f) /\ IsText(y) /\ b \in {0, 1} /\ Len(f) \in Nat
  BY <1>1 DEF Shaped, IsText
<1>3. PICK U : res \in Seq(U)
  <2>1. AnalyzeCitations(y) \in Scans(y)
    BY <1>2, CitedUrls
  <2>2. AnalyzeCitations(y).resources \in Seq(Urls(y))
    BY <2>1 DEF Scans
  <2> QED
    BY <2>2 DEF SourcesOf
<1>4. IsText(Cited(res)) /\ Fence \notin ToSet(Cited(res))
  BY <1>3, CitedLines
<1>5. CE = {} \/ CE = {C}
  BY <1>1, CitationEditShape, CitationEditsAre
<1>6. ConceptEdits(t, insert) = TE \cup CE
  BY DEF ConceptEdits
<1>7. C.from = b + 1 + Len(f)
  BY DEF Edit
<1>8. Shaped(Put(C, t), b, f1, y)
  BY <1>1, <1>4, ExtendedShape
<1>9. /\ IsText(f1) /\ KeptFields(f1) = KeptFields(f) /\ Len(f) <= Len(f1) /\ Len(f1) \in Nat
      /\ \A i \in 1..Len(f) : f1[i] = f[i]
      /\ ToSet(f1) = ToSet(f) \cup ToSet(Cited(res))
  BY <1>2, <1>3, CitedFront
<1>10. CASE TE = {} /\ CE = {}
  <2>1. ApplyEdits(t, ConceptEdits(t, insert)) = t
    BY <1>6, <1>10, ApplyNone
  <2>2. MigratedFront(t, insert, f)
    BY <1>10 DEF MigratedFront
  <2> QED
    BY <1>1, <2>1, <2>2
<1>11. CASE TE = {} /\ CE # {}
  <2>1. ApplyEdits(t, ConceptEdits(t, insert)) = Put(C, t)
    <3>1. ConceptEdits(t, insert) = {C} /\ C.from \in Nat
      BY <1>2, <1>5, <1>6, <1>7, <1>11
    <3> HIDE DEF C
    <3> QED
      BY <3>1, ApplyOne
  <2>2. MigratedFront(t, insert, f1)
    <3> HIDE DEF f1
    <3> QED
      BY <1>9, <1>11 DEF MigratedFront, f1
  <2> QED
    BY <1>8, <2>1, <2>2
<1>12. CASE TE # {}
  <2>1. PICK i \in 1..Len(f) : /\ f[i][1] = "field" /\ f[i][2] = "timestamp"
                               /\ TE = {Edit(b + i, b + 1 + i, Stamped(v))}
    BY <1>2, <1>12, TimestampEditShape
  <2> DEFINE G == Edit(b + i, b + 1 + i, Stamped(v))
             g0 == Splice(f, i - 1, i, Stamped(v))
             g1 == Splice(f1, i - 1, i, Stamped(v))
  <2>2. IsText(Stamped(v)) /\ Fence \notin ToSet(Stamped(v))
    BY StampedLines
  <2>3. G.from = b + i /\ G.from \in Nat /\ C.from \in Nat /\ G.from < C.from
    BY <1>2, <1>7 DEF Edit
  <2>4. CASE CE = {}
    <3>1. ApplyEdits(t, ConceptEdits(t, insert)) = Put(G, t)
      <4>1. ConceptEdits(t, insert) = {G}
        BY <1>6, <2>1, <2>4
      <4> HIDE DEF G
      <4> QED
        BY <2>3, <4>1, ApplyOne
    <3>2. Shaped(Put(G, t), b, g0, y)
      BY <1>1, <2>2, RenewedShape
    <3>3. /\ IsText(g0) /\ KeptFields(g0) = KeptFields(f)
          /\ \A l \in ToSet(f) : l \in ToSet(g0) \/ (l[1] = "field" /\ l[2] = "timestamp")
          /\ \A l \in ToSet(g0) : l \in ToSet(f) \/ l \in ToSet(Stamped(v))
          /\ ToSet(Stamped(v)) \subseteq ToSet(g0)
      BY <1>2, <2>1, StampedFront
    <3>4. MigratedFront(t, insert, g0)
      <4> HIDE DEF g0
      <4> QED
        BY <1>12, <2>4, <3>3 DEF MigratedFront
    <3> QED
      BY <3>1, <3>2, <3>4
  <2>5. CASE CE # {}
    <3>1. ApplyEdits(t, ConceptEdits(t, insert)) = Put(G, Put(C, t))
      <4>1. ConceptEdits(t, insert) = {G, C}
        BY <1>5, <1>6, <2>1, <2>5
      <4> HIDE DEF G, C
      <4> QED
        BY <2>3, <4>1, ApplyTwo
    <3>2. i \in 1..Len(f1) /\ f1[i] = f[i]
      BY <1>2, <1>9
    <3>3. Shaped(Put(G, Put(C, t)), b, g1, y)
      <4> HIDE DEF C, f1
      <4> QED
        BY <1>8, <2>2, <3>2, RenewedShape
    <3>4. /\ IsText(g1) /\ KeptFields(g1) = KeptFields(f1)
          /\ \A l \in ToSet(f1) : l \in ToSet(g1) \/ (l[1] = "field" /\ l[2] = "timestamp")
          /\ \A l \in ToSet(g1) : l \in ToSet(f1) \/ l \in ToSet(Stamped(v))
          /\ ToSet(Stamped(v)) \subseteq ToSet(g1)
      <4> HIDE DEF f1
      <4> QED
        BY <1>9, <2>1, <3>2, StampedFront
    <3>6. ToSet(Cited(res)) \subseteq ToSet(g1)
      <4>1. \A l \in ToSet(Cited(res)) : l = <<"field", "sources", "block", res>> \/ l = <<"deeper">>
        BY <1>3, CitedLines
      <4>2. \A l \in ToSet(Cited(res)) : ~(l[1] = "field" /\ l[2] = "timestamp")
        BY <4>1
      <4> HIDE DEF f1, g1
      <4> QED
        BY <1>9, <3>4, <4>2
    <3>5. MigratedFront(t, insert, g1)
      <4> HIDE DEF g1, f1
      <4> QED
        BY <1>9, <1>12, <2>5, <3>4, <3>6 DEF MigratedFront
    <3> QED
      BY <3>1, <3>3, <3>5
  <2> QED
    BY <2>4, <2>5
<1> QED
  BY <1>10, <1>11, <1>12
-------------------------------------------------------------------------------
(* What a planned text keeps, and what it tells.                           *)

(* n has the body, the mark and the other fields of t.                     *)
Survives(t, n) ==
  /\ IsText(n) /\ HasFrontmatter(n)
  /\ Body(n) = Body(t)
  /\ KeptFields(FrontLines(n)) = KeptFields(FrontLines(t))
  /\ Head(n) = Bom <=> Head(t) = Bom

(* A text of the same mark and body whose other fields are the same.       *)
LEMMA ShapeSurvives ==
  ASSUME NEW t, IsText(t), HasFrontmatter(t), NEW n, NEW g, Shaped(n, Mark(t), g, Body(t)),
         KeptFields(g) = KeptFields(FrontLines(t))
  PROVE  Survives(t, n) /\ FrontLines(n) = g /\ Body(n) = Body(t)
<1>1. Shaped(t, Mark(t), FrontLines(t), Body(t))
  BY ShapeOf
<1>2. /\ HasFrontmatter(n) /\ FrontLines(n) = g /\ Body(n) = Body(t)
      /\ Head(n) = Bom <=> Mark(t) = 1
  BY ShapeParts
<1>3. Head(t) = Bom <=> Mark(t) = 1
  BY <1>1, ShapeParts
<1>4. IsText(n)
  BY DEF Shaped
<1> QED
  BY <1>2, <1>3, <1>4 DEF Survives

(* The root index, whose version is written: one line of its frontmatter.  *)
LEMMA RootShape ==
  ASSUME NEW t, IsText(t), HasFrontmatter(t), SimpleFieldRange(t, "okf_version").is = "range"
  PROVE  LET f == FrontLines(t)
             vline == <<"field", "okf_version", "plain", "0.2">>
             n == ApplyEdits(t, {VersionEdit(SimpleFieldRange(t, "okf_version").line)})
         IN \E i \in 1..Len(f) :
              /\ Shaped(n, Mark(t), Splice(f, i - 1, i, <<vline>>), Body(t))
              /\ f[i][1] = "field" /\ f[i][2] = "okf_version"
              /\ IsText(f) /\ IsText(<<vline>>) /\ ToSet(<<vline>>) = {vline} /\ Owned(vline)
<1> DEFINE b == Mark(t)
           f == FrontLines(t)
           y == Body(t)
           vline == <<"field", "okf_version", "plain", "0.2">>
           ls == <<vline>>
<1>1. Shaped(t, b, f, y)
  BY ShapeOf
<1>2. IsText(f) /\ IsText(y) /\ b \in {0, 1} /\ Len(f) \in Nat
  BY <1>1 DEF Shaped, IsText
<1>3. PICK i \in 1..Len(f) : /\ SimpleFieldRange(t, "okf_version").line = b + 1 + i
                             /\ f[i][1] = "field" /\ f[i][2] = "okf_version"
  BY <1>2, RangeShape
<1>4. IsText(ls) /\ Fence \notin ToSet(ls) /\ ToSet(ls) = {vline} /\ Owned(vline)
  <2>1. vline # Fence /\ Owned(vline)
    BY DEF Fence, Owned
  <2>2. ls \in Seq({vline}) /\ ls[1] = vline /\ Len(ls) = 1
    OBVIOUS
  <2> HIDE DEF vline, ls
  <2>3. ToSet(ls) = {vline}
    <3>1. 1..1 = {1}
      OBVIOUS
    <3> QED
      BY <2>2, <3>1, SequenceOf
  <2> QED
    BY <2>1, <2>2, <2>3 DEF IsText
<1>5. VersionEdit(b + 1 + i) = Edit(b + i, b + 1 + i, ls)
  <2>1. (b + 1 + i) - 1 = b + i
    BY <1>2
  <2>2. \A k : VersionEdit(k) = Edit(k - 1, k, ls)
    BY DEF VersionEdit
  <2> HIDE DEF ls, b
  <2> QED
    BY <2>1, <2>2
<1>6. ApplyEdits(t, {VersionEdit(b + 1 + i)}) = Put(Edit(b + i, b + 1 + i, ls), t)
  <2> DEFINE e == Edit(b + i, b + 1 + i, ls)
  <2>1. e.from \in Nat
    BY <1>2 DEF Edit
  <2> HIDE DEF e
  <2> QED
    BY <1>5, <2>1, ApplyOne DEF e
<1> HIDE DEF ls
<1>7. Shaped(Put(Edit(b + i, b + 1 + i, ls), t), b, Splice(f, i - 1, i, ls), y)
  BY <1>1, <1>4, RenewedShape
<1> HIDE DEF vline
<1> QED
  BY <1>2, <1>3, <1>4, <1>6, <1>7 DEF ls, vline

(* The root whose version is written keeps its other fields.               *)
LEMMA RootSurvives ==
  ASSUME NEW t, IsText(t), HasFrontmatter(t), SimpleFieldRange(t, "okf_version").is = "range"
  PROVE  Survives(t, ApplyEdits(t, {VersionEdit(SimpleFieldRange(t, "okf_version").line)}))
<1> DEFINE f == FrontLines(t)
           n == ApplyEdits(t, {VersionEdit(SimpleFieldRange(t, "okf_version").line)})
           vline == <<"field", "okf_version", "plain", "0.2">>
           ls == <<vline>>
<1>1. PICK i \in 1..Len(f) :
        /\ Shaped(n, Mark(t), Splice(f, i - 1, i, ls), Body(t))
        /\ f[i][1] = "field" /\ f[i][2] = "okf_version"
        /\ IsText(f) /\ IsText(ls) /\ ToSet(ls) = {vline} /\ Owned(vline)
  BY RootShape
<1> HIDE DEF n, vline, ls
<1>2. Len(f) \in Nat /\ i - 1 \in 0..Len(f) /\ i \in (i - 1)..Len(f)
  BY <1>1 DEF IsText
<1>3. \A j \in ((i - 1) + 1)..i : Owned(f[j])
  BY <1>1, <1>2 DEF Owned
<1>4. KeptFields(Splice(f, i - 1, i, ls)) = KeptFields(f)
  BY <1>1, <1>2, <1>3, KeptSplice
<1> QED
  BY <1>1, <1>4, ShapeSurvives DEF n

(* A concept: what is left to be done by hand is told, and what it gained  *)
(* are URLs of bullets.                                                    *)
Truthful(t, n, insert) ==
  LET unmigrated == AnalyzeCitations(Body(n)).found /\ "sources" \notin Keys(n)
      gained == "sources" \in Keys(n) \ Keys(t)
  IN /\ LegacyTimestamp(n) \/ unmigrated => ManualFollowUp(t, insert)
     /\ gained => \A r \in ToSet(Value(n, "sources")) :
          \E line \in ToSet(Body(n)) \ {Fence} : line[2].url = r /\ ~line[2].deep

(* What is planned for a concept keeps and tells what it should.           *)
LEMMA ConceptSurvives ==
  ASSUME NEW t, IsText(t), HasFrontmatter(t), NEW insert
  PROVE  LET n == ApplyEdits(t, ConceptEdits(t, insert)) IN Survives(t, n) /\ Truthful(t, n, insert)
<1> DEFINE n == ApplyEdits(t, ConceptEdits(t, insert))
           f == FrontLines(t)
           y == Body(t)
           res == SourcesOf(t)
           stamp == <<"field", "generated", "block", Value(t, "timestamp")>>
           cite == <<"field", "sources", "block", res>>
           stamped == ToSet(Stamped(Value(t, "timestamp")))
           cited == ToSet(Cited(res))
           TE == TimestampEdits(t)
           CE == CitationEdits(t, insert)
<1>1. PICK g : Shaped(n, Mark(t), g, y) /\ MigratedFront(t, insert, g)
  BY ConceptShape
<1>2. /\ KeptFields(g) = KeptFields(f)
      /\ \A l \in ToSet(f) : l \in ToSet(g) \/ (TE # {} /\ l[1] = "field" /\ l[2] = "timestamp")
      /\ \A l \in ToSet(g) : l \in ToSet(f) \/ (TE # {} /\ l \in stamped) \/ (CE # {} /\ l \in cited)
      /\ TE # {} => stamped \subseteq ToSet(g)
      /\ CE # {} => cited \subseteq ToSet(g)
  BY <1>1 DEF MigratedFront
<1> HIDE DEF n
<1>3. Survives(t, n) /\ FrontLines(n) = g /\ Body(n) = y
  BY <1>1, <1>2, ShapeSurvives
<1>4. res \in Seq(Urls(y))
  <2>1. IsText(y)
    BY <1>1 DEF Shaped
  <2>2. AnalyzeCitations(y) \in Scans(y)
    BY <2>1, CitedUrls
  <2>3. AnalyzeCitations(y).resources \in Seq(Urls(y))
    BY <2>2 DEF Scans
  <2> QED
    BY <2>3 DEF SourcesOf
<1>5. cite \in cited /\ \A l \in cited : l = cite \/ l = <<"deeper">>
  BY <1>4, CitedLines
<1>6. stamped = {stamp, <<"deeper">>}
  BY StampedLines
<1>7. \A key : key \in Keys(n) <=> \E l \in ToSet(g) : HasKey(l, key)
  BY <1>3, KeysOfLines
<1>8. \A key : key \in Keys(t) <=> \E l \in ToSet(f) : HasKey(l, key)
  BY KeysOfLines
<1>9. HasKey(stamp, "generated") /\ ~HasKey(stamp, "sources")
  BY DEF HasKey
<1>10. HasKey(cite, "sources") /\ ~HasKey(cite, "timestamp")
  BY DEF HasKey
<1>11. ~HasKey(<<"deeper">>, "sources") /\ ~HasKey(<<"deeper">>, "timestamp")
  BY DEF HasKey
<1>12. \A l : HasKey(l, "sources") \/ HasKey(l, "generated") => ~(l[1] = "field" /\ l[2] = "timestamp")
  BY DEF HasKey
<1> HIDE DEF stamp, cite, stamped, cited, TE, CE, f, y, res
<1>13. LegacyTimestamp(n) => ManualFollowUp(t, insert)
  <2> SUFFICES ASSUME LegacyTimestamp(n)
               PROVE  LegacyTimestamp(t) /\ TE = {}
    BY DEF ManualFollowUp, TE
  <2>1. "timestamp" \in Keys(n) /\ "generated" \notin Keys(n)
    BY DEF LegacyTimestamp
  <2>2. TE = {}
    BY <1>2, <1>6, <1>7, <1>9, <2>1
  <2>3. "timestamp" \in Keys(t)
    BY <1>2, <1>5, <1>7, <1>8, <1>10, <1>11, <2>1, <2>2
  <2>4. "generated" \notin Keys(t)
    BY <1>2, <1>7, <1>8, <2>1, <2>2
  <2> QED
    BY <2>2, <2>3, <2>4 DEF LegacyTimestamp
<1>14. AnalyzeCitations(Body(n)).found /\ "sources" \notin Keys(n) => ManualFollowUp(t, insert)
  <2> SUFFICES ASSUME AnalyzeCitations(Body(n)).found, "sources" \notin Keys(n)
               PROVE  AnalyzeCitations(Body(t)).found /\ "sources" \notin Keys(t) /\ CE = {}
    BY DEF ManualFollowUp, CE
  <2>1. AnalyzeCitations(Body(t)).found
    BY <1>3 DEF y
  <2>2. CE = {}
    BY <1>2, <1>5, <1>7, <1>10
  <2>3. "sources" \notin Keys(t)
    BY <1>2, <1>7, <1>8, <1>12
  <2> QED
    BY <2>1, <2>2, <2>3
<1>15. ASSUME "sources" \in Keys(n) \ Keys(t), NEW r \in ToSet(Value(n, "sources"))
       PROVE  \E line \in ToSet(Body(n)) \ {Fence} : line[2].url = r /\ ~line[2].deep
  <2>1. PICK l \in ToSet(g) : HasKey(l, "sources")
    BY <1>7, <1>15
  <2>2. \A k \in ToSet(f) : ~HasKey(k, "sources")
    BY <1>8, <1>15
  <2>3. CE # {} /\ cite \in ToSet(g)
    BY <1>2, <1>5, <1>6, <1>9, <1>11, <2>1, <2>2
  <2>4. \A k \in ToSet(g) : HasKey(k, "sources") => k = cite
    BY <1>2, <1>5, <1>6, <1>9, <1>11, <2>2
  <2>5. FieldLines(n, "sources") = {cite}
    <3>1. \A k : k[1] = "field" /\ k[2] = "sources" => HasKey(k, "sources")
      BY DEF HasKey
    <3>2. cite[1] = "field" /\ cite[2] = "sources"
      BY DEF cite
    <3> QED
      BY <1>3, <2>3, <2>4, <3>1, <3>2 DEF FieldLines
  <2>6. Value(n, "sources") = cite[4]
    BY <2>5 DEF Value
  <2>7. cite[4] = res
    BY DEF cite
  <2>8. r \in Urls(y)
    <3>1. r \in ToSet(res)
      BY <1>15, <2>6, <2>7
    <3> QED
      BY <1>4, <3>1, SequenceOf
  <2>9. PICK line \in {k \in ToSet(y) \ {Fence} : ~k[2].deep} : r = line[2].url
    BY <2>8 DEF Urls
  <2> QED
    BY <1>3, <2>9
<1>16. Truthful(t, n, insert)
  BY <1>13, <1>14, <1>15 DEF Truthful
<1> QED
  BY <1>3, <1>16 DEF n
-------------------------------------------------------------------------------
(* The pass: what is rendered, and what is left to do.                     *)

(* Documents that are texts, or cannot be read.                            *)
Legible(docs) ==
  /\ docs \in Seq(ToSet(docs))
  /\ \A d \in ToSet(docs) : d = [path |-> d.path, text |-> d.text] /\ (d.text = Unreadable \/ IsText(d.text))

(* Documents that can be told apart by their paths, and whose concepts     *)
(* have a frontmatter.                                                     *)
Addressed ==
  /\ \A d, e \in ToSet(documents) : d.path = e.path => d = e
  /\ \A d \in ToSet(documents) : IsConcept(d) => IsText(d.text) /\ HasFrontmatter(d.text)

(* The root index with its version, and a concept with its edits.          *)
RenderedRoot(f) ==
  \E d \in ToSet(documents) :
    /\ d.path = RootIndex /\ IsText(d.text) /\ HasFrontmatter(d.text)
    /\ SimpleFieldRange(d.text, "okf_version").is = "range"
    /\ f = [path |-> RootIndex,
            text |-> ApplyEdits(d.text, {VersionEdit(SimpleFieldRange(d.text, "okf_version").line)})]

RenderedConcept(f) ==
  \E d \in ToSet(documents) :
    /\ IsConcept(d)
    /\ f = [path |-> d.path, text |-> ApplyEdits(d.text, ConceptEdits(d.text, allow))]

ConceptResult(r) ==
  \E d \in ToSet(documents) : IsConcept(d) /\ r.path = d.path /\ r.manual = ManualFollowUp(d.text, allow)

(* A concept that has its result, and its file if it has edits.            *)
Done(d) ==
  /\ \E r \in results : r.path = d.path
  /\ ConceptEdits(d.text, allow) # {} => \E f \in ToSet(files) : f.path = d.path

(* What holds at the stages of the pass.                                   *)
Stages ==
  /\ at \in {"start", "concepts", "planned", "error"}
  /\ at = "start" => files = <<>> /\ results = {}
  /\ at \in {"concepts", "planned"} \/ files # <<>> => Addressed
  /\ at = "planned" => todo = <<>>

(* What is rendered and told is of the documents as they are.              *)
Planned ==
  /\ Legible(documents)
  /\ files \in Seq(ToSet(files))
  /\ \A f \in ToSet(files) : RenderedRoot(f) \/ RenderedConcept(f)
  /\ \A r \in results : r.path = RootIndex \/ ConceptResult(r)

(* A concept is still to do, or it is done.                                *)
Progress ==
  at \in {"concepts", "planned"} =>
    /\ todo \in Seq(ToSet(todo))
    /\ \A d \in ToSet(todo) : d \in ToSet(documents) /\ IsConcept(d)
    /\ \A d \in ToSet(documents) : IsConcept(d) => d \in ToSet(todo) \/ Done(d)

(* The root is the first file that is rendered, and the last one that is   *)
(* written.                                                                *)
RootFirstThenLast ==
  /\ at = "concepts" => \A i \in DOMAIN files : files[i].path = RootIndex => i = 1
  /\ VersionLast

(* The inductive invariant.                                                *)
PlanInvariant == Stages /\ Planned /\ Progress /\ RootFirstThenLast

(* The text at the path of a document is its text.                         *)
LEMMA TextIs ==
  ASSUME Addressed, NEW d \in ToSet(documents)
  PROVE  TextAt(d.path) = d.text
<1>1. \A e \in ToSet(documents) : e.path = d.path <=> e = d
  BY DEF Addressed
<1>2. (CHOOSE e \in ToSet(documents) : e.path = d.path) = d
  BY <1>1
<1> QED
  BY <1>2 DEF TextAt

(* What is rendered of a concept is rendered of it, and not of the root.   *)
LEMMA RenderedIs ==
  ASSUME Stages, Planned, Addressed, NEW d \in ToSet(documents), IsConcept(d), NEW f \in ToSet(files), f.path = d.path
  PROVE  f = [path |-> d.path, text |-> ApplyEdits(d.text, ConceptEdits(d.text, allow))]
<1>1. d.path # RootIndex
  BY ReservedAssumption DEF IsConcept
<1>2. f.path # RootIndex
  BY <1>1
<1>3. ~RenderedRoot(f)
  <2> SUFFICES ASSUME RenderedRoot(f) PROVE FALSE
    OBVIOUS
  <2>1. f.path = RootIndex
    BY DEF RenderedRoot
  <2> QED
    BY <1>2, <2>1
<1>4. RenderedConcept(f)
  BY <1>3 DEF Planned
<1>5. PICK e \in ToSet(documents) :
        /\ IsConcept(e)
        /\ f = [path |-> e.path, text |-> ApplyEdits(e.text, ConceptEdits(e.text, allow))]
  BY <1>4 DEF RenderedConcept
<1>6. e = d
  <2>1. f.path = e.path
    BY <1>5
  <2> QED
    BY <2>1 DEF Addressed
<1> QED
  BY <1>5, <1>6

(* The sources survive.                                                    *)
LEMMA FilesSurvive ==
  ASSUME Stages, Planned
  PROVE  SourceSurvives /\ \A f \in ToSet(files) : f = [path |-> f.path, text |-> f.text] /\ IsText(f.text)
<1>1. ASSUME NEW f \in ToSet(files)
      PROVE  Addressed
  <2>1. files # <<>>
    <3>1. ToSet(<<>>) = {}
      BY DEF ToSet
    <3> QED
      BY <3>1
  <2> QED
    BY <2>1 DEF Stages
<1>2. ASSUME NEW f \in ToSet(files)
      PROVE  Survives(TextAt(f.path), f.text) /\ f = [path |-> f.path, text |-> f.text]
  <2>1. CASE RenderedRoot(f)
    <3>1. PICK d \in ToSet(documents) :
            /\ d.path = RootIndex /\ IsText(d.text) /\ HasFrontmatter(d.text)
            /\ SimpleFieldRange(d.text, "okf_version").is = "range"
            /\ f = [path |-> RootIndex,
                    text |-> ApplyEdits(d.text, {VersionEdit(SimpleFieldRange(d.text, "okf_version").line)})]
      BY <2>1 DEF RenderedRoot
    <3>2. TextAt(d.path) = d.text
      BY <1>1, TextIs
    <3>3. f.path = d.path
      BY <3>1
    <3>4. Survives(d.text, f.text)
      BY <3>1, RootSurvives
    <3>5. f = [path |-> f.path, text |-> f.text]
      BY <3>1
    <3> QED
      BY <3>2, <3>3, <3>4, <3>5
  <2>2. CASE RenderedConcept(f)
    <3>1. PICK d \in ToSet(documents) :
            /\ IsConcept(d)
            /\ f = [path |-> d.path, text |-> ApplyEdits(d.text, ConceptEdits(d.text, allow))]
      BY <2>2 DEF RenderedConcept
    <3>2. TextAt(d.path) = d.text
      BY <1>1, TextIs
    <3>3. f.path = d.path
      BY <3>1
    <3>4. IsText(d.text) /\ HasFrontmatter(d.text)
      BY <1>1, <3>1 DEF Addressed
    <3>5. Survives(d.text, f.text)
      BY <3>1, <3>4, ConceptSurvives
    <3>6. f = [path |-> f.path, text |-> f.text]
      BY <3>1
    <3> QED
      BY <3>2, <3>3, <3>5, <3>6
  <2> QED
    BY <2>1, <2>2 DEF Planned
<1>3. SourceSurvives
  BY <1>2 DEF SourceSurvives, Survives
<1>4. \A f \in ToSet(files) : IsText(f.text)
  BY <1>2 DEF Survives
<1> QED
  BY <1>2, <1>3, <1>4

(* A document stays at its path.                                           *)
LEMMA AppliedPath ==
  ASSUME NEW i \in DOMAIN documents
  PROVE  Applied[i].path = documents[i].path
<1> DEFINE R == Rendered(documents[i].path)
<1>1. Applied[i] = IF R = {} THEN documents[i] ELSE CHOOSE f \in R : TRUE
  BY DEF Applied
<1>2. \A f \in R : f.path = documents[i].path
  BY DEF Rendered
<1> HIDE DEF R
<1> QED
  BY <1>1, <1>2

(* What a concept is, once the plan is applied.                            *)
LEMMA AppliedConcept ==
  ASSUME PlanInvariant, at \in {"concepts", "planned"}, todo = <<>>, NEW i \in DOMAIN documents, IsConcept(documents[i])
  PROVE  /\ documents[i] \in ToSet(documents)
         /\ Applied[i] = [path |-> documents[i].path,
                          text |-> ApplyEdits(documents[i].text, ConceptEdits(documents[i].text, allow))]
<1> DEFINE d == documents[i]
           n == ApplyEdits(d.text, ConceptEdits(d.text, allow))
           R == Rendered(d.path)
<1>1. d \in ToSet(documents) /\ Addressed /\ d = [path |-> d.path, text |-> d.text]
  <2>1. d \in ToSet(documents)
    BY DEF ToSet
  <2> QED
    BY <2>1 DEF PlanInvariant, Stages, Planned, Legible
<1>2. Applied[i] = IF R = {} THEN d ELSE CHOOSE f \in R : TRUE
  BY DEF Applied
<1>3. \A f \in R : f \in ToSet(files) /\ f.path = d.path
  BY DEF Rendered
<1>4. CASE R = {}
  <2>1. Done(d)
    <3>1. ToSet(<<>>) = {}
      BY DEF ToSet
    <3> QED
      BY <1>1, <3>1 DEF PlanInvariant, Progress
  <2>2. ConceptEdits(d.text, allow) = {}
    BY <1>4, <2>1 DEF Done, Rendered
  <2>3. n = d.text
    BY <2>2, ApplyNone
  <2> QED
    BY <1>1, <1>2, <1>4, <2>3
<1>5. CASE R # {}
  <2>1. PICK f \in R : Applied[i] = f
    BY <1>2, <1>5
  <2>2. f = [path |-> d.path, text |-> n]
    BY <1>1, <1>3, <2>1, RenderedIs DEF PlanInvariant
  <2> QED
    BY <1>1, <2>1, <2>2
<1> QED
  BY <1>4, <1>5

(* What is left to be done by hand is told.                                *)
LEMMA FollowUpTold ==
  ASSUME PlanInvariant
  PROVE  FollowUpTruthful
<1> SUFFICES ASSUME at = "planned", NEW e \in ToSet(Applied), IsConcept(e)
             PROVE  LET result == CHOOSE r \in results : r.path = e.path
                        gained == "sources" \in Keys(e.text) \ Keys(TextAt(e.path))
                        unmigrated == AnalyzeCitations(Body(e.text)).found /\ "sources" \notin Keys(e.text)
                    IN /\ LegacyTimestamp(e.text) \/ unmigrated => result.manual
                       /\ gained => \A r \in ToSet(Value(e.text, "sources")) :
                            \E line \in ToSet(Body(e.text)) \ {Fence} : line[2].url = r /\ ~line[2].deep
  BY DEF FollowUpTruthful
<1>1. DOMAIN Applied = DOMAIN documents
  BY DEF Applied
<1>2. PICK i \in DOMAIN documents : e = Applied[i]
  BY <1>1 DEF ToSet
<1> DEFINE d == documents[i]
           n == ApplyEdits(d.text, ConceptEdits(d.text, allow))
           result == CHOOSE r \in results : r.path = e.path
<1>3. Addressed /\ todo = <<>>
  BY DEF PlanInvariant, Stages
<1>4. IsConcept(d) /\ d \in ToSet(documents) /\ e = [path |-> d.path, text |-> n]
  <2>1. IsConcept(d)
    BY <1>2, AppliedPath DEF IsConcept
  <2> QED
    BY <1>2, <1>3, <2>1, AppliedConcept
<1>5. IsText(d.text) /\ HasFrontmatter(d.text) /\ TextAt(d.path) = d.text
  BY <1>4, <1>3, TextIs DEF Addressed
<1>6. Truthful(d.text, n, allow)
  BY <1>5, ConceptSurvives
<1>7. result.manual = ManualFollowUp(d.text, allow)
  <2>1. Done(d)
    <3>1. ToSet(<<>>) = {}
      BY DEF ToSet
    <3> QED
      BY <1>4, <1>3, <3>1 DEF PlanInvariant, Progress
  <2>2. result \in results /\ result.path = d.path
    BY <1>4, <2>1 DEF Done
  <2>3. d.path # RootIndex
    BY <1>4, ReservedAssumption DEF IsConcept
  <2> HIDE DEF result
  <2>4. ConceptResult(result)
    BY <2>2, <2>3 DEF PlanInvariant, Planned
  <2>5. PICK c \in ToSet(documents) : result.path = c.path /\ result.manual = ManualFollowUp(c.text, allow)
    BY <2>4 DEF ConceptResult
  <2>6. c = d
    BY <1>4, <1>3, <2>2, <2>5 DEF Addressed
  <2> QED
    BY <2>5, <2>6
<1>8. e.text = n /\ e.path = d.path
  BY <1>4
<1> HIDE DEF n, d, result
<1> QED
  BY <1>5, <1>6, <1>7, <1>8 DEF Truthful, result

(* The invariant is enough.                                                *)
LEMMA PlanInvariantSafe == PlanInvariant => PlanSafe
BY FilesSurvive, FollowUpTold DEF PlanInvariant, RootFirstThenLast, PlanSafe

(* A sequence that is not empty is its head and its tail.                  *)
LEMMA TailSet ==
  ASSUME NEW X, NEW s \in Seq(X), s # <<>>
  PROVE  /\ Head(s) \in ToSet(s) /\ Tail(s) \in Seq(ToSet(s)) /\ ToSet(Tail(s)) \subseteq ToSet(s)
         /\ \A x \in ToSet(s) : x = Head(s) \/ x \in ToSet(Tail(s))
         /\ s = <<Head(s)>> \o Tail(s)
<1> DEFINE q == Tail(s)
           Y == ToSet(s)
<1>1. s \in Seq(Y) /\ Y = {s[i] : i \in 1..Len(s)} /\ Len(s) \in Nat
  BY SequenceOf
<1> HIDE DEF Y
<1>2. /\ Len(s) >= 1 /\ Head(s) = s[1] /\ q \in Seq(Y) /\ Len(q) = Len(s) - 1
      /\ \A i \in 1..Len(q) : q[i] = s[i + 1]
  BY <1>1
<1>3. s = <<Head(s)>> \o q
  BY <1>1
<1> HIDE DEF q
<1>4. ToSet(q) = {q[i] : i \in 1..Len(q)} /\ ToSet(q) \subseteq Y
  BY <1>2, SequenceOf
<1>5. ASSUME NEW x \in Y
      PROVE  x = Head(s) \/ x \in ToSet(q)
  <2>1. PICK i \in 1..Len(s) : x = s[i]
    BY <1>1
  <2>2. CASE i = 1
    BY <1>2, <2>1, <2>2
  <2>3. CASE i > 1
    <3>1. i - 1 \in 1..Len(q) /\ (i - 1) + 1 = i
      BY <1>1, <1>2, <2>3
    <3>2. q[i - 1] = s[i]
      BY <1>2, <3>1
    <3> QED
      BY <1>4, <2>1, <3>1, <3>2
  <2> QED
    BY <1>1, <2>2, <2>3
<1>6. Head(s) \in Y
  BY <1>1, <1>2
<1> QED
  BY <1>2, <1>3, <1>4, <1>5, <1>6 DEF q, Y
-------------------------------------------------------------------------------
(* The steps of the pass.                                                  *)

(* It holds at the start, and every step keeps it.                         *)
LEMMA PlanStarts == MigrationInit => PlanInvariant
<1> SUFFICES ASSUME MigrationInit PROVE PlanInvariant
  OBVIOUS
<1>1. /\ at = "start" /\ documents \in Bundles /\ todo = <<>> /\ files = <<>> /\ results = {}
  BY DEF MigrationInit
<1>2. ToSet(<<>>) = {} /\ <<>> \in Seq({})
  BY DEF ToSet
<1>3. Legible(documents)
  BY <1>1, BundlesAssumption DEF Legible, IsText
<1> QED
  BY <1>1, <1>2, <1>3
     DEF PlanInvariant, Stages, Planned, Progress, RootFirstThenLast, VersionLast

(* A step that leaves documents, files, results and the mode alone.        *)
LEMMA FailPlan == PlanInvariant /\ Fail => PlanInvariant'
<1> SUFFICES ASSUME PlanInvariant, Fail PROVE PlanInvariant'
  OBVIOUS
<1> USE DEF Fail
<1>1. Stages'
  BY DEF PlanInvariant, Stages, Addressed
<1>2. Planned'
  BY DEF PlanInvariant, Planned, RenderedRoot, RenderedConcept, ConceptResult
<1>3. Progress' /\ RootFirstThenLast'
  BY DEF Progress, RootFirstThenLast, VersionLast
<1> QED
  BY <1>1, <1>2, <1>3 DEF PlanInvariant

(* Documents that can be migrated.                                         *)
LEMMA MigratableSound ==
  ASSUME Legible(documents), Migratable
  PROVE  /\ Addressed
         /\ \E d \in ToSet(documents) :
              /\ d.path = RootIndex /\ IsText(d.text) /\ HasFrontmatter(d.text) /\ TextAt(RootIndex) = d.text
<1>1. \A d, e \in ToSet(documents) : d.path = e.path => d = e
  <2> TAKE d, e \in ToSet(documents)
  <2> HAVE d.path = e.path
  <2>1. PICK i \in DOMAIN documents : d = documents[i]
    BY DEF ToSet
  <2>2. PICK j \in DOMAIN documents : e = documents[j]
    BY DEF ToSet
  <2> QED
    BY <2>1, <2>2 DEF Migratable
<1>2. \A d \in ToSet(documents) : IsText(d.text)
  BY DEF Legible, Migratable
<1>3. \A d \in ToSet(documents) : IsConcept(d) => HasFrontmatter(d.text)
  BY DEF Migratable, BundleParses, Parses
<1>4. Addressed
  BY <1>1, <1>2, <1>3 DEF Addressed
<1>5. PICK d \in ToSet(documents) : d.path = RootIndex /\ HasFrontmatter(d.text)
  BY DEF Migratable
<1>6. TextAt(RootIndex) = d.text
  BY <1>4, <1>5, TextIs
<1> QED
  BY <1>2, <1>4, <1>5, <1>6

LEMMA StartPassPlan == PlanInvariant /\ StartPass => PlanInvariant'
<1> SUFFICES ASSUME PlanInvariant, StartPass PROVE PlanInvariant'
  OBVIOUS
<1>1. CASE Fail
  BY <1>1, FailPlan
<1>2. CASE ~Fail
  <2> DEFINE text == TextAt(RootIndex)
             range == SimpleFieldRange(text, "okf_version")
             current == Value(text, "okf_version") = "0.2"
             file == [path |-> RootIndex, text |-> ApplyEdits(text, {VersionEdit(range.line)})]
             C == {d \in ToSet(documents) : IsConcept(d)}
  <2>1. /\ Migratable /\ (current \/ range.is = "range")
        /\ at' = "concepts"
        /\ files' = IF current THEN <<>> ELSE <<file>>
        /\ results' = {[path |-> RootIndex, changed |-> ~current, manual |-> FALSE]}
        /\ todo' = Only(documents, C)
        /\ UNCHANGED <<actor, documents, allow, round>>
    BY <1>2 DEF StartPass
  <2>2. Legible(documents)
    BY DEF PlanInvariant, Planned
  <2>3. Addressed
    BY <2>1, <2>2, MigratableSound
  <2>4. PICK r \in ToSet(documents) :
          r.path = RootIndex /\ IsText(r.text) /\ HasFrontmatter(r.text) /\ text = r.text
    BY <2>1, <2>2, MigratableSound
  <2>5. todo' \in Seq(ToSet(documents)) /\ ToSet(todo') = C
    <3>1. documents \in Seq(ToSet(documents))
      BY <2>2 DEF Legible
    <3>2. ToSet(documents) \cap C = C
      OBVIOUS
    <3> HIDE DEF C
    <3> QED
      BY <2>1, <3>1, <3>2, OnlyType
  <2>6. /\ files' \in Seq(ToSet(files')) /\ \A i \in DOMAIN files' : i = 1
        /\ \A f \in ToSet(files') : f = file /\ ~current
    <3>1. CASE current
      <4>1. ToSet(<<>>) = {} /\ <<>> \in Seq({}) /\ DOMAIN <<>> = {}
        BY DEF ToSet
      <4> QED
        BY <2>1, <3>1, <4>1
    <3>2. CASE ~current
      <4> HIDE DEF file, current
      <4>1. <<file>> \in Seq({file}) /\ DOMAIN <<file>> = {1} /\ <<file>>[1] = file
        OBVIOUS
      <4>2. ToSet(<<file>>) = {file}
        BY <4>1 DEF ToSet
      <4> QED
        BY <2>1, <3>2, <4>1, <4>2
    <3> QED
      BY <3>1, <3>2
  <2>7. Addressed'
    BY <2>1, <2>3 DEF Addressed
  <2>8. Stages'
    BY <2>1, <2>7 DEF Stages
  <2>9. \A f \in ToSet(files') : RenderedRoot(f)'
    <3> TAKE f \in ToSet(files')
    <3>1. f = file /\ range.is = "range"
      BY <2>1, <2>6
    <3>2. \E d \in ToSet(documents) :
            /\ d.path = RootIndex /\ IsText(d.text) /\ HasFrontmatter(d.text)
            /\ SimpleFieldRange(d.text, "okf_version").is = "range"
            /\ f = [path |-> RootIndex,
                    text |-> ApplyEdits(d.text, {VersionEdit(SimpleFieldRange(d.text, "okf_version").line)})]
      BY <2>4, <3>1
    <3> QED
      BY <2>1, <3>2 DEF RenderedRoot
  <2>10. \A r1 \in results' : r1.path = RootIndex
    BY <2>1
  <2>11. Planned'
    <3>1. Legible(documents)'
      BY <2>1, <2>2 DEF Legible
    <3> QED
      BY <2>6, <2>9, <2>10, <3>1 DEF Planned
  <2>12. Progress'
    <3>1. todo' \in Seq(ToSet(todo'))
      BY <2>5, SequenceOf
    <3>2. \A d \in ToSet(documents) : IsConcept(d) <=> d \in ToSet(todo')
      BY <2>5
    <3>3. \A d \in ToSet(todo') : d \in ToSet(documents) /\ IsConcept(d)
      BY <2>5
    <3> HIDE DEF C
    <3> QED
      BY <2>1, <3>1, <3>2, <3>3 DEF Progress
  <2>13. RootFirstThenLast'
    BY <2>1, <2>6 DEF RootFirstThenLast, VersionLast
  <2> QED
    BY <2>8, <2>11, <2>12, <2>13 DEF PlanInvariant
<1> QED
  BY <1>1, <1>2

LEMMA MigrateConceptPlan == PlanInvariant /\ MigrateConcept => PlanInvariant'
<1> SUFFICES ASSUME PlanInvariant, MigrateConcept PROVE PlanInvariant'
  OBVIOUS
<1>1. CASE Fail
  BY <1>1, FailPlan
<1>2. CASE ~Fail
  <2> DEFINE d == Head(todo)
             edits == ConceptEdits(d.text, allow)
             file == [path |-> d.path, text |-> ApplyEdits(d.text, edits)]
             result == [path |-> d.path, changed |-> edits # {}, manual |-> ManualFollowUp(d.text, allow)]
  <2>1. /\ at = "concepts" /\ todo # <<>>
        /\ files' = IF edits = {} THEN files ELSE Append(files, file)
        /\ results' = results \cup {result}
        /\ todo' = Tail(todo)
        /\ UNCHANGED <<at, actor, documents, allow, round>>
    BY <1>2 DEF MigrateConcept
  <2>2. /\ Addressed /\ Legible(documents) /\ files \in Seq(ToSet(files)) /\ todo \in Seq(ToSet(todo))
        /\ \A c \in ToSet(todo) : c \in ToSet(documents) /\ IsConcept(c)
        /\ \A c \in ToSet(documents) : IsConcept(c) => c \in ToSet(todo) \/ Done(c)
        /\ \A f \in ToSet(files) : RenderedRoot(f) \/ RenderedConcept(f)
        /\ \A r \in results : r.path = RootIndex \/ ConceptResult(r)
        /\ \A i \in DOMAIN files : files[i].path = RootIndex => i = 1
    BY <2>1 DEF PlanInvariant, Stages, Planned, Progress, RootFirstThenLast
  <2>3. /\ d \in ToSet(todo) /\ Tail(todo) \in Seq(ToSet(todo)) /\ ToSet(Tail(todo)) \subseteq ToSet(todo)
        /\ \A c \in ToSet(todo) : c = d \/ c \in ToSet(Tail(todo))
    BY <2>1, <2>2, TailSet
  <2>4. d \in ToSet(documents) /\ IsConcept(d) /\ d.path # RootIndex
    <3>1. d \in ToSet(documents) /\ IsConcept(d)
      BY <2>2, <2>3
    <3> QED
      BY <3>1, ReservedAssumption DEF IsConcept
  <2> HIDE DEF d, edits
  <2>5. RenderedConcept(file) /\ ConceptResult(result) /\ file.path = d.path /\ result.path = d.path
    <3>1. RenderedConcept(file)
      BY <2>4 DEF RenderedConcept, edits
    <3>2. result.path = d.path /\ result.manual = ManualFollowUp(d.text, allow)
      OBVIOUS
    <3>3. ConceptResult(result)
      <4> HIDE DEF result
      <4> QED
        BY <2>4, <3>2 DEF ConceptResult
    <3> QED
      BY <3>1, <3>2, <3>3
  <2> HIDE DEF file, result
  <2>6. /\ files' \in Seq(ToSet(files')) /\ ToSet(files) \subseteq ToSet(files')
        /\ \A f \in ToSet(files') : f \in ToSet(files) \/ f = file
        /\ edits # {} => file \in ToSet(files')
        /\ \A i \in DOMAIN files' : files'[i].path = RootIndex => i = 1
    <3>1. CASE edits = {}
      BY <2>1, <2>2, <3>1
    <3>2. CASE edits # {}
      <4> DEFINE X == ToSet(files) \cup {file}
                 z == Append(files, file)
      <4>1. files \in Seq(X) /\ file \in X
        BY <2>2, SeqMonotonic
      <4>2. z \in Seq(X) /\ ToSet(z) = ToSet(files) \cup {file}
        <5> HIDE DEF X
        <5> QED
          BY <4>1, AppendedSet
      <4>3. z \in Seq(ToSet(z))
        BY <4>2
      <4>4. \A i \in DOMAIN z : z[i].path = RootIndex => i = 1
        <5> TAKE i \in DOMAIN z
        <5>1. DOMAIN z = 1..(Len(files) + 1) /\ Len(files) \in Nat /\ DOMAIN files = 1..Len(files)
          BY <2>2
        <5>2. CASE i = Len(files) + 1
          BY <2>2, <2>4, <2>5, <5>1, <5>2
        <5>3. CASE i # Len(files) + 1
          <6>1. i \in DOMAIN files /\ z[i] = files[i]
            BY <2>2, <5>1, <5>3
          <6> QED
            BY <2>2, <6>1
        <5> QED
          BY <5>2, <5>3
      <4>5. files' = z
        BY <2>1, <3>2
      <4> HIDE DEF z, X
      <4> QED
        BY <4>2, <4>3, <4>4, <4>5
    <3> QED
      BY <3>1, <3>2
  <2>7. Addressed'
    BY <2>1, <2>2 DEF Addressed
  <2>8. Stages'
    BY <2>1, <2>7 DEF Stages
  <2>9. \A f : RenderedRoot(f)' <=> RenderedRoot(f)
    BY <2>1 DEF RenderedRoot
  <2>10. \A f : RenderedConcept(f)' <=> RenderedConcept(f)
    BY <2>1 DEF RenderedConcept
  <2>11. \A r : ConceptResult(r)' <=> ConceptResult(r)
    BY <2>1 DEF ConceptResult
  <2>12. Planned'
    <3>1. Legible(documents)'
      BY <2>1, <2>2 DEF Legible
    <3>2. \A f \in ToSet(files') : RenderedRoot(f)' \/ RenderedConcept(f)'
      BY <2>2, <2>5, <2>6, <2>9, <2>10
    <3>3. \A r \in results' : r.path = RootIndex \/ ConceptResult(r)'
      BY <2>1, <2>2, <2>5, <2>11
    <3> QED
      BY <2>6, <3>1, <3>2, <3>3 DEF Planned
  <2>13. Progress'
    <3>1. todo' \in Seq(ToSet(todo')) /\ ToSet(todo') \subseteq ToSet(todo)
      BY <2>1, <2>3, SequenceOf
    <3>2. ASSUME NEW c \in ToSet(documents), IsConcept(c)
          PROVE  c \in ToSet(todo') \/ Done(c)'
      <4>1. CASE c = d
        <5>1. \E r \in results' : r.path = c.path
          BY <2>1, <2>5, <4>1
        <5>2. ConceptEdits(c.text, allow) # {} => \E f \in ToSet(files') : f.path = c.path
          BY <2>5, <2>6, <4>1 DEF edits
        <5> QED
          BY <2>1, <5>1, <5>2 DEF Done
      <4>2. CASE c # d /\ c \in ToSet(todo)
        BY <2>1, <2>3, <4>2
      <4>3. CASE Done(c)
        <5>1. \E r \in results' : r.path = c.path
          BY <2>1, <4>3 DEF Done
        <5>2. ConceptEdits(c.text, allow) # {} => \E f \in ToSet(files') : f.path = c.path
          BY <2>6, <4>3 DEF Done
        <5> QED
          BY <2>1, <5>1, <5>2 DEF Done
      <4> QED
        BY <2>2, <3>2, <4>1, <4>2, <4>3
    <3>3. \A c \in ToSet(todo') : c \in ToSet(documents) /\ IsConcept(c)
      BY <2>2, <3>1
    <3> QED
      BY <2>1, <3>1, <3>2, <3>3 DEF Progress
  <2>14. RootFirstThenLast'
    BY <2>1, <2>6 DEF RootFirstThenLast, VersionLast
  <2> QED
    BY <2>8, <2>12, <2>13, <2>14 DEF PlanInvariant
<1> QED
  BY <1>1, <1>2

(* The plan with its root last: nothing is lost, and the root is last.     *)
LEMMA RootLastIs ==
  ASSUME NEW X, NEW s \in Seq(X), \A i \in DOMAIN s : s[i].path = RootIndex => i = 1
  PROVE  /\ RootLast(s) \in Seq(X) /\ ToSet(RootLast(s)) = ToSet(s)
         /\ \A i \in DOMAIN RootLast(s) : RootLast(s)[i].path = RootIndex => i = Len(RootLast(s))
<1> DEFINE rootFiles == {f \in ToSet(s) : f.path = RootIndex}
           p == Only(s, ToSet(s) \ rootFiles)
           q == Only(s, rootFiles)
           z == p \o q
<1>1. p \in Seq(X) /\ ToSet(p) = ToSet(s) \cap (ToSet(s) \ rootFiles)
  <2> HIDE DEF rootFiles
  <2> QED
    BY OnlyType
<1>2. q \in Seq(X) /\ ToSet(q) = ToSet(s) \cap rootFiles
  <2> HIDE DEF rootFiles
  <2> QED
    BY OnlyType
<1>3. Len(q) <= 1
  <2>1. CASE s = <<>>
    <3>1. <<>> \in Seq({}) /\ ToSet(<<>>) \cap rootFiles = {} /\ Len(<<>>) = 0
      BY DEF ToSet
    <3>2. Only(<<>>, rootFiles) = <<>>
      <4> HIDE DEF rootFiles
      <4> QED
        BY <3>1, OnlyNothing
    <3> QED
      BY <2>1, <3>1, <3>2
  <2>2. CASE s # <<>>
    <3> DEFINE h == Head(s)
               t == Tail(s)
    <3>1. s = <<h>> \o t /\ h \in X /\ t \in Seq(X)
      BY <2>2
    <3>2. ToSet(t) \cap rootFiles = {}
      <4>1. ASSUME NEW i \in 1..Len(t)
            PROVE  t[i].path # RootIndex
        <5>1. t[i] = s[i + 1] /\ i + 1 \in DOMAIN s /\ i + 1 # 1
          BY <2>2
        <5> HIDE DEF t
        <5> QED
          BY <5>1
      <4> HIDE DEF t
      <4>2. ToSet(t) = {t[i] : i \in 1..Len(t)}
        BY <3>1, SequenceOf
      <4> QED
        BY <4>1, <4>2
    <3> HIDE DEF h, t, rootFiles
    <3>3. Only(t, rootFiles) = <<>>
      BY <3>1, <3>2, OnlyNothing
    <3>4. Only(Both(<<h>>, t), rootFiles) = Both(Only(<<h>>, rootFiles), <<>>)
      <4>3. <<h>> \in Seq(X)
        BY <3>1
      <4>1. PICK w \in Seq(X) : w = <<h>>
        BY <4>3
      <4>2. Only(Both(w, t), rootFiles) = Both(Only(w, rootFiles), Only(t, rootFiles))
        BY <3>1, OnlyBoth
      <4> QED
        BY <3>3, <4>1, <4>2
    <3>5. q = Both(Only(<<h>>, rootFiles), <<>>)
      <4>1. s = Both(<<h>>, t)
        BY <3>1 DEF Both
      <4> QED
        BY <3>4, <4>1
    <3>6. Only(<<h>>, rootFiles) = <<h>> \/ Only(<<h>>, rootFiles) = <<>>
      BY OnlySingle
    <3>7. Both(<<h>>, <<>>) = <<h>> /\ Both(<<>>, <<>>) = <<>>
      BY DEF Both
    <3>8. q = <<h>> \/ q = <<>>
      BY <3>5, <3>6, <3>7
    <3>9. Len(<<h>>) = 1 /\ Len(<<>>) = 0
      OBVIOUS
    <3> HIDE DEF q
    <3>10. CASE q = <<h>>
      BY <3>9, <3>10
    <3>11. CASE q = <<>>
      BY <3>9, <3>11
    <3> QED
      BY <3>8, <3>10, <3>11
  <2> QED
    BY <2>1, <2>2
<1>4. RootLast(s) = z
  BY DEF RootLast
<1> HIDE DEF p, q
<1>5. z \in Seq(X) /\ Len(z) = Len(p) + Len(q) /\ Len(p) \in Nat /\ Len(q) \in Nat
  BY <1>1, <1>2, ConcatProperties
<1>6. ToSet(z) = ToSet(s)
  <2>1. ToSet(z) = ToSet(p) \cup ToSet(q)
    BY <1>1, <1>2, ConcatSet
  <2> QED
    BY <1>1, <1>2, <2>1
<1>7. ASSUME NEW i \in DOMAIN z, z[i].path = RootIndex
      PROVE  i = Len(z)
  <2>1. i \in 1..(Len(p) + Len(q))
    BY <1>5
  <2>2. CASE i <= Len(p)
    <3>1. z[i] = p[i] /\ i \in 1..Len(p)
      BY <1>1, <1>2, <1>5, <2>1, <2>2
    <3>2. p[i] \in ToSet(p)
      BY <1>1, <3>1, SequenceOf
    <3> QED
      BY <1>1, <1>7, <3>1, <3>2
  <2>3. CASE i > Len(p)
    BY <1>3, <1>5, <2>1, <2>3
  <2> QED
    BY <1>5, <2>1, <2>2, <2>3
<1> HIDE DEF z
<1> QED
  BY <1>4, <1>5, <1>6, <1>7

LEMMA CheckPlanPlan == PlanInvariant /\ CheckPlan => PlanInvariant'
<1> SUFFICES ASSUME PlanInvariant, CheckPlan PROVE PlanInvariant'
  OBVIOUS
<1>1. /\ Addressed /\ Legible(documents) /\ files \in Seq(ToSet(files)) /\ todo \in Seq(ToSet(todo))
      /\ at = "concepts" /\ todo = <<>>
      /\ \A c \in ToSet(documents) : IsConcept(c) => c \in ToSet(todo) \/ Done(c)
      /\ \A f \in ToSet(files) : RenderedRoot(f) \/ RenderedConcept(f)
      /\ \A r \in results : r.path = RootIndex \/ ConceptResult(r)
      /\ \A i \in DOMAIN files : files[i].path = RootIndex => i = 1
  BY DEF CheckPlan, PlanInvariant, Stages, Planned, Progress, RootFirstThenLast
<1>2. CASE BundleParses(Applied)
  <2>1. at' = "planned" /\ files' = RootLast(files) /\ UNCHANGED <<actor, documents, allow, todo, results, round>>
    BY <1>2 DEF CheckPlan
  <2>2. /\ files' \in Seq(ToSet(files)) /\ ToSet(files') = ToSet(files)
        /\ \A i \in DOMAIN files' : files'[i].path = RootIndex => i = Len(files')
    BY <1>1, <2>1, RootLastIs
  <2>3. Addressed'
    BY <1>1, <2>1 DEF Addressed
  <2>4. Stages'
    BY <1>1, <2>1, <2>3 DEF Stages
  <2>5. \A f : (RenderedRoot(f)' <=> RenderedRoot(f)) /\ (RenderedConcept(f)' <=> RenderedConcept(f)) /\ (ConceptResult(f)' <=> ConceptResult(f))
    BY <2>1 DEF RenderedRoot, RenderedConcept, ConceptResult
  <2>6. Planned'
    <3>1. Legible(documents)'
      BY <1>1, <2>1 DEF Legible
    <3>2. files' \in Seq(ToSet(files'))
      BY <2>2
    <3> QED
      BY <1>1, <2>1, <2>2, <2>5, <3>1, <3>2 DEF Planned
  <2>7. \A c : Done(c)' <=> Done(c)
    BY <2>1, <2>2 DEF Done
  <2>8. Progress'
    <3>1. ToSet(<<>>) = {}
      BY DEF ToSet
    <3> QED
      BY <1>1, <2>1, <2>7, <3>1 DEF Progress
  <2>9. Applied' = Applied
    BY <2>1, <2>2 DEF Applied, Rendered
  <2>10. RootFirstThenLast'
    <3>1. BundleParses(Applied)' <=> BundleParses(Applied)
      BY <2>9
    <3> QED
      BY <1>2, <2>1, <2>2, <3>1 DEF RootFirstThenLast, VersionLast
  <2> QED
    BY <2>4, <2>6, <2>8, <2>10 DEF PlanInvariant
<1>3. CASE ~BundleParses(Applied) /\ allow /\ \E d \in ToSet(documents) : IsConcept(d) /\ CitationEdits(d.text, allow) # {}
  <2>1. at' = "start" /\ allow' = FALSE /\ files' = <<>> /\ results' = {} /\ UNCHANGED <<actor, documents, todo, round>>
    BY <1>3 DEF CheckPlan
  <2>2. ToSet(<<>>) = {} /\ <<>> \in Seq({})
    BY DEF ToSet
  <2>3. Legible(documents)'
    BY <1>1, <2>1 DEF Legible
  <2> QED
    BY <2>1, <2>2, <2>3 DEF PlanInvariant, Stages, Planned, Progress, RootFirstThenLast, VersionLast
<1>4. CASE Fail
  BY <1>4, FailPlan
<1> QED
  BY <1>2, <1>3, <1>4 DEF CheckPlan

(* A plan that is applied is a bundle again.                               *)
LEMMA AppliedLegible ==
  ASSUME PlanInvariant
  PROVE  Legible(Applied)
<1> DEFINE n == Len(documents)
           X == ToSet(documents) \cup ToSet(files)
<1>1. Legible(documents) /\ Stages /\ Planned
  BY DEF PlanInvariant, Planned
<1>2. n \in Nat /\ DOMAIN documents = 1..n /\ \A i \in 1..n : documents[i] \in ToSet(documents)
  BY <1>1, SequenceOf DEF Legible
<1>3. \A d \in X : d = [path |-> d.path, text |-> d.text] /\ (d.text = Unreadable \/ IsText(d.text))
  BY <1>1, FilesSurvive DEF Legible
<1>4. ASSUME NEW i \in 1..n
      PROVE  Applied[i] \in X
  <2> DEFINE R == Rendered(documents[i].path)
  <2>1. Applied[i] = IF R = {} THEN documents[i] ELSE CHOOSE f \in R : TRUE
    BY <1>2 DEF Applied
  <2>2. R \subseteq ToSet(files)
    BY DEF Rendered
  <2> HIDE DEF R
  <2> QED
    BY <1>2, <2>1, <2>2
<1>5. Applied \in Seq(X)
  <2>1. DOMAIN Applied = 1..n /\ Applied = [i \in 1..n |-> Applied[i]]
    BY <1>2 DEF Applied
  <2>2. Applied \in [1..n -> X]
    <3> DEFINE a == Applied
    <3>1. a = [i \in 1..n |-> a[i]] /\ \A i \in 1..n : a[i] \in X
      BY <1>4, <2>1
    <3> HIDE DEF a, X
    <3>2. a \in [1..n -> X]
      BY <3>1
    <3> QED
      BY <3>2 DEF a
  <2> HIDE DEF n, X
  <2> QED
    BY <1>2, <2>2
<1> HIDE DEF X
<1>6. Applied \in Seq(ToSet(Applied)) /\ ToSet(Applied) \subseteq X
  BY <1>5, SequenceOf
<1> QED
  BY <1>3, <1>6 DEF Legible

LEMMA MigrateAgainPlan == PlanInvariant /\ MigrateAgain => PlanInvariant'
<1> SUFFICES ASSUME PlanInvariant, MigrateAgain PROVE PlanInvariant'
  OBVIOUS
<1>1. /\ at' = "start" /\ documents' = Applied
      /\ files' = <<>> /\ results' = {} /\ todo' = <<>>
  BY DEF MigrateAgain
<1>2. ToSet(<<>>) = {} /\ <<>> \in Seq({})
  BY DEF ToSet
<1>3. Legible(documents)'
  BY <1>1, AppliedLegible DEF Legible
<1> QED
  BY <1>1, <1>2, <1>3 DEF PlanInvariant, Stages, Planned, Progress, RootFirstThenLast, VersionLast

LEMMA PlanStutters == PlanInvariant /\ UNCHANGED migrationVars => PlanInvariant'
<1> SUFFICES ASSUME PlanInvariant, UNCHANGED migrationVars PROVE PlanInvariant'
  OBVIOUS
<1> USE DEF migrationVars
<1>1. Stages'
  BY DEF PlanInvariant, Stages, Addressed
<1>2. Planned'
  BY DEF PlanInvariant, Planned, RenderedRoot, RenderedConcept, ConceptResult, Legible
<1>3. Progress'
  BY DEF PlanInvariant, Progress, Done
<1>4. RootFirstThenLast'
  <2>1. Applied' = Applied
    BY DEF Applied, Rendered
  <2> QED
    BY <2>1 DEF PlanInvariant, RootFirstThenLast, VersionLast
<1> QED
  BY <1>1, <1>2, <1>3, <1>4 DEF PlanInvariant

(* For any bundles of texts, dates, limits and reserved paths: a plan      *)
(* keeps the body and every other field of the documents, what is left to  *)
(* be done by hand is told and what is cited stems from bullets, the       *)
(* version is written last, and what is planned parses (migration.rs,      *)
(* plan_migration and rendered_plan_is_parseable).                         *)
THEOREM PlansAreSafe == MigrationSpec => []PlanSafe
<1>1. MigrationInit => PlanInvariant
  BY PlanStarts
<1>2. PlanInvariant /\ [MigrationNext]_migrationVars => PlanInvariant'
  BY StartPassPlan, MigrateConceptPlan, CheckPlanPlan, MigrateAgainPlan, PlanStutters DEF MigrationNext
<1>3. PlanInvariant => PlanSafe
  BY PlanInvariantSafe
<1> QED
  BY <1>1, <1>2, <1>3, PTL DEF MigrationSpec
-------------------------------------------------------------------------------
(* A text that was migrated, and is migrated once more.                    *)

(* The first line of a field, and what its range is, in the frontmatter f. *)
FirstLine(f, key) ==
  LET starts == {i \in DOMAIN f : f[i][1] = "field" /\ f[i][2] = key}
  IN CHOOSE n \in starts : \A m \in starts : n <= m

RangeKind(f, key) ==
  IF {i \in DOMAIN f : f[i][1] = "field" /\ f[i][2] = key} = {} THEN "unavailable"
  ELSE IF f[FirstLine(f, key)][3] # "plain" \/ ValueContinues(f, FirstLine(f, key)) THEN "none"
  ELSE "range"

(* In a text of a shape it depends on the frontmatter alone.               *)
LEMMA RangeKindIs ==
  ASSUME NEW t, NEW b, NEW f, NEW y, Shaped(t, b, f, y), NEW key
  PROVE  SimpleFieldRange(t, key).is = RangeKind(f, key)
<1> DEFINE starts == {i \in DOMAIN f : f[i][1] = "field" /\ f[i][2] = key}
           i == CHOOSE n \in starts : \A m \in starts : n <= m
           line == i + 1 + (IF Head(t) = Bom THEN 1 ELSE 0)
<1>1. FrontLines(t) = f /\ (Head(t) = Bom <=> b = 1)
  BY ShapeParts
<1>2. b \in {0, 1} /\ Len(f) \in Nat /\ DOMAIN f = 1..Len(f)
  BY DEF Shaped, IsText
<1>3. SimpleFieldRange(t, key) =
        IF starts = {} THEN [is |-> "unavailable"]
        ELSE IF f[i][3] # "plain" \/ ValueContinues(f, i) THEN NoRange
        ELSE IF t[line] # f[i] THEN [is |-> "unavailable"]
        ELSE [is |-> "range", line |-> line]
  BY <1>1 DEF SimpleFieldRange
<1>4. RangeKind(f, key) =
        IF starts = {} THEN "unavailable"
        ELSE IF f[i][3] # "plain" \/ ValueContinues(f, i) THEN "none"
        ELSE "range"
  BY DEF RangeKind, FirstLine
<1>5. ASSUME starts # {}
      PROVE  t[line] = f[i]
  <2>1. starts \in SUBSET Nat
    BY <1>2
  <2>2. \E n \in starts : \A m \in starts : n <= m
    <3> HIDE DEF starts
    <3> QED
      BY <1>5, <2>1, LeastOf
  <2>3. i \in starts
    <3> HIDE DEF starts
    <3> QED
      BY <2>2
  <2>4. i \in 1..Len(f)
    <3> HIDE DEF i
    <3> QED
      BY <1>2, <2>3
  <2>5. line = b + 1 + i
    <3> HIDE DEF i
    <3> QED
      BY <1>1, <1>2, <2>4
  <2> HIDE DEF i, line
  <2> QED
    BY <2>4, <2>5 DEF Shaped
<1>6. NoRange.is = "none"
  BY DEF NoRange
<1> HIDE DEF starts, i, line
<1>7. CASE starts = {}
  BY <1>3, <1>4, <1>7
<1>8. CASE starts # {} /\ (f[i][3] # "plain" \/ ValueContinues(f, i))
  BY <1>3, <1>4, <1>6, <1>8
<1>9. CASE starts # {} /\ ~(f[i][3] # "plain" \/ ValueContinues(f, i))
  <2>1. SimpleFieldRange(t, key) = [is |-> "range", line |-> line]
    BY <1>3, <1>5, <1>9
  <2> QED
    BY <1>4, <1>9, <2>1
<1> QED
  BY <1>7, <1>8, <1>9

(* Lines put at the end: no field of the key, and the first of them is     *)
(* neither blank nor indented.                                             *)
LEMMA RangeKindExtended ==
  ASSUME NEW f, NEW g, IsText(f), IsText(g), NEW key, Len(f) < Len(g),
         \A i \in 1..Len(f) : g[i] = f[i],
         \A i \in (Len(f) + 1)..Len(g) : ~(g[i][1] = "field" /\ g[i][2] = key),
         g[Len(f) + 1] # <<"deeper">>, g[Len(f) + 1] # <<"gap">>
  PROVE  RangeKind(g, key) = RangeKind(f, key)
<1> DEFINE F == {i \in DOMAIN f : f[i][1] = "field" /\ f[i][2] = key}
           G == {i \in DOMAIN g : g[i][1] = "field" /\ g[i][2] = key}
<1>1. /\ Len(f) \in Nat /\ DOMAIN f = 1..Len(f) /\ Len(g) \in Nat /\ DOMAIN g = 1..Len(g)
  BY DEF IsText
<1>2. F = G
  <2>1. \A i \in F : i \in G
    BY <1>1
  <2>2. \A i \in G : i \in F
    <3> TAKE i \in G
    <3>1. i \in 1..Len(f)
      BY <1>1
    <3> QED
      BY <1>1, <3>1
  <2> QED
    BY <2>1, <2>2
<1>3. CASE F = {}
  BY <1>2, <1>3 DEF RangeKind
<1>4. CASE F # {}
  <2> DEFINE i == CHOOSE n \in F : \A m \in F : n <= m
  <2>1. FirstLine(f, key) = i /\ FirstLine(g, key) = i
    <3>1. FirstLine(f, key) = CHOOSE n \in F : \A m \in F : n <= m
      BY DEF FirstLine
    <3>2. FirstLine(g, key) = CHOOSE n \in G : \A m \in G : n <= m
      BY DEF FirstLine
    <3> HIDE DEF F, G
    <3> QED
      BY <1>2, <3>1, <3>2
  <2>2. i \in 1..Len(f)
    <3>1. F \in SUBSET Nat
      BY <1>1
    <3>2. \E n \in F : \A m \in F : n <= m
      <4> HIDE DEF F
      <4> QED
        BY <1>4, <3>1, LeastOf
    <3>3. i \in F
      <4> HIDE DEF F
      <4> QED
        BY <3>2
    <3> HIDE DEF i
    <3> QED
      BY <1>1, <3>3
  <2> HIDE DEF i
  <2>3. g[i] = f[i]
    BY <2>2
  <2>4. ValueContinues(g, i) <=> ValueContinues(f, i)
    <3>1. ASSUME ValueContinues(f, i) PROVE ValueContinues(g, i)
      <4>1. PICK j \in (i + 1)..Len(f) : f[j] = <<"deeper">> /\ \A k \in (i + 1)..(j - 1) : f[k] = <<"gap">>
        BY <3>1 DEF ValueContinues
      <4>2. j \in (i + 1)..Len(g) /\ j \in 1..Len(f)
        BY <1>1, <2>2
      <4>3. \A k \in (i + 1)..(j - 1) : k \in 1..Len(f)
        BY <1>1, <2>2, <4>1
      <4>4. g[j] = <<"deeper">> /\ \A k \in (i + 1)..(j - 1) : g[k] = <<"gap">>
        BY <4>1, <4>2, <4>3
      <4> QED
        BY <4>2, <4>4 DEF ValueContinues
    <3>2. ASSUME ValueContinues(g, i) PROVE ValueContinues(f, i)
      <4>1. PICK j \in (i + 1)..Len(g) : g[j] = <<"deeper">> /\ \A k \in (i + 1)..(j - 1) : g[k] = <<"gap">>
        BY <3>2 DEF ValueContinues
      <4>2. j <= Len(f)
        <5> SUFFICES ASSUME j > Len(f) PROVE FALSE
          BY <1>1, <2>2, <4>1
        <5>1. CASE j = Len(f) + 1
          BY <4>1, <5>1
        <5>2. CASE j > Len(f) + 1
          <6>1. Len(f) + 1 \in (i + 1)..(j - 1)
            BY <1>1, <2>2, <4>1, <5>2
          <6> QED
            BY <4>1, <6>1
        <5> QED
          BY <1>1, <2>2, <4>1, <5>1, <5>2
      <4>3. j \in (i + 1)..Len(f) /\ j \in 1..Len(f)
        BY <1>1, <2>2, <4>1, <4>2
      <4>4. \A k \in (i + 1)..(j - 1) : k \in 1..Len(f)
        BY <1>1, <2>2, <4>1, <4>3
      <4>5. f[j] = <<"deeper">> /\ \A k \in (i + 1)..(j - 1) : f[k] = <<"gap">>
        BY <4>1, <4>3, <4>4
      <4> QED
        BY <4>3, <4>5 DEF ValueContinues
    <3> QED
      BY <3>1, <3>2
  <2>5. RangeKind(f, key) = IF f[i][3] # "plain" \/ ValueContinues(f, i) THEN "none" ELSE "range"
    BY <1>4, <2>1 DEF RangeKind
  <2>6. RangeKind(g, key) = IF g[i][3] # "plain" \/ ValueContinues(g, i) THEN "none" ELSE "range"
    <3>1. G # {}
      BY <1>2, <1>4
    <3> QED
      BY <2>1, <3>1 DEF RangeKind
  <2> QED
    BY <2>3, <2>4, <2>5, <2>6
<1> QED
  BY <1>3, <1>4

(* Two texts of one shape are the same.                                    *)
LEMMA ShapeUnique ==
  ASSUME NEW s, NEW t, NEW b, NEW f, NEW y, Shaped(s, b, f, y), Shaped(t, b, f, y)
  PROVE  s = t
<1>1. /\ s \in Seq(ToSet(s)) /\ t \in Seq(ToSet(t)) /\ Len(s) = Len(t) /\ b \in {0, 1}
      /\ Len(f) \in Nat /\ Len(y) \in Nat /\ Len(t) = b + 2 + Len(f) + Len(y)
  BY DEF Shaped, IsText
<1>2. ASSUME NEW i \in 1..Len(t)
      PROVE  s[i] = t[i]
  <2>1. CASE b = 1 /\ i = 1
    BY <2>1 DEF Shaped
  <2>2. CASE i = b + 1 \/ i = b + 2 + Len(f)
    BY <2>2 DEF Shaped
  <2>3. CASE i > b + 1 /\ i < b + 2 + Len(f)
    <3>1. i - b - 1 \in 1..Len(f) /\ b + 1 + (i - b - 1) = i
      BY <1>1, <2>3
    <3>2. PICK k \in 1..Len(f) : b + 1 + k = i
      BY <3>1
    <3>3. s[b + 1 + k] = f[k] /\ t[b + 1 + k] = f[k]
      BY DEF Shaped
    <3> QED
      BY <3>2, <3>3
  <2>4. CASE i > b + 2 + Len(f)
    <3>1. i - b - 2 - Len(f) \in 1..Len(y) /\ b + 2 + Len(f) + (i - b - 2 - Len(f)) = i
      BY <1>1, <2>4
    <3>2. PICK k \in 1..Len(y) : b + 2 + Len(f) + k = i
      BY <3>1
    <3>3. s[b + 2 + Len(f) + k] = y[k] /\ t[b + 2 + Len(f) + k] = y[k]
      BY DEF Shaped
    <3> QED
      BY <3>2, <3>3
  <2> QED
    BY <1>1, <2>1, <2>2, <2>3, <2>4
<1> QED
  BY <1>1, <1>2, SameSequence

(* A line that is replaced and lines at the end do not meet.               *)
LEMMA SplicesCommute ==
  ASSUME NEW f, NEW ls, NEW ms, IsText(f), IsText(ls), IsText(ms), NEW i \in 1..Len(f)
  PROVE  LET g == Splice(f, i - 1, i, ls)
             h == Splice(f, Len(f), Len(f), ms)
         IN Splice(g, Len(g), Len(g), ms) = Splice(h, i - 1, i, ls)
<1> DEFINE g == Splice(f, i - 1, i, ls)
           h == Splice(f, Len(f), Len(f), ms)
           u == Splice(g, Len(g), Len(g), ms)
           v == Splice(h, i - 1, i, ls)
           a == Len(ls)
           c == Len(ms)
           n == Len(f)
<1>1. n \in Nat /\ a \in Nat /\ c \in Nat /\ i - 1 \in 0..n /\ i \in (i - 1)..n /\ n \in 0..n /\ n \in n..n
  BY DEF IsText
<1>2. IsSplice(g, f, i - 1, i, ls)
  BY <1>1, Spliced
<1>3. IsSplice(h, f, n, n, ms)
  BY <1>1, Spliced
<1> HIDE DEF g, h
<1>4. /\ IsText(g) /\ Len(g) = (i - 1) + a + (n - i)
      /\ \A j \in 1..(i - 1) : g[j] = f[j]
      /\ \A j \in 1..a : g[(i - 1) + j] = ls[j]
      /\ \A j \in 1..(n - i) : g[(i - 1) + a + j] = f[i + j]
  BY <1>2 DEF IsSplice
<1>5. /\ IsText(h) /\ Len(h) = n + c + (n - n)
      /\ \A j \in 1..n : h[j] = f[j]
      /\ \A j \in 1..c : h[n + j] = ms[j]
  BY <1>3 DEF IsSplice
<1>6. Len(g) \in Nat /\ Len(h) \in Nat /\ i - 1 \in 0..Len(h) /\ i \in (i - 1)..Len(h)
      /\ Len(g) \in 0..Len(g) /\ Len(g) \in Len(g)..Len(g)
  BY <1>1, <1>4, <1>5
<1>7. IsSplice(u, g, Len(g), Len(g), ms)
  BY <1>4, <1>6, Spliced
<1>8. IsSplice(v, h, i - 1, i, ls)
  BY <1>5, <1>6, Spliced
<1> HIDE DEF u, v
<1>9. /\ IsText(u) /\ Len(u) = Len(g) + c + (Len(g) - Len(g))
      /\ \A j \in 1..Len(g) : u[j] = g[j]
      /\ \A j \in 1..c : u[Len(g) + j] = ms[j]
  BY <1>7 DEF IsSplice
<1>10. /\ IsText(v) /\ Len(v) = (i - 1) + a + (Len(h) - i)
       /\ \A j \in 1..(i - 1) : v[j] = h[j]
       /\ \A j \in 1..a : v[(i - 1) + j] = ls[j]
       /\ \A j \in 1..(Len(h) - i) : v[(i - 1) + a + j] = h[i + j]
  BY <1>8 DEF IsSplice
<1> HIDE DEF a, c, n
<1>11. Len(u) = Len(v)
  BY <1>1, <1>4, <1>5, <1>9, <1>10
<1>12. ASSUME NEW k \in 1..Len(v)
       PROVE  u[k] = v[k]
  <2>1. CASE k \in 1..(i - 1)
    <3>1. k \in 1..Len(g) /\ k \in 1..n
      BY <1>1, <1>4, <2>1
    <3>2. u[k] = g[k] /\ g[k] = f[k] /\ v[k] = h[k] /\ h[k] = f[k]
      BY <1>4, <1>5, <1>9, <1>10, <2>1, <3>1
    <3> QED
      BY <3>2
  <2>2. CASE k \in i..(i - 1 + a)
    <3>1. PICK j \in 1..a : k = (i - 1) + j
      <4>1. k - (i - 1) \in 1..a /\ k = (i - 1) + (k - (i - 1))
        BY <1>1, <2>2
      <4> QED
        BY <4>1
    <3>2. k \in 1..Len(g)
      BY <1>1, <1>4, <2>2
    <3>3. u[k] = g[k] /\ g[(i - 1) + j] = ls[j] /\ v[(i - 1) + j] = ls[j]
      BY <1>4, <1>9, <1>10, <3>2
    <3> QED
      BY <3>1, <3>3
  <2>3. CASE k \in (i + a)..Len(g)
    <3>1. PICK j \in 1..(n - i) : k = (i - 1) + a + j
      <4>1. k - (i - 1) - a \in 1..(n - i) /\ k = (i - 1) + a + (k - (i - 1) - a)
        BY <1>1, <1>4, <2>3
      <4> QED
        BY <4>1
    <3>2. k \in 1..Len(g) /\ j \in 1..(Len(h) - i) /\ i + j \in 1..n
      BY <1>1, <1>4, <1>5, <2>3, <3>1
    <3>3. u[k] = g[k] /\ g[(i - 1) + a + j] = f[i + j] /\ v[(i - 1) + a + j] = h[i + j] /\ h[i + j] = f[i + j]
      BY <1>4, <1>5, <1>9, <1>10, <3>2
    <3> QED
      BY <3>1, <3>3
  <2>4. CASE k > Len(g)
    <3>1. PICK j \in 1..c : k = Len(g) + j
      <4>1. k - Len(g) \in 1..c /\ k = Len(g) + (k - Len(g))
        BY <1>1, <1>4, <1>6, <1>9, <1>11, <2>4
      <4> QED
        BY <4>1
    <3>2. (n - i) + j \in 1..(Len(h) - i) /\ (i - 1) + a + ((n - i) + j) = k /\ i + ((n - i) + j) = n + j
      BY <1>1, <1>4, <1>5, <3>1
    <3>3. v[(i - 1) + a + ((n - i) + j)] = h[i + ((n - i) + j)]
      BY <1>10, <3>2
    <3>4. h[n + j] = ms[j] /\ u[Len(g) + j] = ms[j]
      BY <1>5, <1>9
    <3> QED
      BY <3>1, <3>2, <3>3, <3>4
  <2> QED
    BY <1>1, <1>4, <1>6, <2>1, <2>2, <2>3, <2>4
<1>13. u = v
  BY <1>9, <1>10, <1>11, <1>12, SameSequence DEF IsText
<1> QED
  BY <1>13 DEF u, v, g, h, n

(* What a text cites are URLs of its bullets.                              *)
LEMMA SourcesType ==
  ASSUME NEW t, IsText(Body(t))
  PROVE  SourcesOf(t) \in Seq(Urls(Body(t))) /\ \E U : SourcesOf(t) \in Seq(U)
<1>1. AnalyzeCitations(Body(t)) \in Scans(Body(t))
  BY CitedUrls
<1>2. AnalyzeCitations(Body(t)).resources \in Seq(Urls(Body(t)))
  BY <1>1 DEF Scans
<1> QED
  BY <1>2 DEF SourcesOf

(* Keys that a concept has once it is migrated.                            *)
LEMMA KeysMigrated ==
  ASSUME NEW t, IsText(t), HasFrontmatter(t), NEW insert
  PROVE  LET n == ApplyEdits(t, ConceptEdits(t, insert))
         IN /\ LegacyTimestamp(n) => LegacyTimestamp(t) /\ TimestampEdits(t) = {}
            /\ "sources" \notin Keys(n) <=> "sources" \notin Keys(t) /\ CitationEdits(t, insert) = {}
<1> DEFINE n == ApplyEdits(t, ConceptEdits(t, insert))
           f == FrontLines(t)
           y == Body(t)
           res == SourcesOf(t)
           stamp == <<"field", "generated", "block", Value(t, "timestamp")>>
           cite == <<"field", "sources", "block", res>>
           stamped == ToSet(Stamped(Value(t, "timestamp")))
           cited == ToSet(Cited(res))
           TE == TimestampEdits(t)
           CE == CitationEdits(t, insert)
<1>1. PICK g : Shaped(n, Mark(t), g, y) /\ MigratedFront(t, insert, g)
  BY ConceptShape
<1>2. /\ \A l \in ToSet(f) : l \in ToSet(g) \/ (TE # {} /\ l[1] = "field" /\ l[2] = "timestamp")
      /\ \A l \in ToSet(g) : l \in ToSet(f) \/ (TE # {} /\ l \in stamped) \/ (CE # {} /\ l \in cited)
      /\ TE # {} => stamped \subseteq ToSet(g)
      /\ CE # {} => cited \subseteq ToSet(g)
  BY <1>1 DEF MigratedFront
<1> HIDE DEF n
<1>3. FrontLines(n) = g
  BY <1>1, ShapeParts
<1>4. PICK U : res \in Seq(U)
  BY <1>1, SourcesType DEF Shaped
<1>5. cite \in cited /\ \A l \in cited : l = cite \/ l = <<"deeper">>
  BY <1>4, CitedLines
<1>6. stamped = {stamp, <<"deeper">>}
  BY StampedLines
<1>7. \A key : key \in Keys(n) <=> \E l \in ToSet(g) : HasKey(l, key)
  BY <1>3, KeysOfLines
<1>8. \A key : key \in Keys(t) <=> \E l \in ToSet(f) : HasKey(l, key)
  BY KeysOfLines
<1>9. HasKey(stamp, "generated") /\ ~HasKey(stamp, "sources")
  BY DEF HasKey
<1>10. HasKey(cite, "sources") /\ ~HasKey(cite, "timestamp")
  BY DEF HasKey
<1>11. ~HasKey(<<"deeper">>, "sources") /\ ~HasKey(<<"deeper">>, "timestamp")
  BY DEF HasKey
<1>12. \A l : HasKey(l, "sources") \/ HasKey(l, "generated") => ~(l[1] = "field" /\ l[2] = "timestamp")
  BY DEF HasKey
<1> HIDE DEF stamp, cite, stamped, cited, TE, CE, f, y, res
<1>13. ASSUME LegacyTimestamp(n)
       PROVE  LegacyTimestamp(t) /\ TE = {}
  <2>1. "timestamp" \in Keys(n) /\ "generated" \notin Keys(n)
    BY <1>13 DEF LegacyTimestamp
  <2>2. TE = {}
    BY <1>2, <1>6, <1>7, <1>9, <2>1
  <2>3. "timestamp" \in Keys(t)
    BY <1>2, <1>5, <1>7, <1>8, <1>10, <1>11, <2>1, <2>2
  <2>4. "generated" \notin Keys(t)
    BY <1>2, <1>7, <1>8, <2>1, <2>2
  <2> QED
    BY <2>2, <2>3, <2>4 DEF LegacyTimestamp
<1>14. ASSUME "sources" \notin Keys(n)
       PROVE  "sources" \notin Keys(t) /\ CE = {}
  <2>1. CE = {}
    BY <1>2, <1>5, <1>7, <1>10, <1>14
  <2>2. "sources" \notin Keys(t)
    BY <1>2, <1>7, <1>8, <1>12, <1>14
  <2> QED
    BY <2>1, <2>2
<1>15. ASSUME "sources" \notin Keys(t), CE = {}
       PROVE  "sources" \notin Keys(n)
  BY <1>2, <1>6, <1>7, <1>8, <1>9, <1>11, <1>15
<1> QED
  BY <1>13, <1>14, <1>15 DEF n, TE, CE

(* The first of the lines that list the sources.                           *)
LEMMA CitedFirst ==
  ASSUME NEW U, NEW resources \in Seq(U)
  PROVE  Len(Cited(resources)) >= 1 /\ Cited(resources)[1] = <<"field", "sources", "block", resources>>
<1> DEFINE head == <<"field", "sources", "block", resources>>
           r == [i \in DOMAIN resources |-> <<"deeper">>]
           h == <<head>>
<1>1. DOMAIN resources = 1..Len(resources) /\ Len(resources) \in Nat
  OBVIOUS
<1>2. r \in Seq({<<"deeper">>})
  <2>1. r \in [1..Len(resources) -> {<<"deeper">>}]
    BY <1>1
  <2> HIDE DEF r
  <2> QED
    BY <1>1, <2>1
<1>3. h \in Seq({head}) /\ Len(h) = 1 /\ h[1] = head
  OBVIOUS
<1>4. Cited(resources) = h \o r
  BY DEF Cited
<1> DEFINE X == {head, <<"deeper">>}
<1> HIDE DEF h, r, head
<1>6. h \in Seq(X) /\ r \in Seq(X)
  BY <1>2, <1>3, SeqMonotonic
<1> HIDE DEF X
<1>5. Len(h \o r) = 1 + Len(r) /\ Len(r) \in Nat /\ (h \o r)[1] = head
  <2>1. Len(h \o r) = Len(h) + Len(r) /\ Len(r) \in Nat
    BY <1>6, ConcatProperties
  <2>2. 1 \in 1..Len(h)
    BY <1>3
  <2>3. (h \o r)[1] = h[1]
    BY <1>6, <2>2
  <2> QED
    BY <1>3, <2>1, <2>3
<1> QED
  BY <1>4, <1>5 DEF head

(* A timestamp that was not replaced is not replaced by a second run.      *)
LEMMA StampedOnce ==
  ASSUME NEW t, IsText(t), HasFrontmatter(t), NEW insert, TimestampRange(t).is # "unavailable"
  PROVE  LET n == ApplyEdits(t, ConceptEdits(t, insert))
         IN TimestampEdits(n) = {} /\ TimestampRange(n).is # "unavailable"
<1> DEFINE n == ApplyEdits(t, ConceptEdits(t, insert))
           f == FrontLines(t)
           y == Body(t)
           res == SourcesOf(t)
           cite == <<"field", "sources", "block", res>>
           ms == Cited(res)
           key == "timestamp"
<1>1. PICK g : Shaped(n, Mark(t), g, y) /\ MigratedFront(t, insert, g)
  BY ConceptShape
<1>2. LegacyTimestamp(n) => LegacyTimestamp(t) /\ TimestampEdits(t) = {}
  BY KeysMigrated
<1> HIDE DEF n
<1>3. NoRange.is = "none"
  BY DEF NoRange
<1>4. Shaped(t, Mark(t), f, y) /\ FrontLines(n) = g /\ IsText(f) /\ IsText(g) /\ Len(f) \in Nat
  <2>1. Shaped(t, Mark(t), f, y)
    BY ShapeOf
  <2>2. FrontLines(n) = g
    BY <1>1, ShapeParts
  <2>3. IsText(f) /\ IsText(g) /\ Len(f) \in Nat
    BY <1>1, <2>1 DEF Shaped, IsText
  <2> QED
    BY <2>1, <2>2, <2>3
<1>5. CASE ~(LegacyTimestamp(n) /\ Value(n, key) \in Dates)
  <2>1. TimestampRange(n) = NoRange
    BY <1>5 DEF TimestampRange
  <2> QED
    BY <1>3, <2>1 DEF TimestampEdits, n
<1>6. CASE LegacyTimestamp(n) /\ Value(n, key) \in Dates
  <2>1. LegacyTimestamp(t) /\ TimestampEdits(t) = {}
    BY <1>2, <1>6
  <2>2. CASE CitationEdits(t, insert) = {}
    <3>1. g = f
      BY <1>1, <2>1, <2>2 DEF MigratedFront
    <3>2. n = t
      BY <1>1, <1>4, <3>1, ShapeUnique
    <3> QED
      BY <2>1, <3>2 DEF n
  <2>3. CASE CitationEdits(t, insert) # {}
    <3>1. g = Splice(f, Len(f), Len(f), ms)
      BY <1>1, <2>1, <2>3 DEF MigratedFront
    <3>2. PICK U : res \in Seq(U)
      BY <1>4, SourcesType DEF Shaped
    <3>3. /\ IsText(ms) /\ cite \in ToSet(ms) /\ \A l \in ToSet(ms) : l = cite \/ l = <<"deeper">>
          /\ Len(ms) \in Nat /\ Len(ms) >= 1 /\ ms[1] = cite
      BY <3>2, CitedLines, CitedFirst DEF IsText
    <3>4. ToSet(g) = ToSet(f) \cup ToSet(ms)
      BY <1>4, <3>1, <3>2, CitedFront
    <3>5. /\ Len(g) = Len(f) + Len(ms) + (Len(f) - Len(f))
          /\ \A i \in 1..Len(f) : g[i] = f[i]
          /\ \A i \in 1..Len(ms) : g[Len(f) + i] = ms[i]
      <4>1. IsSplice(g, f, Len(f), Len(f), ms)
        <5>1. Len(f) \in 0..Len(f) /\ Len(f) \in Len(f)..Len(f)
          BY <1>4
        <5> QED
          BY <1>4, <3>1, <3>3, <5>1, Spliced
      <4> QED
        BY <4>1 DEF IsSplice
    <3>6. cite # <<"deeper">> /\ cite # <<"gap">> /\ cite[1] = "field" /\ cite[2] = "sources" /\ <<"deeper">>[1] = "deeper"
      OBVIOUS
    <3> HIDE DEF cite, ms, f
    <3>7. \A l \in ToSet(ms) : ~(l[1] = "field" /\ l[2] = key) /\ ~(l[1] = "flow" /\ key \in DOMAIN l[2])
      BY <3>3, <3>6
    <3>8. FieldLines(n, key) = FieldLines(t, key) /\ FlowLines(n, key) = FlowLines(t, key)
      BY <1>4, <3>4, <3>7 DEF FieldLines, FlowLines, f
    <3>9. Value(n, key) = Value(t, key)
      <4> DEFINE Found(F, G) == IF F # {} THEN (CHOOSE l \in F : TRUE)[4]
                                ELSE IF G # {} THEN (CHOOSE l \in G : TRUE)[2][key] ELSE ""
      <4>1. /\ Value(n, key) = Found(FieldLines(n, key), FlowLines(n, key))
            /\ Value(t, key) = Found(FieldLines(t, key), FlowLines(t, key))
        BY DEF Value
      <4> HIDE DEF Found
      <4> QED
        BY <3>8, <4>1
    <3>10. TimestampRange(t) = SimpleFieldRange(t, key) /\ TimestampRange(n) = SimpleFieldRange(n, key)
      BY <1>6, <2>1, <3>9 DEF TimestampRange
    <3>11. SimpleFieldRange(t, key).is = RangeKind(f, key) /\ SimpleFieldRange(n, key).is = RangeKind(g, key)
      BY <1>1, <1>4, RangeKindIs
    <3>12. RangeKind(g, key) = RangeKind(f, key)
      <4>1. ASSUME NEW i \in (Len(f) + 1)..Len(g)
            PROVE  ~(g[i][1] = "field" /\ g[i][2] = key)
        <5>1. PICK j \in 1..Len(ms) : i = Len(f) + j
          <6>1. i - Len(f) \in 1..Len(ms) /\ i = Len(f) + (i - Len(f))
            BY <1>4, <3>3, <3>5
          <6> QED
            BY <6>1
        <5>3. ms[j] \in ToSet(ms)
          BY <3>3, SequenceOf DEF IsText
        <5>2. g[i] = ms[j]
          BY <3>5, <5>1
        <5> QED
          BY <3>7, <5>2, <5>3
      <4>2. Len(f) < Len(g) /\ g[Len(f) + 1] = cite
        BY <1>4, <3>3, <3>5
      <4> HIDE DEF key
      <4> QED
        BY <1>4, <3>5, <3>6, <4>1, <4>2, RangeKindExtended
    <3>13. TimestampRange(n).is = TimestampRange(t).is
      BY <3>10, <3>11, <3>12
    <3>14. TimestampRange(t).is # "range"
      BY <2>1 DEF TimestampEdits
    <3> QED
      BY <3>13, <3>14 DEF TimestampEdits, n
  <2> QED
    BY <2>2, <2>3
<1> QED
  BY <1>5, <1>6

(* The citations, written after the timestamp or with it.                  *)
LEMMA CitedLater ==
  ASSUME NEW t, IsText(t), HasFrontmatter(t)
  PROVE  LET m == ApplyEdits(t, TimestampEdits(t))
         IN ApplyEdits(m, {SourcesEdit(m, SourcesOf(m))}) =
              ApplyEdits(t, TimestampEdits(t) \cup {SourcesEdit(t, SourcesOf(t))})
<1> DEFINE b == Mark(t)
           f == FrontLines(t)
           y == Body(t)
           res == SourcesOf(t)
           ms == Cited(res)
           TE == TimestampEdits(t)
           m == ApplyEdits(t, TE)
           C == Edit(b + 1 + Len(f), b + 1 + Len(f), ms)
           h == Splice(f, Len(f), Len(f), ms)
<1>1. Shaped(t, b, f, y)
  BY ShapeOf
<1>2. IsText(f) /\ IsText(y) /\ b \in {0, 1} /\ Len(f) \in Nat
  BY <1>1 DEF Shaped, IsText
<1>3. PICK U : res \in Seq(U)
  BY <1>2, SourcesType
<1>4. IsText(ms) /\ Fence \notin ToSet(ms)
  BY <1>3, CitedLines
<1>5. SourcesEdit(t, res) = C
  BY <1>1, CitationEditShape
<1>6. CASE TE = {}
  <2>1. m = t
    BY <1>6, ApplyNone
  <2>2. TE \cup {SourcesEdit(t, res)} = {SourcesEdit(t, res)}
    BY <1>6
  <2> HIDE DEF m, TE
  <2> QED
    BY <2>1, <2>2 DEF m, TE
<1>7. CASE TE # {}
  <2> DEFINE ls == Stamped(Value(t, "timestamp"))
  <2>1. PICK i \in 1..Len(f) : TE = {Edit(b + i, b + 1 + i, ls)}
    BY <1>2, <1>7, TimestampEditShape
  <2> DEFINE G == Edit(b + i, b + 1 + i, ls)
             g == Splice(f, i - 1, i, ls)
             u == Splice(g, Len(g), Len(g), ms)
             v == Splice(h, i - 1, i, ls)
             D == Edit(b + 1 + Len(g), b + 1 + Len(g), ms)
  <2>2. IsText(ls) /\ Fence \notin ToSet(ls)
    BY StampedLines
  <2>3. G.from = b + i /\ G.from \in Nat /\ C.from \in Nat /\ G.from < C.from
    BY <1>2 DEF Edit
  <2>4. m = Put(G, t)
    <3>1. TE = {G}
      BY <2>1
    <3> HIDE DEF G
    <3> QED
      BY <2>3, <3>1, ApplyOne
  <2>5. Shaped(m, b, g, y)
    BY <1>1, <2>2, <2>4, RenewedShape
  <2>6. IsText(g) /\ Len(g) \in Nat
    BY <2>5 DEF Shaped, IsText
  <2>7. SourcesOf(m) = res
    <3>1. Body(m) = y
      BY <2>5, ShapeParts
    <3> HIDE DEF m
    <3> QED
      BY <3>1 DEF SourcesOf
  <2>8. SourcesEdit(m, SourcesOf(m)) = D
    <3>1. SourcesEdit(m, SourcesOf(m)) = Edit(b + 1 + Len(g), b + 1 + Len(g), Cited(SourcesOf(m)))
      BY <2>5, CitationEditShape
    <3> HIDE DEF m, g, res
    <3> QED
      BY <2>7, <3>1
  <2>9. ApplyEdits(m, {D}) = Put(D, m)
    <3>1. D.from \in Nat
      BY <1>2, <2>6 DEF Edit
    <3> HIDE DEF D
    <3> QED
      BY <3>1, ApplyOne
  <2>10. Shaped(Put(D, m), b, u, y)
    <3> HIDE DEF m, g
    <3> QED
      BY <1>4, <2>5, ExtendedShape
  <2>11. ApplyEdits(t, {G, C}) = Put(G, Put(C, t))
    <3> HIDE DEF G, C
    <3> QED
      BY <2>3, ApplyTwo
  <2>12. Shaped(Put(G, Put(C, t)), b, v, y)
    <3>1. Shaped(Put(C, t), b, h, y)
      BY <1>1, <1>4, ExtendedShape
    <3>2. i \in 1..Len(h)
      <4>1. Len(f) <= Len(h) /\ Len(h) \in Nat
        BY <1>2, <1>3, CitedFront
      <4> HIDE DEF h
      <4> QED
        BY <1>2, <4>1
    <3> HIDE DEF C, h
    <3> QED
      BY <2>2, <3>1, <3>2, RenewedShape
  <2>13. u = v
    BY <1>2, <1>4, <2>2, SplicesCommute
  <2>14. Put(D, m) = Put(G, Put(C, t))
    <3> HIDE DEF m, D, G, C, u, v
    <3> QED
      BY <2>10, <2>12, <2>13, ShapeUnique
  <2>15. TE \cup {SourcesEdit(t, res)} = {G, C}
    BY <1>5, <2>1
  <2> HIDE DEF m, D, G, C, TE, res
  <2> QED
    BY <2>8, <2>9, <2>11, <2>14, <2>15 DEF m, TE, res
<1> QED
  BY <1>6, <1>7

(* A second run over a concept leaves it alone, or does what the first one *)
(* would have done with the citations it left out.                         *)
LEMMA MigratedAgain ==
  ASSUME NEW t, IsText(t), HasFrontmatter(t), NEW insert \in BOOLEAN, TimestampRange(t).is # "unavailable"
  PROVE  LET n == ApplyEdits(t, ConceptEdits(t, insert))
         IN /\ TimestampEdits(n) = {} /\ TimestampRange(n).is # "unavailable"
            /\ insert => CitationEdits(n, TRUE) = {}
            /\ ~insert => ApplyEdits(n, ConceptEdits(n, TRUE)) = ApplyEdits(t, ConceptEdits(t, TRUE))
<1> DEFINE n == ApplyEdits(t, ConceptEdits(t, insert))
           TE == TimestampEdits(t)
           m == ApplyEdits(t, TE)
           later == SourcesEdit(m, SourcesOf(m))
           now == SourcesEdit(t, SourcesOf(t))
<1>1. TimestampEdits(n) = {} /\ TimestampRange(n).is # "unavailable"
  BY StampedOnce
<1>2. CitationEdits(t, FALSE) = {}
  BY DEF CitationEdits
<1>3. m = ApplyEdits(t, ConceptEdits(t, FALSE))
  BY <1>2 DEF ConceptEdits
<1>4. TimestampEdits(m) = {}
  BY <1>3, StampedOnce
<1>5. "sources" \notin Keys(m) <=> "sources" \notin Keys(t)
  BY <1>2, <1>3, KeysMigrated
<1>6. Body(m) = Body(t)
  BY <1>3, ConceptSurvives DEF Survives
<1>7. ApplyEdits(m, {later}) = ApplyEdits(t, TE \cup {now})
  BY CitedLater
<1> HIDE DEF n, m, TE
<1>8. CitationEdits(m, TRUE) = {} <=> CitationEdits(t, TRUE) = {}
  <2>1. CitationEdits(m, TRUE) = {} <=>
          ~LET scan == AnalyzeCitations(Body(m))
           IN /\ scan.found /\ ~scan.ambiguous /\ scan.resources # <<>> /\ "sources" \notin Keys(m)
              /\ Parses(ApplyEdits(m, TimestampEdits(m) \cup {later}))
    BY DEF CitationEdits, SourcesOf
  <2>2. CitationEdits(t, TRUE) = {} <=>
          ~LET scan == AnalyzeCitations(Body(t))
           IN /\ scan.found /\ ~scan.ambiguous /\ scan.resources # <<>> /\ "sources" \notin Keys(t)
              /\ Parses(ApplyEdits(t, TE \cup {now}))
    BY DEF CitationEdits, SourcesOf, TE
  <2>3. TimestampEdits(m) \cup {later} = {later}
    BY <1>4
  <2> HIDE DEF later, now
  <2> QED
    BY <1>5, <1>6, <1>7, <2>1, <2>2, <2>3
<1>9. CASE insert
  <2>1. n = ApplyEdits(t, ConceptEdits(t, TRUE))
    BY <1>9 DEF n
  <2>2. CASE CitationEdits(t, TRUE) = {}
    <3>1. n = m
      BY <2>1, <2>2 DEF ConceptEdits, m, TE
    <3> QED
      BY <1>1, <1>8, <1>9, <2>2, <3>1 DEF n
  <2>3. CASE CitationEdits(t, TRUE) # {}
    <3>1. "sources" \in Keys(n)
      BY <2>1, <2>3, KeysMigrated
    <3>2. CitationEdits(n, TRUE) = {}
      BY <3>1 DEF CitationEdits
    <3> QED
      BY <1>1, <1>9, <3>2 DEF n
  <2> QED
    BY <2>2, <2>3
<1>10. CASE ~insert
  <2>1. n = m
    BY <1>3, <1>10 DEF n
  <2>2. CASE CitationEdits(t, TRUE) = {}
    <3>1. ConceptEdits(m, TRUE) = {} /\ ConceptEdits(t, TRUE) = TE
      BY <1>4, <1>8, <2>2 DEF ConceptEdits, TE
    <3>2. ApplyEdits(m, ConceptEdits(m, TRUE)) = m
      BY <3>1, ApplyNone
    <3>3. ApplyEdits(t, ConceptEdits(t, TRUE)) = m
      BY <3>1 DEF m
    <3> QED
      BY <1>1, <1>10, <2>1, <3>2, <3>3 DEF n
  <2>3. CASE CitationEdits(t, TRUE) # {}
    <3>1. ConceptEdits(m, TRUE) = {later} /\ ConceptEdits(t, TRUE) = TE \cup {now}
      BY <1>4, <1>8, <2>3, CitationEditsAre DEF ConceptEdits, TE
    <3> QED
      BY <1>1, <1>7, <1>10, <2>1, <3>1 DEF n
  <2> QED
    BY <2>2, <2>3
<1> QED
  BY <1>9, <1>10

(* The version that was written is read again.                             *)
LEMMA VersionWritten ==
  ASSUME NEW t, IsText(t), Parses(t), SimpleFieldRange(t, "okf_version").is = "range"
  PROVE  Value(ApplyEdits(t, {VersionEdit(SimpleFieldRange(t, "okf_version").line)}), "okf_version") = "0.2"
<1> DEFINE b == Mark(t)
           f == FrontLines(t)
           y == Body(t)
           vline == <<"field", "okf_version", "plain", "0.2">>
           ls == <<vline>>
           n == ApplyEdits(t, {VersionEdit(SimpleFieldRange(t, "okf_version").line)})
<1>1. PICK i \in 1..Len(f) : /\ Shaped(n, b, Splice(f, i - 1, i, ls), y)
                             /\ f[i][1] = "field" /\ f[i][2] = "okf_version"
                             /\ IsText(f) /\ IsText(ls) /\ ToSet(ls) = {vline}
  BY RootShape DEF Parses
<1> DEFINE g == Splice(f, i - 1, i, ls)
<1>2. FrontLines(n) = g
  BY <1>1, ShapeParts
<1>3. Len(f) \in Nat /\ i - 1 \in 0..Len(f) /\ i \in (i - 1)..Len(f) /\ DOMAIN f = 1..Len(f)
  BY <1>1 DEF IsText
<1>4. ToSet(g) = {f[j] : j \in 1..(i - 1)} \cup {vline} \cup {f[j] : j \in (i + 1)..Len(f)}
  <2> HIDE DEF vline, ls
  <2> QED
    BY <1>1, <1>3, SpliceSet
<1>5. \A j \in 1..Len(f) : j # i /\ f[j][1] = "field" => f[j][2] # "okf_version"
  BY <1>1, <1>3 DEF Parses
<1>6. FieldLines(n, "okf_version") = {vline}
  <2>1. vline[1] = "field" /\ vline[2] = "okf_version"
    OBVIOUS
  <2>2. \A j \in 1..(i - 1) : j \in 1..Len(f) /\ j # i
    BY <1>3
  <2>3. \A j \in (i + 1)..Len(f) : j \in 1..Len(f) /\ j # i
    BY <1>3
  <2> HIDE DEF vline, g, f
  <2>4. \A l \in ToSet(g) : l[1] = "field" /\ l[2] = "okf_version" => l = vline
    BY <1>4, <1>5, <2>2, <2>3
  <2>5. vline \in ToSet(g)
    BY <1>4
  <2> HIDE DEF n
  <2> QED
    BY <1>2, <2>1, <2>4, <2>5 DEF FieldLines
<1>7. vline[4] = "0.2"
  OBVIOUS
<1> HIDE DEF n, vline
<1> QED
  BY <1>6, <1>7 DEF Value, n
-------------------------------------------------------------------------------
(* The second run.                                                         *)

(* What a pass that finds nothing wrong makes of a document, and of all.   *)
CurrentRoot(text) ==
  IF Value(text, "okf_version") = "0.2" THEN text
  ELSE ApplyEdits(text, {VersionEdit(SimpleFieldRange(text, "okf_version").line)})

MigratedDocument(d, insert) ==
  IF IsConcept(d) THEN [path |-> d.path, text |-> ApplyEdits(d.text, ConceptEdits(d.text, insert))]
  ELSE IF d.path = RootIndex THEN [path |-> d.path, text |-> CurrentRoot(d.text)]
  ELSE d

WholePlan(docs, insert) == [i \in DOMAIN docs |-> MigratedDocument(docs[i], insert)]

(* The pass has come this far without an error, and renders what it needs. *)
OnTrack ==
  at \in {"concepts", "planned"} =>
    /\ Migratable
    /\ \A d \in ToSet(documents) :
         d.path = RootIndex => (Value(d.text, "okf_version") = "0.2" <=> ~\E f \in ToSet(files) : f.path = RootIndex)
    /\ \A d \in ToSet(documents) :
         IsConcept(d) => d \in ToSet(todo) \/ TimestampRange(d.text).is # "unavailable"
    /\ \A f \in ToSet(files) : \A d \in ToSet(documents) :
         IsConcept(d) /\ f.path = d.path => ConceptEdits(d.text, allow) # {}

(* Citations are left out of a plan that does not parse with them.         *)
LeftOut == allow \in BOOLEAN /\ (~allow => ~BundleParses(WholePlan(documents, TRUE)))

(* What the second run starts from.                                        *)
SettledDocuments ==
  /\ \A d \in ToSet(documents) : d.path = RootIndex => Value(d.text, "okf_version") = "0.2"
  /\ \A d \in ToSet(documents) : IsConcept(d) => TimestampEdits(d.text) = {} /\ TimestampRange(d.text).is # "unavailable"
  /\ \/ \A d \in ToSet(documents) : IsConcept(d) => CitationEdits(d.text, TRUE) = {}
     \/ ~BundleParses(WholePlan(documents, TRUE))

(* The second run starts from documents that are settled, and does not     *)
(* fail.                                                                   *)
SecondRound == round \in {1, 2} /\ (round = 2 => at # "error" /\ Migratable /\ SettledDocuments)

(* The inductive invariant of both runs.                                   *)
RunInvariant == PlanInvariant /\ OnTrack /\ LeftOut /\ SecondRound

(* n is the document d after a run, and what a second run makes of it.     *)
RunTwice(d, n, insert) ==
  /\ n.path = d.path
  /\ d.path = RootIndex =>
       Value(n.text, "okf_version") = "0.2" /\ (HasFrontmatter(d.text) => HasFrontmatter(n.text))
  /\ IsConcept(d) => TimestampEdits(n.text) = {} /\ TimestampRange(n.text).is # "unavailable"
  /\ IsConcept(d) /\ insert => CitationEdits(n.text, TRUE) = {}
  /\ ~insert => MigratedDocument(n, TRUE) = MigratedDocument(d, TRUE)

LEMMA MigratedTwice ==
  ASSUME NEW d, d = [path |-> d.path, text |-> d.text], NEW insert \in BOOLEAN,
         IsConcept(d) => IsText(d.text) /\ HasFrontmatter(d.text) /\ TimestampRange(d.text).is # "unavailable",
         d.path = RootIndex /\ Value(d.text, "okf_version") # "0.2" =>
           IsText(d.text) /\ Parses(d.text) /\ SimpleFieldRange(d.text, "okf_version").is = "range"
  PROVE  RunTwice(d, MigratedDocument(d, insert), insert)
<1> DEFINE n == MigratedDocument(d, insert)
<1>1. CASE IsConcept(d)
  <2> DEFINE t == ApplyEdits(d.text, ConceptEdits(d.text, insert))
  <2>1. n = [path |-> d.path, text |-> t]
    BY <1>1 DEF MigratedDocument
  <2>2. d.path # RootIndex
    BY <1>1, ReservedAssumption DEF IsConcept
  <2>3. /\ TimestampEdits(t) = {} /\ TimestampRange(t).is # "unavailable"
        /\ insert => CitationEdits(t, TRUE) = {}
        /\ ~insert => ApplyEdits(t, ConceptEdits(t, TRUE)) = ApplyEdits(d.text, ConceptEdits(d.text, TRUE))
    BY <1>1, MigratedAgain
  <2> HIDE DEF t
  <2>4. n.path = d.path /\ n.text = t
    BY <2>1
  <2> HIDE DEF n
  <2>5. IsConcept(n)
    BY <1>1, <2>4 DEF IsConcept
  <2>6. ~insert => MigratedDocument(n, TRUE) = MigratedDocument(d, TRUE)
    BY <1>1, <2>3, <2>4, <2>5 DEF MigratedDocument
  <2> QED
    BY <2>2, <2>3, <2>4, <2>6 DEF RunTwice, n
<1>2. CASE d.path = RootIndex
  <2> DEFINE t == CurrentRoot(d.text)
  <2>1. ~IsConcept(d)
    BY <1>2, ReservedAssumption DEF IsConcept
  <2>2. n = [path |-> d.path, text |-> t]
    BY <1>2, <2>1 DEF MigratedDocument
  <2>3. Value(t, "okf_version") = "0.2" /\ (HasFrontmatter(d.text) => HasFrontmatter(t))
    <3>1. CASE Value(d.text, "okf_version") = "0.2"
      BY <3>1 DEF CurrentRoot
    <3>2. CASE Value(d.text, "okf_version") # "0.2"
      <4>1. IsText(d.text) /\ Parses(d.text) /\ SimpleFieldRange(d.text, "okf_version").is = "range"
        BY <1>2, <3>2
      <4>2. HasFrontmatter(d.text)
        BY <4>1 DEF Parses
      <4>3. t = ApplyEdits(d.text, {VersionEdit(SimpleFieldRange(d.text, "okf_version").line)})
        BY <3>2 DEF CurrentRoot
      <4>4. Value(t, "okf_version") = "0.2"
        BY <4>1, <4>3, VersionWritten
      <4>5. HasFrontmatter(t)
        BY <4>1, <4>2, <4>3, RootSurvives DEF Survives
      <4> QED
        BY <4>4, <4>5
    <3> QED
      BY <3>1, <3>2
  <2> HIDE DEF t
  <2>4. n.path = d.path /\ n.text = t
    BY <2>2
  <2> HIDE DEF n
  <2>5. ~IsConcept(n)
    BY <2>1, <2>4 DEF IsConcept
  <2>6. CurrentRoot(t) = t
    BY <2>3 DEF CurrentRoot
  <2>7. MigratedDocument(n, TRUE) = MigratedDocument(d, TRUE)
    <3>1. MigratedDocument(n, TRUE) = [path |-> d.path, text |-> t]
      BY <1>2, <2>4, <2>5, <2>6 DEF MigratedDocument
    <3>2. MigratedDocument(d, TRUE) = [path |-> d.path, text |-> t]
      BY <1>2, <2>1 DEF MigratedDocument, t
    <3> QED
      BY <3>1, <3>2
  <2> QED
    BY <2>1, <2>3, <2>4, <2>7 DEF RunTwice, n
<1>3. CASE ~IsConcept(d) /\ d.path # RootIndex
  <2>1. MigratedDocument(d, insert) = d /\ MigratedDocument(d, TRUE) = d
    BY <1>3 DEF MigratedDocument
  <2> QED
    BY <1>3, <2>1 DEF RunTwice
<1> QED
  BY <1>1, <1>2, <1>3

(* Documents of which nothing is rendered are what they were.              *)
LEMMA WholePlanEmpty ==
  ASSUME Legible(documents), NEW insert,
         \A d \in ToSet(documents) : d.path = RootIndex => Value(d.text, "okf_version") = "0.2",
         \A d \in ToSet(documents) : IsConcept(d) => ConceptEdits(d.text, insert) = {}
  PROVE  WholePlan(documents, insert) = documents
<1> DEFINE n == Len(documents)
<1>1. n \in Nat /\ DOMAIN documents = 1..n /\ documents = [i \in 1..n |-> documents[i]]
  BY DEF Legible
<1>2. ASSUME NEW i \in 1..n
      PROVE  MigratedDocument(documents[i], insert) = documents[i]
  <2> DEFINE d == documents[i]
  <2>1. d \in ToSet(documents)
    BY <1>1 DEF ToSet
  <2>2. d = [path |-> d.path, text |-> d.text]
    BY <2>1 DEF Legible
  <2>3. CASE IsConcept(d)
    <3>1. ConceptEdits(d.text, insert) = {}
      BY <2>1, <2>3
    <3>2. ApplyEdits(d.text, ConceptEdits(d.text, insert)) = d.text
      BY <3>1, ApplyNone
    <3> QED
      BY <2>2, <2>3, <3>2 DEF MigratedDocument
  <2>4. CASE ~IsConcept(d) /\ d.path = RootIndex
    <3>1. CurrentRoot(d.text) = d.text
      BY <2>1, <2>4 DEF CurrentRoot
    <3> QED
      BY <2>2, <2>4, <3>1 DEF MigratedDocument
  <2>5. CASE ~IsConcept(d) /\ d.path # RootIndex
    BY <2>5 DEF MigratedDocument
  <2> QED
    BY <2>3, <2>4, <2>5
<1> HIDE DEF n
<1>3. WholePlan(documents, insert) = [i \in 1..n |-> MigratedDocument(documents[i], insert)]
  BY <1>1 DEF WholePlan
<1> QED
  BY <1>1, <1>2, <1>3

(* The root of documents that can be migrated.                             *)
LEMMA RootParses ==
  ASSUME Legible(documents), Migratable, NEW d \in ToSet(documents), d.path = RootIndex
  PROVE  IsText(d.text) /\ HasFrontmatter(d.text) /\ Parses(d.text) /\ TextAt(RootIndex) = d.text
<1>1. Addressed
  BY MigratableSound
<1>2. PICK e \in ToSet(documents) : e.path = RootIndex /\ HasFrontmatter(e.text)
  BY DEF Migratable
<1>3. e = d
  BY <1>1, <1>2 DEF Addressed
<1>4. d.text # Unreadable /\ (Parses(d.text) \/ ~Opens(d.text))
  BY DEF Migratable, BundleParses
<1>5. IsText(d.text)
  BY <1>4 DEF Legible
<1>6. Opens(d.text)
  BY <1>2, <1>3 DEF HasFrontmatter
<1>7. TextAt(d.path) = d.text
  BY <1>1, TextIs
<1> QED
  BY <1>2, <1>3, <1>4, <1>5, <1>6, <1>7

(* What is rendered of the root is its version, where it is an old one.    *)
LEMMA RootRendered ==
  ASSUME PlanInvariant, OnTrack, at \in {"concepts", "planned"}, NEW d \in ToSet(documents), d.path = RootIndex,
         NEW f \in ToSet(files), f.path = RootIndex
  PROVE  /\ Value(d.text, "okf_version") # "0.2"
         /\ SimpleFieldRange(d.text, "okf_version").is = "range"
         /\ f = [path |-> RootIndex, text |-> CurrentRoot(d.text)]
<1>1. Addressed
  BY DEF PlanInvariant, Stages
<1>2. Value(d.text, "okf_version") # "0.2"
  BY DEF OnTrack
<1>3. ~RenderedConcept(f)
  <2> SUFFICES ASSUME RenderedConcept(f) PROVE FALSE
    OBVIOUS
  <2>1. PICK e \in ToSet(documents) : IsConcept(e) /\ f.path = e.path
    BY DEF RenderedConcept
  <2> QED
    BY <2>1, ReservedAssumption DEF IsConcept
<1>4. RenderedRoot(f)
  BY <1>3 DEF PlanInvariant, Planned
<1>5. PICK e \in ToSet(documents) :
        /\ e.path = RootIndex /\ SimpleFieldRange(e.text, "okf_version").is = "range"
        /\ f = [path |-> RootIndex,
                text |-> ApplyEdits(e.text, {VersionEdit(SimpleFieldRange(e.text, "okf_version").line)})]
  BY <1>4 DEF RenderedRoot
<1>6. e = d
  BY <1>1, <1>5 DEF Addressed
<1> QED
  BY <1>2, <1>5, <1>6 DEF CurrentRoot

(* A plan that is complete is what the documents would be, all together.   *)
LEMMA AppliedWhole ==
  ASSUME PlanInvariant, OnTrack, at \in {"concepts", "planned"}, todo = <<>>
  PROVE  Applied = WholePlan(documents, allow)
<1>1. Addressed /\ Planned /\ Legible(documents)
  BY DEF PlanInvariant, Stages, Planned
<1>2. ASSUME NEW i \in DOMAIN documents
      PROVE  Applied[i] = MigratedDocument(documents[i], allow)
  <2> DEFINE d == documents[i]
             R == Rendered(d.path)
  <2>1. d \in ToSet(documents) /\ d = [path |-> d.path, text |-> d.text]
    <3>1. d \in ToSet(documents)
      BY DEF ToSet
    <3> QED
      BY <1>1, <3>1 DEF Legible
  <2>2. Applied[i] = IF R = {} THEN d ELSE CHOOSE f \in R : TRUE
    BY DEF Applied
  <2>3. R = {f \in ToSet(files) : f.path = d.path}
    BY DEF Rendered
  <2>4. CASE IsConcept(d)
    BY <2>4, AppliedConcept DEF MigratedDocument
  <2>5. CASE ~IsConcept(d) /\ d.path = RootIndex
    <3> HIDE DEF d, R
    <3>1. CASE R = {}
      <4>1. Value(d.text, "okf_version") = "0.2"
        BY <2>1, <2>3, <2>5, <3>1 DEF OnTrack
      <4> QED
        BY <2>1, <2>2, <2>5, <3>1, <4>1 DEF MigratedDocument, CurrentRoot, d
    <3>2. CASE R # {}
      <4>1. PICK f \in R : Applied[i] = f
        BY <2>2, <3>2
      <4>2. f \in ToSet(files) /\ f.path = RootIndex
        BY <2>3, <2>5
      <4>3. f = [path |-> RootIndex, text |-> CurrentRoot(d.text)]
        BY <2>1, <2>5, <4>2, RootRendered
      <4> QED
        BY <2>5, <4>1, <4>3 DEF MigratedDocument, d
    <3> QED
      BY <3>1, <3>2
  <2>6. CASE ~IsConcept(d) /\ d.path # RootIndex
    <3>1. ASSUME NEW f \in R
          PROVE  FALSE
      <4>1. f \in ToSet(files) /\ f.path = d.path
        BY <2>3
      <4>2. ~RenderedRoot(f)
        <5>1. RenderedRoot(f) => f.path = RootIndex
          BY DEF RenderedRoot
        <5> QED
          BY <2>6, <4>1, <5>1
      <4>3. PICK e \in ToSet(documents) : IsConcept(e) /\ f.path = e.path
        BY <1>1, <4>1, <4>2 DEF Planned, RenderedConcept
      <4> QED
        BY <2>6, <4>1, <4>3 DEF IsConcept
    <3>2. Applied[i] = d
      BY <2>2, <3>1
    <3> QED
      BY <2>6, <3>2 DEF MigratedDocument
  <2> QED
    BY <2>4, <2>5, <2>6
<1>3. Applied = [i \in DOMAIN documents |-> Applied[i]]
  BY DEF Applied
<1>4. WholePlan(documents, allow) = [i \in DOMAIN documents |-> MigratedDocument(documents[i], allow)]
  BY DEF WholePlan
<1> QED
  BY <1>2, <1>3, <1>4
-------------------------------------------------------------------------------
(* The steps of the two runs.                                              *)

LEMMA RunStarts == MigrationInit => RunInvariant
<1> SUFFICES ASSUME MigrationInit PROVE RunInvariant
  OBVIOUS
<1>1. PlanInvariant
  BY PlanStarts
<1>2. at = "start" /\ allow = TRUE /\ round = 1
  BY DEF MigrationInit
<1> QED
  BY <1>1, <1>2 DEF RunInvariant, OnTrack, LeftOut, SecondRound

(* What depends on the documents and the actor only.                       *)
LEMMA SameDocuments ==
  ASSUME UNCHANGED <<documents, actor>>
  PROVE  /\ Migratable' <=> Migratable
         /\ SettledDocuments' <=> SettledDocuments
         /\ WholePlan(documents, TRUE)' = WholePlan(documents, TRUE)
         /\ BundleParses(WholePlan(documents, TRUE))' <=> BundleParses(WholePlan(documents, TRUE))
<1>1. WholePlan(documents, TRUE)' = WholePlan(documents, TRUE)
  OBVIOUS
<1>2. BundleParses(WholePlan(documents, TRUE))' <=> BundleParses(WholePlan(documents, TRUE))
  OBVIOUS
<1>3. SettledDocuments' <=> SettledDocuments
  BY <1>2 DEF SettledDocuments
<1>4. BundleParses(documents)' <=> BundleParses(documents)
  OBVIOUS
<1>5. Migratable' <=> Migratable
  BY <1>4 DEF Migratable
<1> QED
  BY <1>1, <1>2, <1>3, <1>5

(* An error in the first run.                                              *)
LEMMA FailRun == RunInvariant /\ Fail /\ round # 2 => OnTrack' /\ LeftOut' /\ SecondRound'
<1> SUFFICES ASSUME RunInvariant, Fail, round # 2 PROVE OnTrack' /\ LeftOut' /\ SecondRound'
  OBVIOUS
<1>1. at' = "error" /\ UNCHANGED <<actor, documents, allow, round>>
  BY DEF Fail
<1>2. OnTrack'
  BY <1>1 DEF OnTrack
<1>3. LeftOut'
  BY <1>1, SameDocuments DEF RunInvariant, LeftOut
<1>4. SecondRound'
  BY <1>1 DEF RunInvariant, SecondRound
<1> QED
  BY <1>2, <1>3, <1>4

(* A step within a run that does not fail.                                 *)
LEMMA RunGoesOn ==
  ASSUME RunInvariant, UNCHANGED <<actor, documents, round>>, at' # "error",
         allow' = allow \/ (allow' = FALSE /\ ~BundleParses(WholePlan(documents, TRUE)))
  PROVE  LeftOut' /\ SecondRound'
<1>1. LeftOut'
  BY SameDocuments DEF RunInvariant, LeftOut
<1>2. SecondRound'
  BY SameDocuments DEF RunInvariant, SecondRound
<1> QED
  BY <1>1, <1>2

(* Every step of a pass keeps it.                                          *)
LEMMA StartPassRun == RunInvariant /\ StartPass => OnTrack' /\ LeftOut' /\ SecondRound'
<1> SUFFICES ASSUME RunInvariant, StartPass PROVE OnTrack' /\ LeftOut' /\ SecondRound'
  OBVIOUS
<1> DEFINE text == TextAt(RootIndex)
           range == SimpleFieldRange(text, "okf_version")
           current == Value(text, "okf_version") = "0.2"
           file == [path |-> RootIndex, text |-> ApplyEdits(text, {VersionEdit(range.line)})]
           C == {d \in ToSet(documents) : IsConcept(d)}
<1>1. Legible(documents)
  BY DEF RunInvariant, PlanInvariant, Planned
<1>2. Migratable => \A d \in ToSet(documents) : d.path = RootIndex => text = d.text
  BY <1>1, RootParses
<1>3. CASE Fail
  <2>1. ~Migratable \/ (~current /\ range.is # "range")
    <3>1. at = "start" /\ at' = "error"
      BY <1>3 DEF StartPass, Fail
    <3> QED
      BY <3>1 DEF StartPass
  <2>2. round # 2
    <3> SUFFICES ASSUME round = 2 PROVE FALSE
      OBVIOUS
    <3>1. Migratable /\ \A d \in ToSet(documents) : d.path = RootIndex => Value(d.text, "okf_version") = "0.2"
      BY DEF RunInvariant, SecondRound, SettledDocuments
    <3>2. PICK d \in ToSet(documents) : d.path = RootIndex
      BY <3>1 DEF Migratable
    <3>3. current
      BY <1>2, <3>1, <3>2
    <3> QED
      BY <2>1, <3>1, <3>3
  <2> QED
    BY <1>3, <2>2, FailRun
<1>4. CASE ~Fail
  <2>1. /\ Migratable
        /\ at' = "concepts"
        /\ files' = IF current THEN <<>> ELSE <<file>>
        /\ todo' = Only(documents, C)
        /\ UNCHANGED <<actor, documents, allow, round>>
    BY <1>4 DEF StartPass
  <2>2. ToSet(todo') = C
    <3>1. documents \in Seq(ToSet(documents))
      BY <1>1 DEF Legible
    <3>2. ToSet(documents) \cap C = C
      OBVIOUS
    <3> HIDE DEF C
    <3> QED
      BY <2>1, <3>1, <3>2, OnlyType
  <2>3. /\ current => ToSet(files') = {}
        /\ ~current => ToSet(files') = {file}
    <3> HIDE DEF file, current
    <3>1. ToSet(<<>>) = {}
      BY DEF ToSet
    <3>2. DOMAIN <<file>> = {1} /\ <<file>>[1] = file
      OBVIOUS
    <3>3. ToSet(<<file>>) = {file}
      BY <3>2 DEF ToSet
    <3> QED
      BY <2>1, <3>1, <3>3
  <2>4. file.path = RootIndex
    OBVIOUS
  <2>5. LeftOut' /\ SecondRound'
    BY <2>1, RunGoesOn
  <2>6. Migratable'
    BY <2>1, SameDocuments
  <2>7. ASSUME NEW d \in ToSet(documents), d.path = RootIndex
        PROVE  Value(d.text, "okf_version") = "0.2" <=> ~\E f \in ToSet(files') : f.path = RootIndex
    <3>1. text = d.text
      BY <1>2, <2>1, <2>7
    <3>2. current <=> Value(d.text, "okf_version") = "0.2"
      BY <3>1
    <3> HIDE DEF current, file
    <3> QED
      BY <2>3, <2>4, <3>2
  <2>8. ASSUME NEW f \in ToSet(files'), NEW d \in ToSet(documents), IsConcept(d), f.path = d.path
        PROVE  FALSE
    <3>1. f.path = RootIndex
      <4> HIDE DEF file, current
      <4> QED
        BY <2>3, <2>4
    <3> QED
      BY <2>8, <3>1, ReservedAssumption DEF IsConcept
  <2>9. \A d \in ToSet(documents) : IsConcept(d) => d \in ToSet(todo')
    BY <2>2
  <2> HIDE DEF file, current, C
  <2>10. OnTrack'
    BY <2>1, <2>6, <2>7, <2>8, <2>9 DEF OnTrack
  <2> QED
    BY <2>5, <2>10
<1> QED
  BY <1>3, <1>4

LEMMA MigrateConceptRun == RunInvariant /\ MigrateConcept => OnTrack' /\ LeftOut' /\ SecondRound'
<1> SUFFICES ASSUME RunInvariant, MigrateConcept PROVE OnTrack' /\ LeftOut' /\ SecondRound'
  OBVIOUS
<1> DEFINE d == Head(todo)
           edits == ConceptEdits(d.text, allow)
           file == [path |-> d.path, text |-> ApplyEdits(d.text, edits)]
<1>1. at = "concepts" /\ todo # <<>> /\ PlanInvariant /\ OnTrack
  BY DEF MigrateConcept, RunInvariant
<1>2. /\ Addressed /\ files \in Seq(ToSet(files)) /\ todo \in Seq(ToSet(todo))
      /\ \A c \in ToSet(todo) : c \in ToSet(documents) /\ IsConcept(c)
  BY <1>1 DEF PlanInvariant, Stages, Planned, Progress
<1>3. /\ d \in ToSet(todo) /\ \A c \in ToSet(todo) : c = d \/ c \in ToSet(Tail(todo))
  BY <1>1, <1>2, TailSet
<1>4. d \in ToSet(documents) /\ IsConcept(d) /\ d.path # RootIndex
  <2>1. d \in ToSet(documents) /\ IsConcept(d)
    BY <1>2, <1>3
  <2> QED
    BY <2>1, ReservedAssumption DEF IsConcept
<1>5. CASE TimestampRange(d.text).is = "unavailable"
  <2>1. Fail
    BY <1>5 DEF MigrateConcept
  <2>2. round # 2
    BY <1>4, <1>5 DEF RunInvariant, SecondRound, SettledDocuments
  <2> QED
    BY <2>1, <2>2, FailRun
<1>6. CASE TimestampRange(d.text).is # "unavailable"
  <2>1. /\ files' = IF edits = {} THEN files ELSE Append(files, file)
        /\ todo' = Tail(todo)
        /\ UNCHANGED <<at, actor, documents, allow, round>>
    BY <1>6 DEF MigrateConcept
  <2>2. LeftOut' /\ SecondRound'
    BY <1>1, <2>1, RunGoesOn
  <2>3. Migratable'
    BY <1>1, <2>1, SameDocuments DEF OnTrack
  <2> HIDE DEF d, edits
  <2>4. file.path = d.path
    OBVIOUS
  <2> HIDE DEF file
  <2>5. /\ edits = {} => ToSet(files') = ToSet(files)
        /\ edits # {} => ToSet(files') = ToSet(files) \cup {file}
    <3> DEFINE X == ToSet(files) \cup {file}
    <3>1. files \in Seq(X) /\ file \in X
      BY <1>2, SeqMonotonic
    <3>2. ToSet(Append(files, file)) = ToSet(files) \cup {file}
      <4> HIDE DEF X
      <4> QED
        BY <3>1, AppendedSet
    <3> QED
      BY <2>1, <3>2
  <2>6. (\E f \in ToSet(files') : f.path = RootIndex) <=> \E f \in ToSet(files) : f.path = RootIndex
    BY <1>4, <2>4, <2>5
  <2>7. ASSUME NEW c \in ToSet(documents), IsConcept(c)
        PROVE  c \in ToSet(todo') \/ TimestampRange(c.text).is # "unavailable"
    <3>1. c \in ToSet(todo) \/ TimestampRange(c.text).is # "unavailable"
      BY <1>1, <2>7 DEF OnTrack
    <3>2. c \in ToSet(todo) => c = d \/ c \in ToSet(todo')
      BY <1>3, <2>1
    <3> QED
      BY <1>6, <3>1, <3>2
  <2>8. ASSUME NEW f \in ToSet(files'), NEW c \in ToSet(documents), IsConcept(c), f.path = c.path
        PROVE  ConceptEdits(c.text, allow) # {}
    <3>1. CASE f \in ToSet(files)
      BY <1>1, <2>8, <3>1 DEF OnTrack
    <3>2. CASE f \notin ToSet(files)
      <4>1. edits # {} /\ f = file
        BY <2>5, <3>2
      <4>2. c = d
        BY <1>2, <1>4, <2>4, <2>8, <4>1 DEF Addressed
      <4> QED
        BY <4>1, <4>2 DEF edits
    <3> QED
      BY <3>1, <3>2
  <2>9. OnTrack'
    <3>1. \A c \in ToSet(documents) :
            c.path = RootIndex => (Value(c.text, "okf_version") = "0.2" <=> ~\E f \in ToSet(files) : f.path = RootIndex)
      BY <1>1 DEF OnTrack
    <3>2. \A c \in ToSet(documents) :
            c.path = RootIndex => (Value(c.text, "okf_version") = "0.2" <=> ~\E f \in ToSet(files') : f.path = RootIndex)
      BY <2>6, <3>1
    <3> QED
      BY <2>1, <2>3, <3>2, <2>7, <2>8 DEF OnTrack
  <2> QED
    BY <2>2, <2>9
<1> QED
  BY <1>5, <1>6

(* The citations of a settled concept are all that can still be written.   *)
LEMMA SettledEdits ==
  ASSUME SettledDocuments, NEW d \in ToSet(documents), IsConcept(d)
  PROVE  /\ ConceptEdits(d.text, FALSE) = {}
         /\ ConceptEdits(d.text, TRUE) = CitationEdits(d.text, TRUE)
<1>1. TimestampEdits(d.text) = {}
  BY DEF SettledDocuments
<1>2. CitationEdits(d.text, FALSE) = {}
  BY DEF CitationEdits
<1> QED
  BY <1>1, <1>2 DEF ConceptEdits

LEMMA CheckPlanRun == RunInvariant /\ CheckPlan => OnTrack' /\ LeftOut' /\ SecondRound'
<1> SUFFICES ASSUME RunInvariant, CheckPlan PROVE OnTrack' /\ LeftOut' /\ SecondRound'
  OBVIOUS
<1>1. /\ at = "concepts" /\ todo = <<>> /\ PlanInvariant /\ OnTrack /\ allow \in BOOLEAN
  BY DEF CheckPlan, RunInvariant, LeftOut
<1>2. Applied = WholePlan(documents, allow)
  BY <1>1, AppliedWhole
<1>3. Legible(documents)
  BY <1>1 DEF PlanInvariant, Planned
<1>4. CASE BundleParses(Applied)
  <2>1. at' = "planned" /\ files' = RootLast(files) /\ UNCHANGED <<actor, documents, allow, todo, round>>
    BY <1>4 DEF CheckPlan
  <2>2. ToSet(files') = ToSet(files)
    <3>1. files \in Seq(ToSet(files)) /\ \A i \in DOMAIN files : files[i].path = RootIndex => i = 1
      BY <1>1 DEF PlanInvariant, Planned, RootFirstThenLast
    <3> QED
      BY <2>1, <3>1, RootLastIs
  <2>3. LeftOut' /\ SecondRound'
    BY <2>1, RunGoesOn
  <2>4. Migratable'
    BY <1>1, <2>1, SameDocuments DEF OnTrack
  <2>5. OnTrack'
    BY <1>1, <2>1, <2>2, <2>4 DEF OnTrack
  <2> QED
    BY <2>3, <2>5
<1>5. CASE ~BundleParses(Applied) /\ allow /\ \E d \in ToSet(documents) : IsConcept(d) /\ CitationEdits(d.text, allow) # {}
  <2>1. at' = "start" /\ allow' = FALSE /\ UNCHANGED <<actor, documents, round>>
    BY <1>5 DEF CheckPlan
  <2>2. ~BundleParses(WholePlan(documents, TRUE))
    <3>1. allow = TRUE
      BY <1>1, <1>5
    <3> QED
      BY <1>2, <1>5, <3>1
  <2>3. LeftOut' /\ SecondRound'
    BY <2>1, <2>2, RunGoesOn
  <2>4. OnTrack'
    BY <2>1 DEF OnTrack
  <2> QED
    BY <2>3, <2>4
<1>6. CASE /\ Fail /\ ~BundleParses(Applied)
           /\ ~(allow /\ \E d \in ToSet(documents) : IsConcept(d) /\ CitationEdits(d.text, allow) # {})
  <2>1. round # 2
    <3> SUFFICES ASSUME round = 2 PROVE FALSE
      OBVIOUS
    <3>1. SettledDocuments /\ Migratable
      BY DEF RunInvariant, SecondRound
    <3>2. ASSUME NEW d \in ToSet(documents), IsConcept(d)
          PROVE  ConceptEdits(d.text, allow) = {}
      <4>1. CASE allow = TRUE
        <5>1. CitationEdits(d.text, TRUE) = {}
          BY <1>6, <3>2, <4>1
        <5> QED
          BY <3>1, <3>2, <4>1, <5>1, SettledEdits
      <4>2. CASE allow = FALSE
        BY <3>1, <3>2, <4>2, SettledEdits
      <4> QED
        BY <1>1, <4>1, <4>2
    <3>3. \A d \in ToSet(documents) : d.path = RootIndex => Value(d.text, "okf_version") = "0.2"
      BY <3>1 DEF SettledDocuments
    <3>4. WholePlan(documents, allow) = documents
      BY <1>3, <3>2, <3>3, WholePlanEmpty
    <3>5. BundleParses(documents)
      BY <3>1 DEF Migratable
    <3> QED
      BY <1>2, <1>6, <3>4, <3>5
  <2> QED
    BY <1>6, <2>1, FailRun
<1> QED
  BY <1>4, <1>5, <1>6 DEF CheckPlan

(* What the plan makes of the documents is where a second run can start.   *)
LEMMA MigrateAgainRun == RunInvariant /\ MigrateAgain => OnTrack' /\ LeftOut' /\ SecondRound'
<1> SUFFICES ASSUME RunInvariant, MigrateAgain PROVE OnTrack' /\ LeftOut' /\ SecondRound'
  OBVIOUS
<1> DEFINE N == Applied
<1>1. /\ at = "planned" /\ PlanInvariant /\ OnTrack /\ todo = <<>> /\ allow \in BOOLEAN
      /\ ~allow => ~BundleParses(WholePlan(documents, TRUE))
      /\ at' = "start" /\ round' = 2 /\ allow' = TRUE /\ documents' = N /\ actor' = actor
  BY DEF MigrateAgain, RunInvariant, PlanInvariant, Stages, LeftOut
<1>2. /\ Migratable /\ Legible(documents) /\ Addressed /\ BundleParses(N)
  BY <1>1 DEF OnTrack, PlanInvariant, Planned, Stages, RootFirstThenLast, VersionLast
<1>3. N = WholePlan(documents, allow) /\ DOMAIN N = DOMAIN documents
  BY <1>1, AppliedWhole DEF Applied
<1>4. ASSUME NEW i \in DOMAIN documents
      PROVE  RunTwice(documents[i], N[i], allow)
  <2> DEFINE d == documents[i]
  <2>1. d \in ToSet(documents)
    BY DEF ToSet
  <2>2. N[i] = MigratedDocument(d, allow)
    <3> HIDE DEF N
    <3> QED
      BY <1>3 DEF WholePlan
  <2>3. d = [path |-> d.path, text |-> d.text]
    BY <1>2, <2>1 DEF Legible
  <2>4. IsConcept(d) => IsText(d.text) /\ HasFrontmatter(d.text) /\ TimestampRange(d.text).is # "unavailable"
    <3>1. ToSet(<<>>) = {}
      BY DEF ToSet
    <3>2. IsConcept(d) => TimestampRange(d.text).is # "unavailable"
      BY <1>1, <2>1, <3>1 DEF OnTrack
    <3> QED
      BY <1>2, <2>1, <3>2 DEF Addressed
  <2>5. d.path = RootIndex /\ Value(d.text, "okf_version") # "0.2" =>
          IsText(d.text) /\ Parses(d.text) /\ SimpleFieldRange(d.text, "okf_version").is = "range"
    <3> SUFFICES ASSUME d.path = RootIndex, Value(d.text, "okf_version") # "0.2"
                 PROVE  IsText(d.text) /\ Parses(d.text) /\ SimpleFieldRange(d.text, "okf_version").is = "range"
      OBVIOUS
    <3>1. IsText(d.text) /\ Parses(d.text)
      BY <1>2, <2>1, RootParses
    <3>2. PICK f \in ToSet(files) : f.path = RootIndex
      BY <1>1, <2>1 DEF OnTrack
    <3>3. SimpleFieldRange(d.text, "okf_version").is = "range"
      BY <1>1, <2>1, <3>2, RootRendered
    <3> QED
      BY <3>1, <3>3
  <2> HIDE DEF N, d
  <2>6. allow \in BOOLEAN
    BY <1>1
  <2>7. RunTwice(d, MigratedDocument(d, allow), allow)
    BY <2>3, <2>4, <2>5, <2>6, MigratedTwice
  <2> QED
    BY <2>2, <2>7 DEF d
<1> HIDE DEF N
<1>5. \A d \in ToSet(N) : \E i \in DOMAIN documents : d = N[i]
  BY <1>3 DEF ToSet
<1>6. Legible(N)
  BY <1>1, AppliedLegible DEF N
<1>7. Migratable'
  <2>1. actor' \in ValidActors
    BY <1>1, <1>2 DEF Migratable
  <2>2. \A d \in ToSet(N) : d.text # Unreadable
    BY <1>2 DEF BundleParses, Parses
  <2>3. \A i, j \in DOMAIN N : i # j => N[i].path # N[j].path
    <3>1. \A i, j \in DOMAIN documents : i # j => documents[i].path # documents[j].path
      BY <1>2 DEF Migratable
    <3>2. \A i \in DOMAIN documents : N[i].path = documents[i].path
      BY <1>4 DEF RunTwice
    <3> QED
      BY <1>3, <3>1, <3>2
  <2>4. \E d \in ToSet(N) :
          d.path = RootIndex /\ HasFrontmatter(d.text) /\ Value(d.text, "okf_version") \in {"0.1", "0.2"}
    <3>1. PICK d \in ToSet(documents) : d.path = RootIndex /\ HasFrontmatter(d.text)
      BY <1>2 DEF Migratable
    <3>2. PICK i \in DOMAIN documents : d = documents[i]
      BY DEF ToSet
    <3>3. N[i].path = RootIndex /\ HasFrontmatter(N[i].text) /\ Value(N[i].text, "okf_version") = "0.2"
      BY <1>4, <3>1, <3>2 DEF RunTwice
    <3>4. N[i] \in ToSet(N)
      BY <1>3 DEF ToSet
    <3> QED
      BY <3>3, <3>4
  <2>5. BundleParses(documents)'
    BY <1>1, <1>2
  <2> QED
    BY <1>1, <2>1, <2>2, <2>3, <2>4, <2>5 DEF Migratable
<1>8. SettledDocuments'
  <2>1. \A d \in ToSet(N) : d.path = RootIndex => Value(d.text, "okf_version") = "0.2"
    BY <1>4, <1>5 DEF RunTwice
  <2>2. ASSUME NEW d \in ToSet(N), IsConcept(d)
        PROVE  /\ TimestampEdits(d.text) = {} /\ TimestampRange(d.text).is # "unavailable"
               /\ allow => CitationEdits(d.text, TRUE) = {}
    <3>1. PICK i \in DOMAIN documents : d = N[i]
      BY <1>5
    <3>2. IsConcept(documents[i])
      BY <1>4, <2>2, <3>1 DEF IsConcept, RunTwice
    <3> QED
      BY <1>4, <3>1, <3>2 DEF RunTwice
  <2>3. ~allow => ~BundleParses(WholePlan(N, TRUE))
    <3> SUFFICES ASSUME ~allow PROVE ~BundleParses(WholePlan(N, TRUE))
      OBVIOUS
    <3>1. \A i \in DOMAIN documents : MigratedDocument(N[i], TRUE) = MigratedDocument(documents[i], TRUE)
      BY <1>4 DEF RunTwice
    <3>2. WholePlan(N, TRUE) = WholePlan(documents, TRUE)
      BY <1>3, <3>1 DEF WholePlan
    <3> QED
      BY <1>1, <3>2
  <2>4. \/ \A d \in ToSet(N) : IsConcept(d) => CitationEdits(d.text, TRUE) = {}
        \/ ~BundleParses(WholePlan(N, TRUE))
    BY <2>2, <2>3
  <2>5. BundleParses(WholePlan(documents, TRUE))' <=> BundleParses(WholePlan(N, TRUE))
    BY <1>1
  <2> QED
    BY <1>1, <2>1, <2>2, <2>4, <2>5 DEF SettledDocuments
<1> QED
  BY <1>1, <1>7, <1>8 DEF OnTrack, LeftOut, SecondRound

LEMMA RunStutters == RunInvariant /\ UNCHANGED migrationVars => OnTrack' /\ LeftOut' /\ SecondRound'
<1> SUFFICES ASSUME RunInvariant, UNCHANGED migrationVars PROVE OnTrack' /\ LeftOut' /\ SecondRound'
  OBVIOUS
<1>1. UNCHANGED <<at, actor, documents, allow, todo, files, results, round>>
  BY DEF migrationVars
<1>2. OnTrack'
  BY <1>1, SameDocuments DEF RunInvariant, OnTrack
<1>3. LeftOut' /\ SecondRound'
  BY <1>1, SameDocuments DEF RunInvariant, LeftOut, SecondRound
<1> QED
  BY <1>2, <1>3

(* Nothing is rendered by a second run that comes to an end.               *)
LEMMA RunInvariantEmpty == RunInvariant => SecondRunEmpty
<1> SUFFICES ASSUME RunInvariant, round = 2, at = "planned", files # <<>> PROVE FALSE
  BY DEF SecondRunEmpty, RunInvariant, SecondRound
<1>1. /\ PlanInvariant /\ OnTrack /\ SettledDocuments /\ allow \in BOOLEAN
      /\ todo = <<>> /\ Addressed /\ BundleParses(Applied) /\ files \in Seq(ToSet(files))
  BY DEF RunInvariant, PlanInvariant, Stages, Planned, RootFirstThenLast, VersionLast, LeftOut, SecondRound
<1>2. PICK f \in ToSet(files) : RenderedRoot(f) \/ RenderedConcept(f)
  <2>1. Head(files) \in ToSet(files)
    BY <1>1, TailSet
  <2> QED
    BY <1>1, <2>1 DEF PlanInvariant, Planned
<1>3. CASE RenderedRoot(f)
  <2>1. PICK d \in ToSet(documents) : d.path = RootIndex /\ f.path = RootIndex
    BY <1>3 DEF RenderedRoot
  <2>2. Value(d.text, "okf_version") # "0.2"
    BY <1>1, <2>1, RootRendered
  <2> QED
    BY <1>1, <2>1, <2>2 DEF SettledDocuments
<1>4. CASE RenderedConcept(f)
  <2>1. PICK d \in ToSet(documents) : IsConcept(d) /\ f.path = d.path
    BY <1>4 DEF RenderedConcept
  <2>2. ConceptEdits(d.text, allow) # {}
    BY <1>1, <2>1 DEF OnTrack
  <2>3. allow = TRUE /\ CitationEdits(d.text, TRUE) # {}
    BY <1>1, <2>1, <2>2, SettledEdits
  <2>4. ~BundleParses(WholePlan(documents, TRUE))
    BY <1>1, <2>1, <2>3 DEF SettledDocuments
  <2>5. Applied = WholePlan(documents, TRUE)
    BY <1>1, <2>3, AppliedWhole
  <2> QED
    BY <1>1, <2>4, <2>5
<1> QED
  BY <1>2, <1>3, <1>4

(* The invariant of both runs is inductive.                                *)
THEOREM RunInvariantHolds == MigrationSpec => []RunInvariant
<1>1. MigrationInit => RunInvariant
  BY RunStarts
<1>2. RunInvariant /\ [MigrationNext]_migrationVars => RunInvariant'
  <2> SUFFICES ASSUME RunInvariant, [MigrationNext]_migrationVars PROVE RunInvariant'
    OBVIOUS
  <2>1. PlanInvariant'
    BY StartPassPlan, MigrateConceptPlan, CheckPlanPlan, MigrateAgainPlan, PlanStutters DEF MigrationNext, RunInvariant
  <2>2. OnTrack' /\ LeftOut' /\ SecondRound'
    BY StartPassRun, MigrateConceptRun, CheckPlanRun, MigrateAgainRun, RunStutters DEF MigrationNext
  <2> QED
    BY <2>1, <2>2 DEF RunInvariant
<1> QED
  BY <1>1, <1>2, PTL DEF MigrationSpec

(* For any bundles, dates and limits: a second run over a plan that was    *)
(* applied does not fail and renders nothing (FR-079), also where the      *)
(* first one left the citations out because the bundle did not parse with  *)
(* them.                                                                   *)
THEOREM SecondRunsAreEmpty == MigrationSpec => []SecondRunEmpty
BY RunInvariantHolds, RunInvariantEmpty, PTL
================================================================================
