------------------------------ MODULE ManagedText ------------------------------
(***************************************************************************)
(* The text operations of the okf command on files that exist already      *)
(* (crates/okf-cli/src/workspace.rs, merge_region and insert_root_version) *)
(* and the indexes that it generates (crates/okf-core/src/templates.rs).   *)
(*                                                                         *)
(* A document is a record of front, its frontmatter, and body, a sequence  *)
(* of blocks.  Blocks are <<"start">> and <<"end">>, the markers of the    *)
(* managed region, <<"text", t>> and <<"entries", s>>, the lines of an     *)
(* index.  Of the frontmatter the version is told apart: "absent" is no    *)
(* frontmatter, "unversioned" one without okf_version, "tangled" one to    *)
(* which no version can be added without changing other fields, "odd" one  *)
(* whose version is no string, "broken" one that does not parse, "huge" a  *)
(* document over the size limit.  Paths are sequences of names.            *)
(***************************************************************************)
EXTENDS Integers, FiniteSets, SequencesExt

CONSTANTS
  Supported,    \* the versions a write may meet: 0.1, 0.2 and later minors
  Unsupported,  \* other version strings
  IndexName, LogName,
  Titles        \* the title of each path that has one: blocks in its place

ASSUME VersionsAssumption == "0.2" \in Supported /\ Supported \cap Unsupported = {}

Malformed == [front |-> "malformed", body |-> <<>>]

Start == <<"start">>

End == <<"end">>

(* A document, as a record of its two parts.                               *)
IsText(document) ==
  document = [front |-> document.front, body |-> document.body] /\ document.body \in Seq(ToSet(document.body))

Positions(blocks, mark) == {i \in DOMAIN blocks : blocks[i] = mark}

FirstOf(blocks, mark) == CHOOSE i \in Positions(blocks, mark) : \A j \in Positions(blocks, mark) : i <= j

(* One region, and nothing else that looks like a marker.                  *)
MarkedOnce(document) ==
  /\ IsText(document)
  /\ \E s, e \in DOMAIN document.body :
       s < e /\ Positions(document.body, Start) = {s} /\ Positions(document.body, End) = {e}

(* From the first start marker to the first end marker.                    *)
Region(rendered) ==
  SubSeq(rendered.body, FirstOf(rendered.body, Start), FirstOf(rendered.body, End))

(* Mutant of MergeRegion: what follows the region is not carried over.     *)
MergeAndCut(existing, rendered) ==
  LET body == existing.body
      from == IF Positions(body, Start) = {} THEN Len(body) + 1 ELSE FirstOf(body, Start)
  IN [existing EXCEPT !.body = SubSeq(body, 1, from - 1) \o Region(rendered)]

(* The region replaces the one that exists, or is appended; markers that   *)
(* are doubled, alone or in the wrong order are refused.                   *)
MergeRegion(existing, rendered) ==
  LET body == existing.body
      starts == Positions(body, Start)
      ends == Positions(body, End)
  IN IF starts = {} /\ ends = {} THEN [existing EXCEPT !.body = @ \o Region(rendered)]
     ELSE IF Cardinality(starts) # 1 \/ Cardinality(ends) # 1 \/ FirstOf(body, Start) >= FirstOf(body, End)
       THEN Malformed
     ELSE [existing EXCEPT !.body = SubSeq(body, 1, FirstOf(body, Start) - 1) \o Region(rendered)
                                      \o SubSeq(body, FirstOf(body, End) + 1, Len(body))]

(* The frontmatter of the result is parsed again and must differ from the  *)
(* old one by the version alone; otherwise nothing is proposed.            *)
InsertRootVersion(existing) ==
  IF existing.front \in {"absent", "unversioned"} THEN [existing EXCEPT !.front = "0.2"] ELSE Malformed

-----------------------------------------------------------------------------
(* Generated indexes.                                                      *)

IsIndex(path) == Last(path) = IndexName

IsConcept(path) == Last(path) \notin {IndexName, LogName}

HasPrefix(path, directory) == Len(path) > Len(directory) /\ SubSeq(path, 1, Len(directory)) = directory

(* The files of a directory, and the directories in it that hold some.     *)
IndexEntries(directory, paths) ==
  {[name |-> p[Len(directory) + 1], file |-> Len(p) = Len(directory) + 1] :
     p \in {q \in paths : HasPrefix(q, directory)}}

(* Titles are escaped as link labels: a marker in one stays a marker.      *)
TitleMarks(directory, paths) ==
  FlattenSeq(SetToSeq({Titles[p] : p \in {q \in paths \cap DOMAIN Titles : Front(q) = directory}}))

RenderIndex(directory, paths) ==
  [front |-> IF directory = <<>> THEN "0.2" ELSE "absent",
   body |-> <<Start, <<"entries", IndexEntries(directory, paths)>>>> \o TitleMarks(directory, paths) \o <<End>>]

(* A rendered index per directory that holds concepts, and the root.       *)
IndexFiles(concepts, existing, mode) ==
  {[path |-> Append(d, IndexName), content |-> RenderIndex(d, concepts)] :
     d \in {e \in {<<>>} \cup {Front(p) : p \in concepts} :
              mode = "all" \/ Append(e, IndexName) \notin existing}}

(* What a document holds outside its managed region.                       *)
Outside(document) ==
  IF Positions(document.body, Start) = {} THEN document.body
  ELSE SubSeq(document.body, 1, FirstOf(document.body, Start) - 1)
         \o SubSeq(document.body, FirstOf(document.body, End) + 1, Len(document.body))
=============================================================================
