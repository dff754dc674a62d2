-------------------------- MODULE MCCoreOperations --------------------------
(* The operations of okf-core that work on text, one asked of the library  *)
(* in each behaviour: a migration, a rendering, a header to parse, or the  *)
(* integers of a header to write in decimals.                              *)
EXTENDS MCMigration, MCTemplates, MCFrontmatter, MCRadixDecimal

VARIABLE operation

coreVars == <<operation, migrationVars, templatesVars, frontmatterVars, radixVars>>

NoMigration ==
  /\ at = "start" /\ round = 1 /\ actor = "ann" /\ documents = <<>> /\ allow = TRUE
  /\ todo = <<>> /\ files = <<>> /\ results = {}
NoRendering == request = [op |-> "none"] /\ rendered = Idle
NoHeader == source = PlainDocument(<<>>) /\ outcome = Unparsed

Init ==
  /\ RadixInit
  /\ \/ operation = "migrate" /\ MigrationInit /\ NoRendering /\ NoHeader
     \/ operation = "render" /\ TemplatesInit /\ NoMigration /\ NoHeader
     \/ operation = "parse" /\ FrontmatterInit /\ NoMigration /\ NoRendering
     \/ operation = "integers" /\ NoMigration /\ NoRendering /\ NoHeader

Asked(op) == operation = op /\ UNCHANGED operation
NotMigrating == UNCHANGED <<templatesVars, frontmatterVars, radixVars>>
NotRendering == UNCHANGED <<migrationVars, frontmatterVars, radixVars>>

Next ==
  \/ StartPass /\ Asked("migrate") /\ NotMigrating
  \/ MigrateConcept /\ Asked("migrate") /\ NotMigrating
  \/ CheckPlan /\ Asked("migrate") /\ NotMigrating
  \/ MigrateAgain /\ Asked("migrate") /\ NotMigrating
  \/ RenderConcept /\ Asked("render") /\ NotRendering
  \/ RenderNew /\ Asked("render") /\ NotRendering
  \/ RenderAgent /\ Asked("render") /\ NotRendering
  \/ RenderProviderAgent /\ Asked("render") /\ NotRendering
  \/ RenderIndexFiles /\ Asked("render") /\ NotRendering
  \/ ParseFrontmatter /\ Asked("parse") /\ UNCHANGED <<migrationVars, templatesVars, radixVars>>
  \/ /\ Asked("integers") /\ CanonicalSetInteger
     /\ UNCHANGED <<migrationVars, templatesVars, frontmatterVars>>

Spec == Init /\ [][Next]_coreVars
=============================================================================
