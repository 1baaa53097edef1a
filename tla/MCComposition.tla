--------------------------- MODULE MCComposition ---------------------------
(***************************************************************************)
(* Compositions, and what else the server computes on a snapshot of the    *)
(* registry, in one run: graph queries, the audit of references and CSV    *)
(* files; and what the panel computes on the texts of these files.  A      *)
(* behaviour is of one part, the others rest in an initial state.          *)
(* Compositions have three lights, so that cycles of length one to three   *)
(* can close, and one device.                                              *)
(***************************************************************************)
EXTENDS Composition, Integers, FiniteSets, TLC

CONSTANTS
  \* Query
  Nodes, Types, Filters, Depths, MaxRelations,
  \* ReferenceAudit
  Keys, AssetOf(_), Hardware, Names, Automations, Scenes, Dashboards, MaxChanges,
  \* CsvBatch
  Ids, Codes, Areas, Current, MaxRows,
  f1,  \* one of Ids
  \* CsvText
  Width, MaxLines, MaxChars

VARIABLES
  part,
  \* Query
  relations, query, visited, queue, hits, answer,
  \* ReferenceAudit
  auditBound, nameOf, lights, uses, sources, audit, changes, steady,
  \* CsvBatch
  fileAssets, used, rows, batch,
  \* CsvText
  table

queryVars == <<relations, query, visited, queue, hits, answer>>
auditVars == <<auditBound, nameOf, lights, uses, sources, audit, changes, steady>>
fileVars == <<fileAssets, used, rows, batch>>
PartVars == <<part, vars, queryVars, auditVars, fileVars, table>>

Graph == INSTANCE Query WITH Assets <- Nodes, None <- NoName

Audit == INSTANCE ReferenceAudit WITH None <- NoName, bound <- auditBound

Files == INSTANCE CsvBatch WITH None <- NoName, assets <- fileAssets

Text == INSTANCE CsvText WITH MaxRows <- MaxLines

ASSUME PartsAssumption ==
  /\ Graph!QueryAssumption /\ Audit!AuditAssumption /\ Files!BatchAssumption
  /\ Text!TextAssumption

Symmetry == Permutations(Light)

\* Each asset has one binding, and its key is named after it.
MCAssetOf(k) == k

-----------------------------------------------------------------------------
(***************************************************************************)
(* The parts: paths among four assets, or hits among three and types that  *)
(* are told apart; files with areas that may be gone, or with codes that   *)
(* move between two assets.                                                *)
(***************************************************************************)
Parts == {"composition", "paths", "hits", "audit", "areas", "codes", "text"}

Relations ==
  CASE part = "paths" -> SUBSET { r \in Graph!Relation : r.type = "t" }
    [] part = "hits"  -> { R \in SUBSET { r \in Graph!Relation : {r.source, r.target} \subseteq 1..3 } :
                             Cardinality(R) <= 3 }
    [] OTHER          -> {{}}

Queries ==
  CASE part = "paths" -> { q \in Graph!PathQuery : q.from = 2 /\ q.types = {} }
    [] part = "hits"  -> { q \in Graph!Traversal : q.from \in 1..3 }
                           \cup { q \in Graph!PathQuery : {q.from, q.to} \subseteq 1..3 }
    [] OTHER          -> { q \in Graph!Traversal : q.from = 1 /\ q.direction = "any" /\ q.types = {}
                                                     /\ q.depth = NoName }

Audited ==
  IF part = "audit"
  THEN "scene" \in sources /\ auditBound["a"] # NoName /\ nameOf["e"] # "n"
  ELSE /\ auditBound = [k \in Keys |-> NoName] /\ nameOf = [h \in Hardware |-> NoName]
       /\ lights = {} /\ uses = [c \in Audit!Consumers |-> NoName] /\ sources = {}

\* What an asset or a row of a file has.
InFile(id, content) ==
  IF part = "codes" THEN content.area = NoName
  ELSE id \in {f1, NoName} /\ content.code \in {"x", NoName}

PartInit ==
  /\ part \in Parts
  /\ Init
  /\ relations \in Relations /\ query \in Queries /\ Graph!Init
  /\ part # "audit" => Audited
  /\ Audit!Init /\ Audited
  /\ part \notin {"areas", "codes"} => fileAssets = <<>>
  /\ Files!Init /\ \A a \in DOMAIN fileAssets : InFile(a, fileAssets[a])
  /\ Text!Init

PartNext ==
  \/ /\ part = "composition" /\ StableNext
     /\ UNCHANGED <<part, queryVars, auditVars, fileVars, table>>
  \/ /\ part \in {"paths", "hits"} /\ Graph!Next
     /\ UNCHANGED <<part, vars, auditVars, fileVars, table>>
  \/ /\ part = "audit" /\ Audit!Next
     /\ UNCHANGED <<part, vars, queryVars, fileVars, table>>
  \/ /\ part \in {"areas", "codes"} /\ \E row \in Files!Rows : InFile(row.id, row) /\ Files!Turn(row)
     /\ UNCHANGED <<part, vars, queryVars, auditVars, table>>
  \/ /\ part = "text" /\ Text!Next
     /\ UNCHANGED <<part, vars, queryVars, auditVars, fileVars>>

PartSpec == PartInit /\ [][PartNext]_PartVars

\* Compositions alone, with entities that are renamed.
CycleSpec ==
  /\ PartInit /\ part = "composition"
  /\ [][RenamingNext /\ UNCHANGED <<part, queryVars, auditVars, fileVars, table>>]_PartVars

-----------------------------------------------------------------------------
\* The answers to graph queries and audits are what their definitions without search say: a
\* traversal reports exactly what can be reached, at its distance; the path that is found is
\* the first of the shortest ones (query.py); what an audit does not find it says it could not
\* read; no light is chosen for another that shares its hardware (reference_audit.py).
AnswersAreComplete ==
  /\ Graph!TypeOK /\ Graph!PathIsFirst /\ Graph!HitsAreDistances
  /\ Audit!TypeOK /\ Audit!GapsAreTold /\ Audit!NoChoiceBetweenLights

\* An accepted CSV file means the same in any order of its rows, leaves no two assets with one
\* code and takes no capability from under a binding; what was exported can be imported and
\* changes nothing, unless an area is gone; and every row that is at fault on its own is
\* reported (csv_inventory.py _apply_csv, export_inventory_csv).
FilesApplyAtOnce ==
  /\ Files!Parallel /\ Files!CodesStayUnique /\ Files!BindingsStay
  /\ Files!RoundTrip /\ Files!AllReported

\* However a program writes a table, the panel reads it, and what it writes itself it reads
\* back; a text cut off in a field is refused; an export of some areas has their rows, in order
\* (csv-inventory.js parseCsv, serializeCsv, scopeInventoryCsv).
TextsReadBack == Text!ReadBack /\ Text!WrittenBack /\ Text!CutOff /\ Text!ScopedRows
=============================================================================
