------------------------------ MODULE CsvBatch ------------------------------
(***************************************************************************)
(* What a CSV file means (csv_inventory.py _apply_csv): its rows are       *)
(* applied one after the other to a copy of the registry, each creating or *)
(* updating an asset, and the file is accepted when none of them is at     *)
(* fault.  Faults do not stop the rows that follow.  A step here is a turn *)
(* of the loop: the file is what the rows so far are.                      *)
(*                                                                         *)
(* Of an asset the code, the area and one capability are kept; a row also  *)
(* has the id of the asset it updates, or none to create one.  The name of *)
(* an area, which stands in for its id, and malformed rows are left out.   *)
(***************************************************************************)
EXTENDS Integers, Sequences, FiniteSets

CONSTANTS
  Ids,            \* of assets
  Codes,
  Areas,
  Current,        \* the areas that Home Assistant has
  None,
  MaxRows         \* bound: rows of a file

BatchAssumption ==
  /\ None \notin Ids \cup Codes \cup Areas \cup Nat /\ Ids \cap Nat = {}
  /\ Current \subseteq Areas

VARIABLES
  assets, used,   \* the registry; the assets in used have a binding of the capability
  rows,           \* of the file
  batch           \* what they have come to

vars == <<assets, used, rows, batch>>

Contents == [code : Codes \cup {None}, area : Areas \cup {None}, capability : BOOLEAN]

Rows == [id : Ids \cup {None}, code : Codes \cup {None}, area : Areas \cup {None},
         capability : BOOLEAN]

Content(row) == [code |-> row.code, area |-> row.area, capability |-> row.capability]

-----------------------------------------------------------------------------
(***************************************************************************)
(* One row.  A batch b has the staged assets, by id, those created by the  *)
(* number of their row; the ids and codes seen; and the rows at fault.     *)
(***************************************************************************)

Batch == [assets |-> assets, ids |-> {}, codes |-> {}, faults |-> {}]

Fault(b, n) == [b EXCEPT !.faults = @ \cup {n}]

HasCode(as, id, code) ==
  code # None /\ \E a \in DOMAIN as \ {id} : as[a].code = code

Updatable(b, row) ==
  /\ row.id \in DOMAIN b.assets
  /\ ~HasCode(b.assets, row.id, row.code)
  /\ row.id \in used => row.capability

Creatable(b, row) == ~HasCode(b.assets, None, row.code)

\* Mutant: a column that is empty leaves the asset as it is.
KeepsCode(b, row, id) ==
  [a \in DOMAIN b.assets \cup {id} |->
     IF a # id THEN b.assets[a]
     ELSE IF id \in DOMAIN b.assets /\ row.code = None
       THEN [Content(row) EXCEPT !.code = b.assets[id].code] ELSE Content(row)]

Staged(b, row, id) ==
  [a \in DOMAIN b.assets \cup {id} |-> IF a = id THEN Content(row) ELSE b.assets[a]]

Seen(b, row) ==
  [b EXCEPT !.ids = @ \cup {row.id}, !.codes = @ \cup {row.code}]

ApplyRow(b, row, n) ==
  LET seen == Seen(b, row) IN
    IF row.id # None /\ row.id \in b.ids THEN Fault(b, n)
    ELSE IF row.code # None /\ row.code \in b.codes
      THEN Fault([b EXCEPT !.ids = @ \cup {row.id}], n)
    ELSE IF row.area # None /\ row.area \notin Current THEN Fault(seen, n)
    ELSE IF row.id # None
      THEN IF Updatable(b, row)
             THEN [seen EXCEPT !.assets = Staged(b, row, row.id)] ELSE Fault(seen, n)
    ELSE IF Creatable(b, row)
      THEN [seen EXCEPT !.assets = Staged(b, row, n)] ELSE Fault(seen, n)

-----------------------------------------------------------------------------
(***************************************************************************)
(* The files: every small one against every small registry.                *)
(***************************************************************************)

CodesDiffer(as) ==
  \A a, b \in DOMAIN as : a # b /\ as[a].code # None => as[a].code # as[b].code

\* An asset that is used has the capability that its binding is of.
Init ==
  /\ \E known \in SUBSET Ids : assets \in [known -> Contents]
  /\ CodesDiffer(assets)
  /\ used \in SUBSET {a \in DOMAIN assets : assets[a].capability}
  /\ rows = <<>> /\ batch = Batch

Turn(row) ==
  /\ Len(rows) < MaxRows
  /\ rows' = Append(rows, row)
  /\ batch' = ApplyRow(batch, row, Len(rows'))
  /\ UNCHANGED <<assets, used>>

Next == \E row \in Rows : Turn(row)

Spec == Init /\ [][Next]_vars

-----------------------------------------------------------------------------
Accepted == batch.faults = {}

\* A row as export_inventory_csv writes it.
Exported(row) == row.id \in DOMAIN assets /\ Content(row) = assets[row.id]

RowOf(a) == CHOOSE n \in DOMAIN rows : rows[n].id = a

Updated == {rows[n].id : n \in DOMAIN rows} \ {None}

Created == {n \in DOMAIN rows : rows[n].id = None}

(***************************************************************************)
(* Properties.                                                             *)
(***************************************************************************)

\* An accepted file means the same in any order of its rows: each asset named has the contents
\* of its row, each row without an id is an asset more, and nothing else changes
\* (csv_inventory.py _apply_csv).
Parallel ==
  Accepted =>
    batch.assets =
      [a \in DOMAIN assets \cup Created |->
         IF a \in Created THEN Content(rows[a])
         ELSE IF a \in Updated THEN Content(rows[RowOf(a)]) ELSE assets[a]]

\* After an accepted file no two assets have one code, however codes move between the rows and
\* the assets that are not in the file (csv_inventory.py _apply_csv).
CodesStayUnique == Accepted => CodesDiffer(batch.assets)

\* No accepted file takes a capability from under a binding (registry.py update_asset).
BindingsStay == Accepted => \A a \in used : batch.assets[a].capability

\* What was exported can be imported, in any order of its rows and in parts, and changes
\* nothing, unless an area is gone (csv_inventory.py export_inventory_csv).
RoundTrip ==
  /\ \A n \in DOMAIN rows : Exported(rows[n]) /\ rows[n].area \in Current \cup {None}
  /\ \A m, n \in DOMAIN rows : rows[m].id = rows[n].id => m = n
  => Accepted /\ batch.assets = assets

\* Every row that names an unknown asset or an area that is gone, or repeats the id of a row
\* before it, is reported, whatever else is wrong (csv_inventory.py _apply_csv).
AllReported ==
  \A n \in DOMAIN rows :
    \/ rows[n].id \notin DOMAIN assets \cup {None}
    \/ rows[n].area \notin Current \cup {None}
    \/ \E m \in 1..(n - 1) : rows[m].id # None /\ rows[m].id = rows[n].id
    => n \in batch.faults
=============================================================================
