------------------------------- MODULE CsvText -------------------------------
(***************************************************************************)
(* The CSV texts of the panel (csv-inventory.js): how a text is read into  *)
(* rows, how rows are written, and how an export is cut down to the rows   *)
(* of an area.                                                             *)
(*                                                                         *)
(* A text is a sequence of characters, a table a sequence of rows of       *)
(* fields, a field a text.  Only the characters with a meaning in CSV are  *)
(* told apart; "x" stands for the others.  A behaviour fills in a table    *)
(* field by field; whenever the table is complete, a program may save it.  *)
(***************************************************************************)
EXTENDS Integers, Sequences, FiniteSets, SequencesExt

CONSTANTS
  Width,          \* of the tables; the inventory has eight columns, so more than one
  MaxRows,        \* bound: rows
  MaxChars        \* bound: characters in all fields

TextAssumption == Width \in Nat /\ Width > 1

VARIABLE table

Comma == ","
Quote == "quote"
LF == "LF"
CR == "CR"
Chars == {Comma, Quote, LF, CR, "x"}

-----------------------------------------------------------------------------
(***************************************************************************)
(* parseCsv: a reader p has the rows, the row and the field read so far,   *)
(* and the index it reads next.                                            *)
(***************************************************************************)

Reader == [rows |-> <<>>, row |-> <<>>, field |-> <<>>, quoted |-> FALSE, next |-> 1]

Follows(text, i, c) == i < Len(text) /\ text[i + 1] = c

Skip(p, i) == [p EXCEPT !.next = i + 2]

Read(p, c) == [p EXCEPT !.field = Append(@, c)]

EndField(p) == [p EXCEPT !.row = Append(@, p.field), !.field = <<>>]

EndRow(p) ==
  LET e == EndField(p) IN [e EXCEPT !.rows = Append(@, e.row), !.row = <<>>]

ReadQuoted(p, text, i) ==
  IF text[i] # Quote THEN Read(p, text[i])
  ELSE IF Follows(text, i, Quote) THEN Skip(Read(p, Quote), i)
  ELSE [p EXCEPT !.quoted = FALSE]

\* Mutant: a carriage return and a line feed end two rows.
ReadEveryEnd(p, text, i) ==
  CASE text[i] = Quote /\ p.field = <<>> -> [p EXCEPT !.quoted = TRUE]
    [] text[i] = Comma -> EndField(p)
    [] text[i] \in {LF, CR} -> EndRow(p)
    [] OTHER -> Read(p, text[i])

ReadPlain(p, text, i) ==
  CASE text[i] = Quote /\ p.field = <<>> -> [p EXCEPT !.quoted = TRUE]
    [] text[i] = Comma -> EndField(p)
    [] text[i] = LF -> EndRow(p)
    [] text[i] = CR -> EndRow(IF Follows(text, i, LF) THEN Skip(p, i) ELSE p)
    [] OTHER -> Read(p, text[i])

ReadAt(text, p, i) ==
  IF i < p.next THEN p
  ELSE IF p.quoted THEN ReadQuoted(p, text, i) ELSE ReadPlain(p, text, i)

LastRow(p) ==
  IF p.quoted THEN "unterminated"
  ELSE IF p.field # <<>> \/ p.row # <<>> THEN EndRow(p).rows ELSE p.rows

\* The reader after each number of characters.
Reading(text) ==
  LET read[n \in 0..Len(text)] == IF n = 0 THEN Reader ELSE ReadAt(text, read[n - 1], n)
  IN  read

parseCsv(text) == LastRow(Reading(text)[Len(text)])

-----------------------------------------------------------------------------
(***************************************************************************)
(* serializeCsv.                                                           *)
(***************************************************************************)

\* The concatenation of each number of parts, and of all.
Concatenations(parts) ==
  LET joined[n \in 0..Len(parts)] == IF n = 0 THEN <<>> ELSE joined[n - 1] \o parts[n]
  IN  joined

Concatenated(parts) == Concatenations(parts)[Len(parts)]

Joined(texts, separator) ==
  Concatenated([i \in 1..Len(texts) |-> IF i = 1 THEN texts[i] ELSE separator \o texts[i]])

Escaped(field) ==
  [i \in 1..Len(field) |-> IF field[i] = Quote THEN <<Quote, Quote>> ELSE <<field[i]>>]

Quoted(field) == <<Quote>> \o Concatenated(Escaped(field)) \o <<Quote>>

encodeField(field) ==
  IF \E i \in 1..Len(field) : field[i] \in {Quote, Comma, CR, LF} THEN Quoted(field) ELSE field

serializeCsv(rows) ==
  Joined([r \in 1..Len(rows) |->
            Joined([f \in 1..Len(rows[r]) |-> encodeField(rows[r][f])], <<Comma>>)], <<LF>>)
  \o <<LF>>

-----------------------------------------------------------------------------
(***************************************************************************)
(* scopeInventoryCsv, for the areas allowed and the column of the areas.   *)
(***************************************************************************)

\* The header and the rows of the areas.
InScope(rows, allowed, column) ==
  Concatenated([r \in 1..Len(rows) |->
                  IF r = 1 \/ rows[r][column] \in allowed THEN <<rows[r]>> ELSE <<>>])

scopeInventoryCsv(text, allowed, column) ==
  LET rows == parseCsv(text) IN
    IF rows = <<>> THEN text ELSE serializeCsv(InScope(rows, allowed, column))

-----------------------------------------------------------------------------
(***************************************************************************)
(* The tables.                                                             *)
(***************************************************************************)

Row == table[Len(table)]

Size == Len(Concatenated(Concatenated(table)))

Init == table = <<<<<<>>>>>>

Write(c) ==
  /\ Size < MaxChars
  /\ table' = [table EXCEPT ![Len(table)][Len(Row)] = Append(@, c)]

NextField ==
  /\ Len(Row) < Width
  /\ table' = [table EXCEPT ![Len(table)] = Append(@, <<>>)]

NextRow ==
  /\ Len(Row) = Width /\ Len(table) < MaxRows
  /\ table' = Append(table, <<<<>>>>)

Next == (\E c \in Chars : Write(c)) \/ NextField \/ NextRow

Spec == Init /\ [][Next]_table

-----------------------------------------------------------------------------
Complete == Len(Row) = Width

\* A file as any program may save it: every field quoted or only those that need it, a line
\* ended in one of three ways, the last of them perhaps not.
Styles == [all : BOOLEAN, eol : {<<LF>>, <<CR>>, <<CR, LF>>}, last : BOOLEAN]

SavedField(style, field) ==
  IF style.all \/ \E i \in 1..Len(field) : field[i] # "x" THEN Quoted(field) ELSE field

Saved(style) ==
  Joined([r \in 1..Len(table) |->
            Joined([f \in 1..Len(table[r]) |-> SavedField(style, table[r][f])], <<Comma>>)],
         style.eol)
  \o (IF style.last THEN style.eol ELSE <<>>)

TableAreas == {table[r][Width] : r \in 1..Len(table)}

(***************************************************************************)
(* Properties.                                                             *)
(***************************************************************************)

\* However a program quotes the fields and ends the lines of a table, the panel reads the table
\* back from the file (csv-inventory.js parseCsv).
ReadBack == Complete => \A s \in Styles : parseCsv(Saved(s)) = table

\* What the panel writes is read back as what was written (csv-inventory.js serializeCsv).
WrittenBack == Complete => parseCsv(serializeCsv(table)) = table

\* A file that was cut off in a quoted field, so that its quotes do not pair, is refused; any
\* other has the rows of the whole file but for its last row (csv-inventory.js parseCsv).
CutOff ==
  Complete =>
    LET text == serializeCsv(table)
        Odd(n) == Cardinality({i \in 1..n : text[i] = Quote}) % 2 = 1
    IN  \A n \in 1..Len(text) :
          LET rows == parseCsv(SubSeq(text, 1, n)) IN
            IF Odd(n) THEN rows = "unterminated"
            ELSE rows = <<>> \/ IsPrefix(Front(rows), table)

\* An export that is cut down to some areas has the header and, in their order, the rows of
\* these areas (csv-inventory.js scopeInventoryCsv).
ScopedRows ==
  Complete =>
    \A allowed \in SUBSET TableAreas :
      LET scoped == parseCsv(scopeInventoryCsv(serializeCsv(table), allowed, Width))
          inside == {r \in 2..Len(table) : table[r][Width] \in allowed}
      IN  /\ Len(scoped) = 1 + Cardinality(inside)
          /\ scoped[1] = table[1]
          /\ \A r \in inside :
               scoped[1 + Cardinality({q \in inside : q <= r})] = table[r]
=============================================================================
