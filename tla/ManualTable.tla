-------------------------------- MODULE ManualTable --------------------------------
(***************************************************************************)
(* The table of mode manuel on its way between the browser and the         *)
(* database. In the browser a cell is keyed by its column's id, and four   *)
(* columns have ids of their own; in a request cells and columns are       *)
(* aligned by position; in the database a cell refers to a column by a     *)
(* generated id, and cells are read in no order. A devis reloaded into the *)
(* browser goes from the last form to the first.                           *)
(*                                                                         *)
(* What the artisan types is a text or a number (it decides the row's      *)
(* total), and remembers the row and the column it was typed in: their     *)
(* marks. A mark stands for what a heading or a row means to the artisan,  *)
(* whatever the ids it is given. Widths and heights are left out.          *)
(***************************************************************************)
EXTENDS SequencesExt, FiniteSetsExt, Naturals

CONSTANTS
  MaxRows,      \* bound of the rows of a draft
  MaxCustom,    \* bound of its columns of role CUSTOM
  MaxTables,    \* bound of the documents looked at
  TypedRoles,   \* the roles of the columns typed in
  MaxTyped      \* bound of the cells of a draft that are not blank

ASSUME TableBounds == MaxCustom \in Nat /\ MaxTables \in Nat

VARIABLES
  columns,  \* the store's columns: id, role, mark
  rows,     \* the store's rows: mark, and a value per column id
  loading,  \* devis asked for by the page
  posted,   \* the table on its way to the API, or NoTable
  tables    \* documents looked at: type, columns, rows with the cells as a set

tableVars == <<columns, rows, loading, posted, tables>>

Required == <<"DESCRIPTION", "QUANTITY", "UNIT_PRICE", "LINE_TOTAL">>
Prices == {"UNIT_PRICE", "LINE_TOTAL"}
Blank == [blank |-> TRUE, row |-> 0, column |-> 0, number |-> FALSE]
Typed(r, c, number) == [blank |-> FALSE, row |-> r.mark, column |-> c.mark, number |-> number]
NoTable == [type |-> "none", columns |-> <<>>, rows |-> <<>>]

-------------------------------------------------------------------------------
(* The store's table                                                        *)

Fixed == 1..Len(Required)
FixedId(role) == CHOOSE n \in Fixed : Required[n] = role

\* The n-th name above the fixed ids that is not in use.
FreshName(used, n) ==
  CHOOSE k \in (Len(Required) + 1)..(Len(Required) + Cardinality(used) + n) :
    k \notin used /\ Cardinality(((Len(Required) + 1)..k) \ used) = n
Marks(s) == {e.mark : e \in ToSet(s)}
AllColumns == ToSet(columns) \cup UNION {ToSet(t.columns) : t \in ToSet(tables)}
UsedIds == {c.id : c \in AllColumns} \cup UNION {DOMAIN r.cells : r \in ToSet(rows)}
FreshId == FreshName(UsedIds, 1)
\* Marks are new to the draft: rows and columns are told apart within a table.
DraftValues == UNION {{r.cells[id] : id \in DOMAIN r.cells} : r \in ToSet(rows)}
FreshColumnMark == FreshName(Marks(columns) \cup {v.column : v \in DraftValues}, 1)
FirstRow == Len(Required) + 1
FreshRowMark == FreshName(Marks(rows), 1)

DefaultColumns == [n \in Fixed |-> [id |-> n, role |-> Required[n], mark |-> n]]
IdsOf(cs) == {c.id : c \in ToSet(cs)}
EmptyRow(cs, mark) == [mark |-> mark, cells |-> [id \in IdsOf(cs) |-> Blank]]
Cell(r, id) == IF id \in DOMAIN r.cells THEN r.cells[id] ELSE Blank
TypedCells(rs) ==
  Cardinality({p \in (DOMAIN rs) \X UNION {DOMAIN r.cells : r \in ToSet(rs)} :
                 ~Cell(rs[p[1]], p[2]).blank})
PutCell(cells, id, value) ==
  [k \in DOMAIN cells \cup {id} |-> IF k = id THEN value ELSE cells[k]]

\* DESCRIPTION is looked up by its fixed id, the others by role.
IsDescribed(r) == ~Cell(r, FixedId("DESCRIPTION")).blank
UsableRow == \E i \in DOMAIN rows : IsDescribed(rows[i])

-------------------------------------------------------------------------------
(* The request, and what the API makes of it                                *)

\* The places of a set, in ascending order.
InOrder(S) ==
  CHOOSE s \in [1..Cardinality(S) -> S] :
    {s[k] : k \in DOMAIN s} = S /\ \A j, k \in DOMAIN s : j < k => s[j] < s[k]

\* By position; a row without a description is dropped.
TableRequest(type) ==
  [type |-> type,
   columns |-> [j \in DOMAIN columns |-> [role |-> columns[j].role, mark |-> columns[j].mark]],
   rows |-> LET kept == InOrder({i \in DOMAIN rows : IsDescribed(rows[i])})
            IN [k \in DOMAIN kept |->
                  [mark |-> rows[kept[k]].mark,
                   cells |-> [j \in DOMAIN columns |-> Cell(rows[kept[k]], columns[j].id)]]]]

RoleIndex(cs, role) == CHOOSE j \in DOMAIN cs : cs[j].role = role

\* ManualColumnsCoverRequiredRoles and ManualRowCellsValid.
AcceptedTable(t) ==
  /\ \A k \in DOMAIN Required : Cardinality({j \in DOMAIN t.columns : t.columns[j].role = Required[k]}) = 1
  /\ t.rows # <<>>
  /\ \A i \in DOMAIN t.rows :
       LET cells == t.rows[i].cells
       IN /\ Len(cells) = Len(t.columns)
          /\ \A j \in DOMAIN cells :
               /\ t.columns[j].role = "DESCRIPTION" => ~cells[j].blank
               /\ t.columns[j].role \in Prices /\ ~cells[j].blank => cells[j].number

\* The ids of the n-th document are those of the n-th block.
Width == Len(Required) + MaxCustom + 1
Blocks == {id \div Width : id \in UsedIds}
NewBlock == Min((1..(Cardinality(Blocks) + 1)) \ Blocks)
GeneratedId(n) == Width * NewBlock + n
\* createWithNextNumber: cells[i] goes to the i-th column created.
PersistedTable(t) ==
  [type |-> t.type,
   columns |-> [j \in DOMAIN t.columns |-> [id |-> GeneratedId(j), role |-> t.columns[j].role,
                                            mark |-> t.columns[j].mark]],
   rows |-> [i \in DOMAIN t.rows |->
               [mark |-> t.rows[i].mark,
                cells |-> {[column |-> GeneratedId(j), value |-> t.rows[i].cells[j]] :
                             j \in DOMAIN t.columns}]]]

CellOf(r, id) ==
  LET found == {c \in r.cells : c.column = id}
  IN IF found = {} THEN Blank ELSE (CHOOSE c \in found : TRUE).value

\* toManualInvoiceWithTotals and convertToFacture: back to the columns' order.
OrderedTable(t) ==
  [type |-> t.type,
   columns |-> [j \in DOMAIN t.columns |-> [role |-> t.columns[j].role, mark |-> t.columns[j].mark]],
   rows |-> [i \in DOMAIN t.rows |->
               [mark |-> t.rows[i].mark,
                cells |-> [j \in DOMAIN t.columns |-> CellOf(t.rows[i], t.columns[j].id)]]]]

\* computeManualRowTotalCents: the cell a row's total is read from.
TotalCell(cs, cells) == cells[RoleIndex(cs, "LINE_TOTAL")]

\* The PDF's table: LINE_TOTAL is left out of the columns and, by index, of the cells;
\* the total comes last.
PrintedTable(t) ==
  LET without(s) == RemoveAt(s, RoleIndex(t.columns, "LINE_TOTAL"))
  IN [heads |-> without(t.columns),
      rows |-> [i \in DOMAIN t.rows |->
                  [mark |-> t.rows[i].mark, cells |-> without(t.rows[i].cells),
                   total |-> TotalCell(t.columns, t.rows[i].cells)]]]

-------------------------------------------------------------------------------
(* Editing                                                                  *)

\* What is typed while the request is on its way does not reach it, and goes with the
\* reset; a document nobody reloads does not depend on it, and is forgotten before.
Editable == posted = NoTable /\ Cardinality(loading) = Len(tables)
EditTable(cs, rs) ==
  /\ Editable
  /\ columns' = cs /\ rows' = rs
  /\ UNCHANGED <<loading, posted, tables>>

SetCellValue(i, id, value) ==
  LET changed == [rows EXCEPT ![i].cells = PutCell(@, id, value)]
  IN TypedCells(changed) <= MaxTyped /\ EditTable(columns, changed)

\* Only the prices tell a number from a text.
TypeCell ==
  \E i \in DOMAIN rows, j \in DOMAIN columns, number \in BOOLEAN :
    /\ columns[j].role \in TypedRoles /\ (number => columns[j].role \in Prices)
    /\ SetCellValue(i, columns[j].id, Typed(rows[i], columns[j], number))
ClearCell == \E i \in DOMAIN rows, j \in DOMAIN columns : SetCellValue(i, columns[j].id, Blank)

\* The "?" button: a negative or a very long product does not read as a number.
AutofillTotal ==
  \E i \in DOMAIN rows, number \in BOOLEAN :
    LET c == CHOOSE c \in ToSet(columns) : c.role = "LINE_TOTAL"
    IN SetCellValue(i, c.id, Typed(rows[i], c, number))

AddRow ==
  /\ Len(rows) < MaxRows
  /\ EditTable(columns, Append(rows, EmptyRow(columns, FreshRowMark)))

\* The last row stays.
RemoveRow == Len(rows) > 1 /\ \E i \in DOMAIN rows : EditTable(columns, RemoveAt(rows, i))

AddCustomColumn ==
  /\ Cardinality({j \in DOMAIN columns : columns[j].role = "CUSTOM"}) < MaxCustom
  /\ EditTable(Append(columns, [id |-> FreshId, role |-> "CUSTOM", mark |-> FreshColumnMark]),
               [i \in DOMAIN rows |-> [rows[i] EXCEPT !.cells = PutCell(@, FreshId, Blank)]])

RemoveColumn ==
  \E j \in DOMAIN columns :
    /\ columns[j].role = "CUSTOM"
    /\ EditTable(RemoveAt(columns, j),
                 [i \in DOMAIN rows |->
                    [rows[i] EXCEPT !.cells = Restrict(@, DOMAIN @ \ {columns[j].id})]])

\* "Mettre en forme": a cell per column; what does not read as a number is left as it is.
Format ==
  EditTable(columns,
            [i \in DOMAIN rows |->
               [rows[i] EXCEPT !.cells = [id \in IdsOf(columns) |-> Cell(rows[i], id)]]])

\* reset
FreshTable == columns' = DefaultColumns /\ rows' = <<EmptyRow(DefaultColumns, FirstRow)>>

ResetTable == FreshTable /\ UNCHANGED <<loading, posted, tables>>

-------------------------------------------------------------------------------
(* To the API and back                                                      *)

PostTable ==
  /\ posted = NoTable /\ UsableRow
  /\ \E type \in {"DEVIS", "FACTURE"} : posted' = TableRequest(type)
  /\ UNCHANGED <<columns, rows, loading, tables>>

\* The document is created, then the store is reset, whatever was typed meanwhile; when
\* the page was left or reloaded, the draft stays.
CreateTable ==
  /\ posted # NoTable /\ AcceptedTable(posted) /\ Len(tables) < MaxTables
  /\ tables' = Append(tables, PersistedTable(posted))
  /\ posted' = NoTable
  /\ FreshTable \/ UNCHANGED <<columns, rows>>
  /\ UNCHANGED loading

\* 400, 402, 409 or no answer.
RefuseTable ==
  /\ posted # NoTable /\ posted' = NoTable
  /\ UNCHANGED <<columns, rows, loading, tables>>

\* convertToFacture and createRetroactiveDevis clone the columns and the cells. From then
\* on the clone is looked at, not its source.
CloneTable(i) ==
  /\ i \notin loading
  /\ tables' = [tables EXCEPT ![i] =
       [PersistedTable(OrderedTable(tables[i])) EXCEPT
          !.type = IF @ = "DEVIS" THEN "FACTURE" ELSE "DEVIS"]]
  /\ UNCHANGED <<columns, rows, loading, posted>>

\* Nobody looks at the document again.
ForgetTable(i) ==
  /\ i = Len(tables) /\ i \notin loading
  /\ tables' = RemoveAt(tables, i)
  /\ UNCHANGED <<columns, rows, loading, posted>>

\* fromDevisId: the answer comes later, and editing goes on.
AskForDevis(i) ==
  /\ tables[i].type = "DEVIS" /\ loading' = loading \cup {i}
  /\ UNCHANGED <<columns, rows, posted, tables>>

(* Mutant: the devis's own ids are kept. *)
DraftIdKept(c) == c.id
\* loadFromInvoice: the generated ids of the required columns become the fixed ones.
DraftId(c) == IF c.role = "CUSTOM" THEN c.id ELSE FixedId(c.role)

LoadManualDevis(i) ==
  /\ i \in loading /\ i = Len(tables)
  /\ loading' = loading \ {i} /\ tables' = RemoveAt(tables, i)
  /\ LET source == tables[i]
         cs == [j \in DOMAIN source.columns |->
                  [source.columns[j] EXCEPT !.id = DraftId(source.columns[j])]]
     IN /\ columns' = cs
        /\ rows' = [k \in DOMAIN source.rows |->
                      [mark |-> source.rows[k].mark,
                       cells |-> [id \in IdsOf(cs) |->
                          LET j == CHOOSE j \in DOMAIN cs : cs[j].id = id
                          IN CellOf(source.rows[k], source.columns[j].id)]]]
  /\ UNCHANGED posted

\* Another page: a devis asked for is given up. The draft is in localStorage.
LeaveManualPage ==
  /\ loading' = {}
  /\ UNCHANGED <<columns, rows, posted, tables>>

-------------------------------------------------------------------------------
\* A draft of before LINE_TOTAL gets that column last, with an id of its own.
LegacyColumns == [DefaultColumns EXCEPT ![4].id = FirstRow]

TableInit ==
  /\ columns \in {DefaultColumns, LegacyColumns}
  /\ rows = <<EmptyRow(columns, FirstRow)>>
  /\ loading = {} /\ posted = NoTable /\ tables = <<>>

TableNext ==
  \/ TypeCell \/ ClearCell \/ AutofillTotal \/ AddRow \/ RemoveRow \/ AddCustomColumn \/ RemoveColumn
  \/ Format \/ ResetTable \/ PostTable \/ CreateTable \/ RefuseTable \/ LeaveManualPage
  \/ \E i \in DOMAIN tables : CloneTable(i) \/ ForgetTable(i) \/ AskForDevis(i) \/ LoadManualDevis(i)

TableSpec == TableInit /\ [][TableNext]_tableVars

-------------------------------------------------------------------------------
TableTypeOK ==
  /\ loading \subseteq DOMAIN tables
  /\ rows # <<>> /\ Len(tables) <= MaxTables
  /\ \A i \in DOMAIN rows : DOMAIN rows[i].cells = IdsOf(columns)
  /\ \A i \in DOMAIN tables : tables[i].type \in {"DEVIS", "FACTURE"}

InPlace(value, r, c) == value.blank \/ (value.row = r.mark /\ value.column = c.mark)
AlignedTable(t) ==
  \A i \in DOMAIN t.rows, j \in DOMAIN t.columns : InPlace(t.rows[i].cells[j], t.rows[i], t.columns[j])
PrintedInPlace(t) ==
  \A i \in DOMAIN t.rows :
    /\ \A j \in DOMAIN t.heads : InPlace(t.rows[i].cells[j], t.rows[i], t.heads[j])
    /\ InPlace(t.rows[i].total, t.rows[i], [mark |-> FixedId("LINE_TOTAL")])
\* The rows that have a value typed under the heading of the descriptions.
DescribedMarks ==
  {r.mark : r \in {q \in ToSet(rows) : \E id \in DOMAIN q.cells :
                    ~q.cells[id].blank /\ q.cells[id].column = FixedId("DESCRIPTION")}}

\* What is typed stays in the row and under the heading it was typed in: in the draft
\* whatever columns come and go, in the request, in the database, in the clones, in the
\* PDF, and in the draft a devis is reloaded into; a row's total is the one typed as its
\* total; and a row that has a description is sent.
ValuesStayInPlace ==
  /\ \A i \in DOMAIN rows, j \in DOMAIN columns :
       InPlace(Cell(rows[i], columns[j].id), rows[i], columns[j])
  /\ AlignedTable(posted)
  /\ Marks(TableRequest("DEVIS").rows) = DescribedMarks
  /\ \A i \in DOMAIN tables :
       AlignedTable(OrderedTable(tables[i])) /\ PrintedInPlace(PrintedTable(OrderedTable(tables[i])))

===============================================================================
