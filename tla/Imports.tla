------------------------------ MODULE Imports -------------------------------
(***************************************************************************)
(* CSV files of operations and of bank movements, as the assistant         *)
(* (services/csv_assistant.py) previews and commits them and as the import *)
(* endpoints of services/operations.py post them.                          *)
(*                                                                         *)
(* Both check a row against what is already booked, each with its own      *)
(* code: the assistant row by row, to sort valid rows from duplicates and  *)
(* rejects, the import for the file as a whole.  A row is a piece, its     *)
(* contents, the exercise its date falls in, and whether its cells could   *)
(* be read (legible) and said it was paid.                                 *)
(***************************************************************************)
EXTENDS Integers, Sequences, FiniteSets, Functions

CONSTANTS Years,
          Banks,
          Numbers,   \* accounts 512
          Files,     \* files of operations: [ready, rows]
          Statements, \* files of bank movements: sequences of rows
          Keys,      \* Idempotency-Key headers
          NoBank, NoKey, NoBatch, NoRequest, NoNumber,
          MaxOperations  \* bound

VARIABLES writable,   \* exercises that are OPEN
          operations, \* in their order; key: the import that posted it, for the record
          batches,    \* the report stored under each key
          movements,  \* bank transactions; number: that of the bank then, for the record
          number      \* account 512 of each bank

importVars == <<writable, operations, batches, movements, number>>

-----------------------------------------------------------------------------
(* The rows of a file *)

\* read_table, resolve_mapping: every mandatory column has its place.
Ready(file) == file.ready

\* parse_operation_row: every cell of the row can be read.
Legible(row) == row.legible

\* flag_duplicates
Repeated(file, i) ==
  \E j \in DOMAIN file.rows \ {i} : file.rows[j].piece = file.rows[i].piece

\* operations_for_piece, and the request id an import derives from the piece.
Found(piece) == {n \in DOMAIN operations :
  operations[n].piece = piece \/ operations[n].request = piece}

\* same_imported_operation
Same(n, row, y) == operations[n].contents = row.contents /\ operations[n].year = y

AllSame(row, y) == \E n \in Found(row.piece) :
  Found(row.piece) = {n} /\ Same(n, row, y)

\* Variant: the date of a row is left to the import.
AnnotatedAnyDate(file, y, i) ==
  LET row == file.rows[i]
  IN CASE ~ Legible(row) \/ Repeated(file, i) -> "error"
       [] OTHER -> IF Found(row.piece) = {} THEN "valid"
                   ELSE IF AllSame(row, y) THEN "duplicate" ELSE "error"

\* The status the assistant gives to a row (parse_rows, _annotate_operations).
Annotated(file, y, i) ==
  LET row == file.rows[i]
  IN CASE ~ Legible(row) \/ Repeated(file, i) \/ row.year # y -> "error"
       [] OTHER -> IF Found(row.piece) = {} THEN "valid"
                   ELSE IF AllSame(row, y) THEN "duplicate" ELSE "error"

Importable(file, y) == {i \in DOMAIN file.rows : Annotated(file, y, i) = "valid"}
Rejected(file, y) == {i \in DOMAIN file.rows : Annotated(file, y, i) = "error"}

\* paid_lines_need_bank, for the whole file.
PaidNeedsBank(rows, bank) == bank = NoBank /\ \E i \in DOMAIN rows : rows[i].paid

\* preview_import and guard_operations_commit: something may be posted.
Guarded(file, y, bank, validOnly) ==
  /\ Ready(file)
  /\ writable[y]
  /\ ~ PaidNeedsBank(file.rows, bank)
  /\ Rejected(file, y) # {} => validOnly
  /\ Importable(file, y) # {}

\* parse_operations_csv: one row that cannot be read refuses the file.
Parsed(file) ==
  /\ file.ready
  /\ \A i \in DOMAIN file.rows : file.rows[i].legible /\ ~ Repeated(file, i)

\* import_operations_csv: every check it makes before it posts the rows.
Accepts(rows, y, bank) ==
  /\ writable[y]
  /\ ~ PaidNeedsBank(rows, bank)
  /\ \A i \in DOMAIN rows : rows[i].year = y
  /\ \A i \in DOMAIN rows : Found(rows[i].piece) # {} => AllSame(rows[i], y)

\* The elements of a sequence at some of its places, in order.
Kept(s, places) == [k \in 1..Cardinality(places) |->
  s[CHOOSE i \in places : Cardinality({j \in places : j <= i}) = k]]

\* create_operation for the rows that are not booked yet.
Booked(rows, y, bank, key) ==
  LET new == Kept(rows, {i \in DOMAIN rows : Found(rows[i].piece) = {}})
  IN [k \in DOMAIN new |->
        [request |-> new[k].piece, piece |-> new[k].piece, year |-> y,
         contents |-> new[k].contents, key |-> key,
         bank   |-> IF new[k].paid THEN bank ELSE NoBank,
         number |-> IF new[k].paid THEN number[bank] ELSE NoNumber,
         reversed |-> FALSE]]

\* batch_items
Item == [valid |-> "posted", duplicate |-> "skipped", error |-> "rejected"]
Items(file, y) == [i \in DOMAIN file.rows |-> Item[Annotated(file, y, i)]]

\* Variant: the reports are never looked for.
StoredNever(key) == FALSE

\* _stored_operations_batch
Stored(key) == batches[key] # NoBatch

\* Variant: operations alone hold the number of a bank.
HasOperations(b) == \E n \in DOMAIN operations : operations[n].bank = b

\* _bank_has_movements
HasMovements(b) ==
  \/ \E t \in movements : t.bank = b
  \/ \E n \in DOMAIN operations : operations[n].bank = b \/ operations[n].number = number[b]

-----------------------------------------------------------------------------
\* The absence of a key, a bank or a report is none of them.
ImportsAssumption ==
  /\ \A f \in Files : f.rows \in Seq(Range(f.rows))
  /\ NoKey \notin Keys /\ NoBank \notin Banks
  /\ \A f \in Files : NoBatch \notin
       [file : {f}, year : Years, bank : Banks \cup {NoBank}, validOnly : BOOLEAN,
        items : [DOMAIN f.rows -> {"posted", "skipped", "rejected"}]]

Init ==
  /\ writable = [y \in Years |-> TRUE]
  /\ operations = <<>>
  /\ batches = [k \in Keys |-> NoBatch]
  /\ movements = {}
  /\ number \in {f \in [Banks -> Numbers] : \A a, b \in Banks : f[a] = f[b] => a = b}

Room(added) == Len(operations) + added <= MaxOperations

\* commit_import of operations.  A key already used posts nothing: it is
\* answered its report, or refused for another file.
CommitOperations(file, y, bank, validOnly, key) ==
  /\ Guarded(file, y, bank, validOnly)
  /\ ~ Stored(key)
  /\ LET rows == Kept(file.rows, Importable(file, y))
     IN /\ Accepts(rows, y, bank)
        /\ Room(Len(Booked(rows, y, bank, key)))
        /\ operations' = operations \o Booked(rows, y, bank, key)
  /\ batches' = [batches EXCEPT ![key] =
       [file |-> file, year |-> y, bank |-> bank, validOnly |-> validOnly,
        items |-> Items(file, y)]]
  /\ UNCHANGED <<writable, movements, number>>

\* The import endpoint, without the assistant.
ImportOperations(file, y, bank) ==
  /\ Parsed(file)
  /\ Accepts(file.rows, y, bank)
  /\ Room(Len(Booked(file.rows, y, bank, NoKey)))
  /\ operations' = operations \o Booked(file.rows, y, bank, NoKey)
  /\ UNCHANGED <<writable, batches, movements, number>>

\* create_operation by hand, under a request id of the screen; nothing keeps it
\* from naming a piece already booked.
CreateOperation(piece, y, contents, bank) ==
  /\ writable[y] /\ Room(1)
  /\ operations' = Append(operations,
       [request |-> NoRequest, piece |-> piece, year |-> y, contents |-> contents,
        key |-> NoKey, bank |-> bank, reversed |-> FALSE,
        number |-> IF bank = NoBank THEN NoNumber ELSE number[bank]])
  /\ UNCHANGED <<writable, batches, movements, number>>

CancelOperation(n) ==
  /\ writable[operations[n].year] /\ ~ operations[n].reversed
  /\ operations' = [operations EXCEPT ![n].reversed = TRUE]
  /\ UNCHANGED <<writable, batches, movements, number>>

\* parse_bank_row
LegibleMovement(row) == row.legible

\* _annotate_bank: a reference known with other contents is rejected, one known
\* with the same contents is left alone.
NewMovements(rows, b) ==
  {[bank |-> b, reference |-> row.reference, contents |-> row.contents,
    number |-> number[b]] :
     row \in {r \in Range(rows) :
       /\ LegibleMovement(r)
       /\ \A s \in Range(rows) \ {r} : s.reference # r.reference
       /\ \A t \in movements : ~ (t.bank = b /\ t.reference = r.reference)}}

CommitBank(rows, b) ==
  /\ NewMovements(rows, b) # {}
  /\ movements' = movements \cup NewMovements(rows, b)
  /\ UNCHANGED <<writable, operations, batches, number>>

\* parse_csv: every row legible, every reference named once.
ParsedMovements(rows) ==
  /\ \A i \in DOMAIN rows : rows[i].legible
  /\ \A i, j \in DOMAIN rows : rows[i].reference = rows[j].reference => i = j

\* import_csv, without the assistant: a conflict refuses the file.
ImportBank(rows, b) ==
  /\ ParsedMovements(rows)
  /\ \A t \in movements, row \in Range(rows) :
       t.bank = b /\ t.reference = row.reference => t.contents = row.contents
  /\ movements' = movements \cup NewMovements(rows, b)
  /\ UNCHANGED <<writable, operations, batches, number>>

\* correct_bank: another account 512 for a bank without movements.
CorrectBank(b, n) ==
  /\ n # number[b] /\ ~ HasMovements(b)
  /\ \A a \in Banks \ {b} : number[a] # n
  /\ number' = [number EXCEPT ![b] = n]
  /\ UNCHANGED <<writable, operations, batches, movements>>

Switch(y) ==
  /\ writable' = [writable EXCEPT ![y] = ~ @]
  /\ UNCHANGED <<operations, batches, movements, number>>

Pieces == UNION {{r.piece : r \in Range(f.rows)} : f \in Files}
Contents == UNION {{r.contents : r \in Range(f.rows)} : f \in Files}

Next ==
  \/ \E y \in Years, bank \in Banks \cup {NoBank} :
       \/ \E f \in Files :
            \/ \E only \in BOOLEAN, k \in Keys : CommitOperations(f, y, bank, only, k)
            \/ ImportOperations(f, y, bank)
       \/ \E p \in Pieces, c \in Contents : CreateOperation(p, y, c, bank)
  \/ \E n \in DOMAIN operations : CancelOperation(n)
  \/ \E b \in Banks :
       \/ \E rows \in Statements : CommitBank(rows, b) \/ ImportBank(rows, b)
       \/ \E n \in Numbers : CorrectBank(b, n)
  \/ \E y \in Years : Switch(y)

-----------------------------------------------------------------------------
(* Properties *)

\* Whatever was booked before, the rows a preview calls valid are the rows the
\* import takes: once the guard of the commit lets a file through, no check of
\* import_operations_csv refuses it.
PreviewedIsAccepted ==
  \A f \in Files, y \in Years, bank \in Banks \cup {NoBank}, only \in BOOLEAN :
    Guarded(f, y, bank, only) => Accepts(Kept(f.rows, Importable(f, y)), y, bank)

\* What a key reports is what was booked under it: each line reported posted is
\* one operation, none was booked for a line reported rejected or skipped, and
\* sending the request again never books more.
ReportMatchesBooks == \A k \in Keys :
  LET booked == Kept(operations, {n \in DOMAIN operations : operations[n].key = k})
  IN IF batches[k] = NoBatch THEN booked = <<>>
     ELSE LET b == batches[k]
              posted == Kept(b.file.rows, {i \in DOMAIN b.items : b.items[i] = "posted"})
          IN /\ Len(booked) = Len(posted)
             /\ \A i \in DOMAIN posted :
                  /\ booked[i].piece = posted[i].piece
                  /\ booked[i].contents = posted[i].contents
                  /\ booked[i].year = b.year
             /\ (\E i \in DOMAIN b.items : b.items[i] = "rejected") => b.validOnly

\* A bank keeps the account 512 its movements and its paid operations were
\* booked on, so that they can be matched.
BankKeepsItsNumber ==
  /\ \A t \in movements : number[t.bank] = t.number
  /\ \A n \in DOMAIN operations :
       operations[n].bank # NoBank => number[operations[n].bank] = operations[n].number
=============================================================================
