---------------------------- MODULE LedgerProofs ----------------------------
(***************************************************************************)
(* Theorems about Ledger for every set of years, accounts, requests, bank  *)
(* movements and every bound, and their proofs.                            *)
(*                                                                         *)
(* The proofs go through one summary of the next-state relation: a step    *)
(* leaves the entry table alone, or writes one row that is not posted, or  *)
(* posts one row.  Types and numbering are proved together, because the    *)
(* number given to a posting is a natural number only when the numbers     *)
(* already given have a maximum.                                           *)
(*                                                                         *)
(* The second part is about the links between rows: an entry is reversed   *)
(* once and exactly, and a bank movement stays matched to an entry that    *)
(* stands.                                                                 *)
(*                                                                         *)
(* The third part shows that the ledger keeps the promise of Journal: its  *)
(* posted rows, read in the order of their numbers, are one append-only    *)
(* journal per year, and every step of Ledger is a step of it or leaves it *)
(* as it is; and that the event journal, its audit trail, names the        *)
(* contents of every version of a row and reconstructs the table.          *)
(***************************************************************************)
EXTENDS Ledger, FiniteSetTheorems, SequenceTheorems, TLAPS

\* A row that is not posted is inserted, replaced or deleted.
DraftWrite(i, r) ==
  /\ entry[i].status # "VALIDATED"
  /\ r \in Row \cup {NoRow}
  /\ r.status # "VALIDATED"
  /\ r.status = "DRAFT" => r.seq = 0 /\ Writable(r.year)
  /\ entry' = [entry EXCEPT ![i] = r]
  /\ lastId' \in 0..MaxEntries
  /\ lastId <= lastId' /\ i <= lastId'

\* A row is posted: the draft of that id, or one created in the same step.
PostWrite(i, r, t) ==
  /\ entry[i].status # "VALIDATED"
  /\ r \in Row
  /\ t \in Nat
  /\ CanPost(r, t)
  /\ entry' = [entry EXCEPT ![i] = Validated(r, t)]
  /\ lastId' \in 0..MaxEntries
  /\ lastId <= lastId' /\ i <= lastId'

\* The rest of the state keeps its types.
OthersTyped ==
  /\ bankMatch' \in [BankTransactions -> Ids \cup {None}]
  /\ yearStatus' \in [Years -> {"OPEN", "READY_TO_CLOSE", "CLOSED"}]
  /\ active' \subseteq Chart

Shape ==
  \/ /\ UNCHANGED <<entry, lastId>>
     /\ \A y \in Years :
          yearStatus[y] = "OPEN" /\ yearStatus'[y] # "OPEN" => NoDraftIn(y)
  \/ yearStatus' = yearStatus /\ \E i \in Ids, r \in Row \cup {NoRow} : DraftWrite(i, r)
  \/ yearStatus' = yearStatus /\ \E i \in Ids, r \in Row, t \in Nat : PostWrite(i, r, t)

Numbered == TypeOK /\ GaplessNumbering

-----------------------------------------------------------------------------
(* Rows *)

\* What create_draft inserts is a row of the table.
LEMMA DraftIsRow ==
  ASSUME NEW y \in Years, NEW d \in YearDates[y], NEW j \in Journals,
         NEW lines \in [Accounts -> Int], MaxEntries \in Nat
  PROVE  Draft(y, d, j, lines) \in Row
  BY CalendarAssumption DEF Draft, Row, Sources, Ids, None

\* Replacing one field of a row by a value of its type gives a row.
LEMMA FieldUpdate ==
  ASSUME NEW r \in Row
  PROVE  /\ \A x \in {"DRAFT", "VALIDATED"} : [r EXCEPT !.status = x] \in Row
         /\ \A x \in Nat \ {0} : [r EXCEPT !.version = x] \in Row
         /\ \A x \in Years : [r EXCEPT !.year = x] \in Row
         /\ \A x \in Nat : [r EXCEPT !.date = x] \in Row
         /\ \A x \in Journals : [r EXCEPT !.journal = x] \in Row
         /\ \A x \in [Accounts -> Int] : [r EXCEPT !.lines = x] \in Row
         /\ \A x \in Nat : [r EXCEPT !.seq = x] \in Row
         /\ \A x \in Nat : [r EXCEPT !.stamp = x] \in Row
         /\ \A x \in Sources : [r EXCEPT !.source = x] \in Row
         /\ \A x \in Requests : [r EXCEPT !.request = x] \in Row
         /\ \A x \in Ids : [r EXCEPT !.reversalOf = x] \in Row
  BY DEF Row

\* What replace_draft leaves is a row with the same status and number.
LEMMA ReplacedIsRow ==
  ASSUME NEW r \in Row, NEW y \in Years, NEW d \in YearDates[y],
         NEW j \in Journals, NEW lines \in [Accounts -> Int]
  PROVE  /\ Replaced(r, y, d, j, lines) \in Row
         /\ Replaced(r, y, d, j, lines).status = r.status
         /\ Replaced(r, y, d, j, lines).seq = r.seq
         /\ Replaced(r, y, d, j, lines).year = y
<1> DEFINE r1 == [r EXCEPT !.year = y]
           r2 == [r1 EXCEPT !.date = d]
           r3 == [r2 EXCEPT !.journal = j]
           r4 == [r3 EXCEPT !.lines = lines]
<1>1. r.version + 1 \in Nat \ {0} /\ d \in Nat
  BY CalendarAssumption DEF Row
<1>2. r2 \in Row
  <2>1. r1 \in Row
    BY FieldUpdate
  <2> QED  BY <1>1, <2>1, FieldUpdate
<1>3. r4 \in Row
  <2>1. r3 \in Row
    BY <1>2, FieldUpdate
  <2> QED  BY <2>1, FieldUpdate
<1>4. [r4 EXCEPT !.version = r.version + 1] \in Row
  BY <1>1, <1>3, FieldUpdate
<1>5. Replaced(r, y, d, j, lines) \in Row
  BY <1>4 DEF Replaced
<1> QED  BY <1>5 DEF Replaced, Row

\* Marking a row with its source keeps it a row.
LEMMA MarkedIsRow ==
  ASSUME NEW r \in Row, NEW s \in Sources
  PROVE  /\ \A q \in Requests : [r EXCEPT !.source = s, !.request = q] \in Row
         /\ \A i \in Ids : [r EXCEPT !.source = s, !.reversalOf = i] \in Row
<1> DEFINE r1 == [r EXCEPT !.source = s]
<1>1. r1 \in Row
  BY FieldUpdate
<1>2. \A q \in Requests : [r1 EXCEPT !.request = q] \in Row
  BY <1>1, FieldUpdate
<1>3. \A i \in Ids : [r1 EXCEPT !.reversalOf = i] \in Row
  BY <1>1, FieldUpdate
<1> QED  BY <1>2, <1>3

\* The opposite of the lines of an entry are lines of an entry.
LEMMA OppositeIsLines ==
  ASSUME NEW lines \in [Accounts -> Int]
  PROVE  Opposite(lines) \in [Accounts -> Int]
  BY DEF Opposite

\* The numbers of a year are exactly those up to its last number.
LEMMA LastSequenceBounds ==
  ASSUME Numbered, NEW y \in Years
  PROVE  /\ LastSequence(y) \in Nat
         /\ Sequences(y) = 1..LastSequence(y)
<1>1. PICK n \in 0..MaxEntries : Sequences(y) = 1..n
  BY DEF Numbered, GaplessNumbering
<1>2. n \in Nat /\ n \in Sequences(y) \cup {0}
  BY <1>1, MaxEntriesAssumption
<1>3. \A m \in Sequences(y) \cup {0} : n >= m
  BY <1>1, <1>2
<1>4. LastSequence(y) = n
  <2>1. PICK x \in Sequences(y) \cup {0} : 
          /\ x = LastSequence(y)
          /\ \A m \in Sequences(y) \cup {0} : x >= m
    BY <1>2, <1>3 DEF LastSequence, Max
  <2>2. x >= n /\ n >= x /\ x \in Nat
    BY <2>1, <1>1, <1>2, <1>3
  <2> QED  BY <2>1, <2>2, <1>2
<1> QED  BY <1>1, <1>2, <1>4

-----------------------------------------------------------------------------
(* Every step has one of the three shapes *)

\* A row created and posted at once has the shape of a posting.
LEMMA CreatePostedShape ==
  ASSUME TypeOK, NEW r \in Row, NEW t \in Nat, CreatePosted(r, t)
  PROVE  NextId \in Ids /\ PostWrite(NextId, r, t)
<1>1. NextId \in Ids /\ NextId > lastId /\ lastId' = NextId /\ lastId \in Nat
  BY MaxEntriesAssumption DEF CreatePosted, NextId, TypeOK
<1>2. entry[NextId] = NoRow
  BY <1>1 DEF TypeOK
<1> QED
  BY <1>1, <1>2, MaxEntriesAssumption DEF CreatePosted, PostWrite, NoRow, Ids

\* So does a reversal.
LEMMA PostReversalShape ==
  ASSUME TypeOK, NEW i \in Ids, NEW y \in Years, NEW d \in YearDates[y],
         NEW t \in Nat, PostReversal(i, d, t)
  PROVE  \E k \in Ids, r \in Row : PostWrite(k, r, t)
<1> DEFINE o == entry[i]
           r == [Draft(o.year, d, o.journal, Opposite(o.lines))
                   EXCEPT !.source = "REVERSAL", !.reversalOf = i]
<1>1. o \in Row
  BY DEF PostReversal, TypeOK, NoRow
<1>2. r \in Row
  <2>1. d \in Nat /\ o.year \in Years /\ o.journal \in Journals
    BY <1>1, CalendarAssumption DEF Row
  <2>2. Opposite(o.lines) \in [Accounts -> Int]
    BY <1>1, OppositeIsLines DEF Row
  <2>3. Draft(o.year, d, o.journal, Opposite(o.lines)) \in Row
    BY <2>1, <2>2 DEF Draft, Row, Sources, None
  <2> QED  BY <2>3, MarkedIsRow DEF Sources
<1>3. CreatePosted(r, t)
  BY DEF PostReversal
<1> QED  BY <1>2, <1>3, CreatePostedShape

LEMMA StepShape ==
  ASSUME TypeOK, [Next]_vars
  PROVE  Shape /\ OthersTyped
<1> USE MaxEntriesAssumption
<1>1. CASE DraftStep
  <2>1. ASSUME NEW y \in Years, NEW j \in Journals, NEW lines \in Inputs,
               NEW d \in YearDates[y], CreateDraft(y, d, j, lines)
        PROVE  Shape
    <3>1. Draft(y, d, j, lines) \in Row /\ lastId \in Nat /\ lastId < NextId
      BY DraftIsRow, InputsAssumption DEF TypeOK, NextId
    <3>2. NextId \in Ids /\ entry[NextId] = NoRow /\ lastId' = NextId
      BY <2>1, <3>1 DEF CreateDraft, TypeOK
    <3>3. DraftWrite(NextId, Draft(y, d, j, lines))
      BY <2>1, <3>1, <3>2
         DEF CreateDraft, DraftWrite, Draft, NoRow, CheckInput, Ids
    <3> QED  BY <2>1, <3>1, <3>2, <3>3 DEF Shape, CreateDraft
  <2>2. ASSUME NEW y \in Years, NEW j \in Journals, NEW lines \in Inputs,
               NEW d \in YearDates[y], NEW i \in Ids, NEW v \in Versions,
               ReplaceDraft(i, v, y, d, j, lines)
        PROVE  Shape
    <3> DEFINE r == Replaced(entry[i], y, d, j, lines)
    <3>1. entry[i] \in Row /\ i <= lastId
      BY <2>2 DEF ReplaceDraft, CheckDraft, TypeOK, NoRow, Ids
    <3>2. r \in Row /\ r.status = "DRAFT" /\ r.seq = 0 /\ r.year = y
      <4>1. entry[i].seq = 0 /\ entry[i].status = "DRAFT"
        BY <2>2 DEF ReplaceDraft, CheckDraft, TypeOK
      <4> QED
        BY <3>1, <4>1, ReplacedIsRow, InputsAssumption
    <3>3. DraftWrite(i, r)
      BY <2>2, <3>1, <3>2
         DEF ReplaceDraft, CheckDraft, DraftWrite, CheckInput, TypeOK
    <3> QED  BY <2>2, <3>2, <3>3 DEF Shape, ReplaceDraft
  <2>3. ASSUME NEW i \in Ids, NEW v \in Versions, DeleteDraft(i, v)
        PROVE  Shape
    <3>1. DraftWrite(i, NoRow)
      <4>1. i <= lastId
        BY <2>3 DEF DeleteDraft, CheckDraft, TypeOK, NoRow, Ids
      <4> QED
        BY <2>3, <4>1 DEF DeleteDraft, CheckDraft, DraftWrite, NoRow, TypeOK
    <3> QED  BY <2>3, <3>1 DEF Shape, DeleteDraft
  <2>4. OthersTyped
    BY <1>1 DEF DraftStep, CreateDraft, ReplaceDraft, DeleteDraft, OthersTyped, TypeOK
  <2> QED  BY <1>1, <2>1, <2>2, <2>3, <2>4 DEF DraftStep
<1>2. CASE PostingStep
  <2>0. PICK t \in Clock :
          \/ \E i \in Ids, v \in Versions : PostEntry(i, v, t)
          \/ \E i \in Ids, y \in Years : \E d \in YearDates[y] :
               ReverseEntry(i, d, t) \/ CancelOperation(i, d, t)
          \/ \E r \in Requests, y \in Years, j \in Journals, lines \in Inputs :
             \E d \in YearDates[y] :
               \/ PostInventory(r, y, d, j, lines, t)
               \/ \E settled \in {{}} \cup {{x} : x \in BankTransactions} :
                    PostBusiness(r, y, d, j, lines, t, settled)
    BY <1>2 DEF PostingStep
  <2>t. t \in Nat
    BY CalendarAssumption
  <2>1. ASSUME NEW i \in Ids, NEW v \in Versions, PostEntry(i, v, t)
        PROVE  Shape /\ OthersTyped
    <3>1. entry[i] \in Row /\ i <= lastId
      BY <2>1 DEF PostEntry, CheckDraft, TypeOK, NoRow, Ids
    <3>2. PostWrite(i, entry[i], t)
      BY <2>1, <2>t, <3>1 DEF PostEntry, CheckDraft, PostWrite, TypeOK
    <3>3. OthersTyped
      BY <2>1 DEF PostEntry, OthersTyped, TypeOK
    <3> QED  BY <2>1, <2>t, <3>1, <3>2, <3>3 DEF Shape, PostEntry
  <2>2. ASSUME NEW i \in Ids, NEW y \in Years, NEW d \in YearDates[y],
               ReverseEntry(i, d, t) \/ CancelOperation(i, d, t)
        PROVE  Shape /\ OthersTyped
    <3>1. \E k \in Ids, r \in Row : PostWrite(k, r, t)
      BY <2>2, <2>t, PostReversalShape DEF ReverseEntry, CancelOperation
    <3>2. OthersTyped /\ yearStatus' = yearStatus
      BY <2>2 DEF ReverseEntry, CancelOperation, Unmatched, OthersTyped, TypeOK, None
    <3> QED  BY <2>t, <3>1, <3>2 DEF Shape
  <2>3. ASSUME NEW q \in Requests, NEW y \in Years, NEW j \in Journals,
               NEW lines \in Inputs, NEW d \in YearDates[y],
               NEW settled \in {{}} \cup {{x} : x \in BankTransactions},
               \/ PostInventory(q, y, d, j, lines, t)
               \/ PostBusiness(q, y, d, j, lines, t, settled)
        PROVE  Shape /\ OthersTyped
    <3>1. Draft(y, d, j, lines) \in Row
      BY DraftIsRow, InputsAssumption
    <3>2. \E r \in Row : CreatePosted(r, t)
      <4> DEFINE inventory == [Draft(y, d, j, lines) EXCEPT !.source = "INVENTORY",
                                                            !.request = q]
                 business == [Draft(y, d, j, lines) EXCEPT !.source = "BUSINESS",
                                                           !.request = q]
      <4>1. inventory \in Row /\ business \in Row
        BY <3>1, MarkedIsRow DEF Sources
      <4>2. CreatePosted(inventory, t) \/ CreatePosted(business, t)
        BY <2>3 DEF PostInventory, PostBusiness
      <4> QED  BY <4>1, <4>2
    <3>3. NextId \in Ids /\ \E r \in Row : PostWrite(NextId, r, t)
      BY <2>t, <3>2, CreatePostedShape
    <3>4. OthersTyped /\ yearStatus' = yearStatus
      BY <2>3, <3>3 DEF PostInventory, PostBusiness, OthersTyped, TypeOK
    <3> QED  BY <2>t, <3>3, <3>4 DEF Shape
  <2> QED  BY <2>0, <2>1, <2>2, <2>3
<1>3. CASE BankStep
  BY <1>3 DEF BankStep, Match, Unmatch, Shape, OthersTyped, TypeOK, None
<1>4. CASE YearStep
  <2>1. OthersTyped
    BY <1>4 DEF YearStep, MarkReady, CloseYear, ReopenYear, InvalidateReadyYears,
                OthersTyped, TypeOK
  <2>2. \A y \in Years :
          yearStatus[y] = "OPEN" /\ yearStatus'[y] # "OPEN" => NoDraftIn(y)
    BY <1>4 DEF YearStep, MarkReady, CloseYear, ReopenYear, InvalidateReadyYears,
                TypeOK
  <2> QED
    BY <1>4, <2>1, <2>2 DEF YearStep, MarkReady, CloseYear, ReopenYear,
                            InvalidateReadyYears, Shape
<1>5. CASE \E c \in Switchable : SwitchActive(c)
  BY <1>5, SwitchableAssumption DEF SwitchActive, Shape, OthersTyped, TypeOK, Chart
<1>6. CASE UNCHANGED vars
  BY <1>6 DEF vars, Shape, OthersTyped, TypeOK
<1> QED  BY <1>1, <1>2, <1>3, <1>4, <1>5, <1>6 DEF Next

-----------------------------------------------------------------------------
(* Types and numbering *)

\* The row a posting writes, once the numbers of its year have a maximum.
LEMMA ValidatedIsRow ==
  ASSUME Numbered, NEW r \in Row, NEW t \in Nat
  PROVE  /\ Validated(r, t) \in Row
         /\ Validated(r, t).status = "VALIDATED"
         /\ Validated(r, t).seq = LastSequence(r.year) + 1
         /\ Validated(r, t).stamp = t
         /\ Validated(r, t).year = r.year
         /\ Validated(r, t).date = r.date
         /\ Validated(r, t).journal = r.journal
         /\ Validated(r, t).lines = r.lines
         /\ Validated(r, t).source = r.source
         /\ Validated(r, t).request = r.request
         /\ Validated(r, t).reversalOf = r.reversalOf
<1> DEFINE r1 == [r EXCEPT !.status = "VALIDATED"]
           r2 == [r1 EXCEPT !.version = r.version + 1]
           r3 == [r2 EXCEPT !.seq = LastSequence(r.year) + 1]
<1>1. LastSequence(r.year) + 1 \in Nat /\ r.version + 1 \in Nat \ {0}
  BY LastSequenceBounds DEF Row
<1>2. r2 \in Row
  <2>1. r1 \in Row
    BY FieldUpdate
  <2> QED  BY <1>1, <2>1, FieldUpdate
<1>3. r3 \in Row
  BY <1>1, <1>2, FieldUpdate
<1>4. [r3 EXCEPT !.stamp = t] \in Row
  BY <1>3, FieldUpdate
<1>5. Validated(r, t) \in Row
  BY <1>4 DEF Validated
<1> QED  BY <1>5 DEF Validated, Row

LEMMA TypePreserved ==
  ASSUME Numbered, [Next]_vars
  PROVE  TypeOK'
<1>1. Shape /\ OthersTyped
  BY StepShape DEF Numbered
<1>2. TypeOK
  BY DEF Numbered
<1>3. CASE UNCHANGED <<entry, lastId>>
  BY <1>1, <1>2, <1>3 DEF TypeOK, OthersTyped
<1>4. ASSUME NEW i \in Ids, NEW r \in Row \cup {NoRow}, DraftWrite(i, r)
      PROVE  TypeOK'
  <2>1. entry' \in [Ids -> Row \cup {NoRow}] /\ lastId' \in 0..MaxEntries
    BY <1>2, <1>4 DEF DraftWrite, TypeOK
  <2>2. \A k \in Ids : k > lastId' => entry'[k] = NoRow
    BY <1>2, <1>4, MaxEntriesAssumption DEF DraftWrite, TypeOK, Ids
  <2>3. \A k \in Ids : entry'[k].status = "DRAFT" => entry'[k].seq = 0
    BY <1>2, <1>4 DEF DraftWrite, TypeOK
  <2> QED  BY <1>1, <2>1, <2>2, <2>3 DEF TypeOK, OthersTyped
<1>5. ASSUME NEW i \in Ids, NEW r \in Row, NEW t \in Nat, PostWrite(i, r, t)
      PROVE  TypeOK'
  <2>1. entry' \in [Ids -> Row \cup {NoRow}] /\ lastId' \in 0..MaxEntries
    BY <1>2, <1>5, ValidatedIsRow DEF PostWrite, TypeOK
  <2>2. \A k \in Ids : k > lastId' => entry'[k] = NoRow
    BY <1>2, <1>5, MaxEntriesAssumption DEF PostWrite, TypeOK, Ids
  <2>3. \A k \in Ids : entry'[k].status = "DRAFT" => entry'[k].seq = 0
    BY <1>2, <1>5, ValidatedIsRow DEF PostWrite, TypeOK
  <2> QED  BY <1>1, <2>1, <2>2, <2>3 DEF TypeOK, OthersTyped
<1> QED  BY <1>1, <1>3, <1>4, <1>5 DEF Shape

\* A write of a row that is not posted leaves the posted rows as they are.
LEMMA DraftWriteKeepsPosted ==
  ASSUME TypeOK, NEW i \in Ids, NEW r \in Row \cup {NoRow}, DraftWrite(i, r),
         NEW y \in Years
  PROVE  /\ Posted(y)' = Posted(y)
         /\ \A k \in Posted(y) : entry'[k] = entry[k]
  BY DEF DraftWrite, Posted, TypeOK

\* A posting adds one row to its year and changes no other posted row.
LEMMA PostWriteAddsOne ==
  ASSUME Numbered, NEW i \in Ids, NEW r \in Row, NEW t \in Nat,
         PostWrite(i, r, t), NEW y \in Years
  PROVE  /\ i \notin Posted(y)
         /\ Posted(y)' = IF y = r.year THEN Posted(y) \cup {i} ELSE Posted(y)
         /\ \A k \in Posted(y) : entry'[k] = entry[k]
         /\ entry'[i] = Validated(r, t)
<1>1. entry'[i] = Validated(r, t) /\ \A k \in Ids : k # i => entry'[k] = entry[k]
  BY DEF PostWrite, Numbered, TypeOK
<1>2. i \notin Posted(y) /\ \A k \in Posted(y) : entry'[k] = entry[k]
  BY <1>1 DEF PostWrite, Posted
<1>3. \A k \in Ids : k \in Posted(y)' <=>
        k \in Posted(y) \/ (k = i /\ y = r.year)
  BY <1>1, <1>2, ValidatedIsRow DEF Posted
<1>4. Posted(y) \subseteq Ids /\ Posted(y)' \subseteq Ids
  BY DEF Posted
<1> QED  BY <1>1, <1>2, <1>3, <1>4

LEMMA NumberingPreserved ==
  ASSUME Numbered, [Next]_vars
  PROVE  GaplessNumbering'
<1>1. Shape /\ TypeOK /\ GaplessNumbering
  BY StepShape DEF Numbered
<1> SUFFICES ASSUME NEW y \in Years
             PROVE  /\ \E n \in 0..MaxEntries : Sequences(y)' = 1..n
                    /\ \A j, k \in Posted(y)' : entry'[j].seq = entry'[k].seq => j = k
  BY DEF GaplessNumbering
<1>2. ASSUME Posted(y)' = Posted(y),
             \A k \in Posted(y) : entry'[k] = entry[k]
      PROVE  /\ \E n \in 0..MaxEntries : Sequences(y)' = 1..n
             /\ \A j, k \in Posted(y)' : entry'[j].seq = entry'[k].seq => j = k
  BY <1>1, <1>2 DEF GaplessNumbering, Sequences
<1>3. CASE UNCHANGED <<entry, lastId>>
  BY <1>2, <1>3 DEF Posted
<1>4. ASSUME NEW i \in Ids, NEW r \in Row \cup {NoRow}, DraftWrite(i, r)
      PROVE  /\ \E n \in 0..MaxEntries : Sequences(y)' = 1..n
             /\ \A j, k \in Posted(y)' : entry'[j].seq = entry'[k].seq => j = k
  BY <1>1, <1>2, <1>4, DraftWriteKeepsPosted
<1>5. ASSUME NEW i \in Ids, NEW r \in Row, NEW t \in Nat, PostWrite(i, r, t)
      PROVE  /\ \E n \in 0..MaxEntries : Sequences(y)' = 1..n
             /\ \A j, k \in Posted(y)' : entry'[j].seq = entry'[k].seq => j = k
  <2>1. CASE y # r.year
    BY <1>2, <1>5, <2>1, PostWriteAddsOne
  <2>2. CASE y = r.year
    <3> DEFINE n == LastSequence(y)
    <3>1. n \in Nat /\ Sequences(y) = 1..n
      BY LastSequenceBounds
    <3>2. /\ i \notin Posted(y)
          /\ Posted(y)' = Posted(y) \cup {i}
          /\ \A k \in Posted(y) : entry'[k] = entry[k]
          /\ entry'[i].seq = n + 1
      BY <1>5, <2>2, PostWriteAddsOne, ValidatedIsRow
    <3> HIDE DEF n
    <3>3. \A k \in Posted(y) : entry'[k].seq \in 1..n
      BY <3>1, <3>2 DEF Sequences
    <3>4. Sequences(y)' = Sequences(y) \cup {n + 1}
      BY <3>2 DEF Sequences
    <3>5. Sequences(y)' = 1..(n + 1)
      BY <3>1, <3>4
    <3>6. \A j, k \in Posted(y)' : entry'[j].seq = entry'[k].seq => j = k
      <4>1. \A j, k \in Posted(y) : entry'[j].seq = entry'[k].seq => j = k
        BY <1>1, <3>2 DEF GaplessNumbering
      <4>2. \A k \in Posted(y) : entry'[k].seq # entry'[i].seq
        BY <3>1, <3>2, <3>3
      <4> QED  BY <3>2, <4>1, <4>2
    <3>7. n + 1 \in 0..MaxEntries
      <4> DEFINE S == Posted(y)'
                 f == [k \in S |-> entry'[k].seq]
      <4>1. f \in Surjection(S, 1..(n + 1))
        BY <3>5 DEF Surjection, Sequences
      <4>2. IsFiniteSet(S) /\ Cardinality(S) <= MaxEntries
        <5>1. IsFiniteSet(Ids) /\ Cardinality(Ids) = MaxEntries
          BY FS_Interval, MaxEntriesAssumption DEF Ids
        <5>2. S \in SUBSET Ids
          BY DEF Posted
        <5> QED  BY <5>1, <5>2, FS_Subset
      <4>3. Cardinality(1..(n + 1)) <= Cardinality(S)
        BY <4>1, <4>2, FS_Surjection
      <4>4. Cardinality(1..(n + 1)) = n + 1
        BY <3>1, FS_Interval
      <4>5. Cardinality(S) \in Nat
        BY <4>2, FS_CardinalityType
      <4> QED  BY <3>1, <4>2, <4>3, <4>4, <4>5, MaxEntriesAssumption
    <3> QED  BY <3>5, <3>6, <3>7
  <2> QED  BY <2>1, <2>2
<1> QED  BY <1>1, <1>3, <1>4, <1>5 DEF Shape

\* The initial state has no row.
LEMMA InitNumbered == Init => Numbered
<1> SUFFICES ASSUME Init
             PROVE  TypeOK /\ GaplessNumbering
  BY DEF Numbered
<1>1. TypeOK
  BY MaxEntriesAssumption DEF Init, TypeOK, NoRow, None, Chart
<1>2. \A y \in Years : Posted(y) = {}
  BY DEF Init, Posted, NoRow
<1>3. GaplessNumbering
  <2>1. \A y \in Years : Sequences(y) = {}
    BY <1>2 DEF Sequences
  <2>2. 0 \in 0..MaxEntries /\ 1..0 = {}
    BY MaxEntriesAssumption
  <2> QED  BY <1>2, <2>1, <2>2 DEF GaplessNumbering
<1> QED  BY <1>1, <1>3

\* Types and gapless numbering hold in every reachable state: no sequence of
\* edits, deletions, postings and reversals leaves a gap or a duplicate number
\* in a year (post_entry).
THEOREM NumberingHolds == Spec => [](TypeOK /\ GaplessNumbering)
<1>1. Init => Numbered
  BY InitNumbered
<1>2. Numbered /\ [Next]_vars => Numbered'
  BY TypePreserved, NumberingPreserved DEF Numbered
<1>3. Numbered => TypeOK /\ GaplessNumbering
  BY DEF Numbered
<1> QED  BY <1>1, <1>2, <1>3, PTL DEF Spec

-----------------------------------------------------------------------------
(* Posted rows *)

\* No step of the ledger changes or removes a posted row.
LEMMA StepKeepsPosted ==
  ASSUME TypeOK, [Next]_vars, NEW i \in Ids, entry[i].status = "VALIDATED"
  PROVE  entry'[i] = entry[i]
<1>1. Shape
  BY StepShape
<1> QED  BY <1>1 DEF Shape, DraftWrite, PostWrite, TypeOK

\* A posted entry never changes and never leaves (the promise that the
\* triggers of migration 0002 guard in the database as well).
THEOREM PostedImmutableHolds == Spec => PostedImmutable
<1>1. Numbered /\ [Next]_vars =>
        [\A i \in Ids : entry[i].status = "VALIDATED" => entry'[i] = entry[i]]_vars
  BY StepKeepsPosted DEF Numbered
<1>2. Numbered /\ [Next]_vars => Numbered'
  BY TypePreserved, NumberingPreserved DEF Numbered
<1> QED  BY <1>1, <1>2, InitNumbered, PTL DEF Spec, PostedImmutable

-----------------------------------------------------------------------------
(* Drafts and locked years *)

LEMMA NoDraftPreserved ==
  ASSUME TypeOK, NoDraftOutsideOpenYear, [Next]_vars
  PROVE  NoDraftOutsideOpenYear'
<1>1. Shape
  BY StepShape
<1>2. CASE /\ UNCHANGED <<entry, lastId>>
           /\ \A y \in Years :
                yearStatus[y] = "OPEN" /\ yearStatus'[y] # "OPEN" => NoDraftIn(y)
  <2> SUFFICES ASSUME NEW i \in Drafts
               PROVE  yearStatus'[entry[i].year] = "OPEN"
    BY <1>2 DEF NoDraftOutsideOpenYear, Drafts
  <2>1. entry[i].year \in Years /\ yearStatus[entry[i].year] = "OPEN"
    BY DEF NoDraftOutsideOpenYear, Drafts, TypeOK, Row, NoRow
  <2> QED  BY <1>2, <2>1 DEF NoDraftIn
<1>3. ASSUME NEW i \in Ids, NEW r \in Row \cup {NoRow}, DraftWrite(i, r),
             yearStatus' = yearStatus
      PROVE  NoDraftOutsideOpenYear'
  BY <1>3 DEF DraftWrite, NoDraftOutsideOpenYear, Drafts, Writable, TypeOK
<1>4. ASSUME NEW i \in Ids, NEW r \in Row, NEW t \in Nat, PostWrite(i, r, t),
             yearStatus' = yearStatus
      PROVE  NoDraftOutsideOpenYear'
  <2>1. entry'[i].status = "VALIDATED"
    BY <1>4 DEF PostWrite, Validated, TypeOK, Row
  <2> QED
    BY <1>4, <2>1 DEF PostWrite, NoDraftOutsideOpenYear, Drafts, TypeOK
<1> QED  BY <1>1, <1>2, <1>3, <1>4 DEF Shape

\* A year that is READY_TO_CLOSE or CLOSED holds no draft.
THEOREM NoDraftOutsideOpenYearHolds == Spec => []NoDraftOutsideOpenYear
<1>1. Init => NoDraftOutsideOpenYear
  BY DEF Init, NoDraftOutsideOpenYear, Drafts, NoRow
<1>2. Numbered /\ NoDraftOutsideOpenYear /\ [Next]_vars => NoDraftOutsideOpenYear'
  BY NoDraftPreserved DEF Numbered
<1>3. Numbered /\ [Next]_vars => Numbered'
  BY TypePreserved, NumberingPreserved DEF Numbered
<1> QED  BY <1>1, <1>2, <1>3, InitNumbered, PTL DEF Spec

-----------------------------------------------------------------------------
(* Numbers and time *)

LEMMA ChronologyPreserved ==
  ASSUME Numbered, ChronologicalNumbers, [Next]_vars
  PROVE  ChronologicalNumbers'
<1>1. Shape /\ TypeOK
  BY StepShape DEF Numbered
<1> SUFFICES ASSUME NEW y \in Years
             PROVE  /\ \A j, k \in Posted(y)' :
                         entry'[j].seq < entry'[k].seq => entry'[j].stamp <= entry'[k].stamp
                    /\ \A k \in Posted(y)' : entry'[k].date <= entry'[k].stamp
  BY DEF ChronologicalNumbers
<1> DEFINE Goal ==
      /\ \A j, k \in Posted(y)' :
           entry'[j].seq < entry'[k].seq => entry'[j].stamp <= entry'[k].stamp
      /\ \A k \in Posted(y)' : entry'[k].date <= entry'[k].stamp
<1>2. ASSUME Posted(y)' = Posted(y),
             \A k \in Posted(y) : entry'[k] = entry[k]
      PROVE  Goal
  BY <1>2 DEF ChronologicalNumbers
<1>3. CASE UNCHANGED <<entry, lastId>>
  BY <1>2, <1>3 DEF Posted
<1>4. ASSUME NEW i \in Ids, NEW r \in Row \cup {NoRow}, DraftWrite(i, r)
      PROVE  Goal
  BY <1>1, <1>2, <1>4, DraftWriteKeepsPosted
<1>5. ASSUME NEW i \in Ids, NEW r \in Row, NEW t \in Nat, PostWrite(i, r, t)
      PROVE  Goal
  <2>1. CASE y # r.year
    BY <1>2, <1>5, <2>1, PostWriteAddsOne
  <2>2. CASE y = r.year
    <3> DEFINE n == LastSequence(y)
    <3>1. n \in Nat /\ Sequences(y) = 1..n
      BY LastSequenceBounds
    <3>2. /\ Posted(y)' = Posted(y) \cup {i}
          /\ \A k \in Posted(y) : entry'[k] = entry[k]
          /\ entry'[i].seq = n + 1 /\ entry'[i].stamp = t
          /\ entry'[i].date = r.date
      BY <1>5, <2>2, PostWriteAddsOne, ValidatedIsRow
    <3>3. r.date <= t /\ \A k \in Posted(y) : entry[k].stamp <= t
      BY <1>5, <2>2 DEF PostWrite, CanPost, ClockHolds
    <3> HIDE DEF n
    <3>4. \A k \in Posted(y) : entry[k].seq \in 1..n
      BY <3>1 DEF Sequences
    <3>5. \A k \in Posted(y) : ~ (n + 1 < entry[k].seq)
      BY <3>1, <3>4
    <3>6. \A j, k \in Posted(y)' :
            entry'[j].seq < entry'[k].seq => entry'[j].stamp <= entry'[k].stamp
      <4> SUFFICES ASSUME NEW j \in Posted(y)', NEW k \in Posted(y)',
                          entry'[j].seq < entry'[k].seq
                   PROVE  entry'[j].stamp <= entry'[k].stamp
        OBVIOUS
      <4>1. CASE j \in Posted(y) /\ k \in Posted(y)
        BY <3>2, <4>1 DEF ChronologicalNumbers
      <4>2. CASE j \in Posted(y) /\ k = i
        BY <3>2, <3>3, <4>2
      <4>3. CASE j = i /\ k \in Posted(y)
        BY <3>2, <3>5, <4>3
      <4>4. CASE j = i /\ k = i
        <5>1. entry'[i].seq = n + 1 /\ n + 1 \in Nat
          BY <3>1, <3>2
        <5> QED  BY <4>4, <5>1
      <4> QED  BY <3>2, <4>1, <4>2, <4>3, <4>4
    <3>7. \A k \in Posted(y)' : entry'[k].date <= entry'[k].stamp
      BY <3>2, <3>3 DEF ChronologicalNumbers
    <3> QED  BY <3>6, <3>7
  <2> QED  BY <2>1, <2>2
<1> QED  BY <1>1, <1>3, <1>4, <1>5 DEF Shape

\* Numbers follow validation time inside a year whatever the clock reads.
THEOREM ChronologicalNumbersHold == Spec => []ChronologicalNumbers
<1>1. Init => ChronologicalNumbers
  BY DEF Init, ChronologicalNumbers, Posted, NoRow
<1>2. Numbered /\ ChronologicalNumbers /\ [Next]_vars => ChronologicalNumbers'
  BY ChronologyPreserved
<1>3. Numbered /\ [Next]_vars => Numbered'
  BY TypePreserved, NumberingPreserved DEF Numbered
<1> QED  BY <1>1, <1>2, <1>3, InitNumbered, PTL DEF Spec

-----------------------------------------------------------------------------
(* The links: reversals and bank movements *)

\* Row r is the reversal of entry k, which had none.
MirrorOf(r, k) ==
  /\ entry[k].status = "VALIDATED" /\ entry[k].reversalOf = None
  /\ ~ Reversed(k)
  /\ r.reversalOf = k
  /\ r.year = entry[k].year /\ r.journal = entry[k].journal
  /\ r.lines = Opposite(entry[k].lines)

\* The movements of settled, not matched before, are matched to row i.
Settles(i, r, settled) ==
  /\ \A x, z \in settled : x = z
  /\ \A x \in settled : bankMatch[x] = None /\ SameMovement(x, r)
  /\ bankMatch' = [x \in BankTransactions |-> IF x \in settled THEN i ELSE bankMatch[x]]

\* What a step does to the links: a row that is not posted has none, a posting
\* adds a row without, or the mirror of an entry no movement is matched to.
LinkShape ==
  \/ UNCHANGED <<entry, bankMatch>>
  \/ /\ UNCHANGED bankMatch
     /\ \E i \in Ids, r \in Row \cup {NoRow} :
          DraftWrite(i, r) /\ (r # NoRow => r.reversalOf = None)
  \/ \E i \in Ids, r \in Row, t \in Nat, settled \in SUBSET BankTransactions :
       PostWrite(i, r, t) /\ r.reversalOf = None /\ Settles(i, r, settled)
  \/ \E k \in Ids, i \in Ids, r \in Row, t \in Nat :
       PostWrite(i, r, t) /\ MirrorOf(r, k) /\ bankMatch' = Unmatched(k)
  \/ /\ UNCHANGED entry
     /\ \E x \in BankTransactions : Unmatch(x) \/ \E i \in Ids : Match(x, i)

Linked == Numbered /\ ReversalExact /\ MatchedEntryStands

-----------------------------------------------------------------------------
(* Every step has that shape *)

LEMMA SettlesNothing ==
  ASSUME TypeOK, UNCHANGED bankMatch, NEW i, NEW r
  PROVE  Settles(i, r, {})
  BY DEF Settles, TypeOK

\* A draft is no reversal.
LEMMA DraftsUnlinked ==
  ASSUME Linked, NEW i \in Ids, entry[i].status = "DRAFT"
  PROVE  entry[i] \in Row /\ entry[i].reversalOf = None
  BY DEF Linked, Numbered, TypeOK, NoRow, ReversalExact

\* Reversing, by itself or by cancelling an operation, posts the mirror.
LEMMA PostReversalLinks ==
  ASSUME TypeOK, NEW i \in Ids, NEW y \in Years, NEW d \in YearDates[y],
         NEW t \in Nat, PostReversal(i, d, t)
  PROVE  \E n \in Ids, r \in Row : PostWrite(n, r, t) /\ MirrorOf(r, i)
<1> DEFINE o == entry[i]
           m == Draft(o.year, d, o.journal, Opposite(o.lines))
           r == [m EXCEPT !.source = "REVERSAL", !.reversalOf = i]
<1>1. o \in Row
  BY DEF PostReversal, TypeOK, NoRow
<1>2. m \in Row
  <2>1. d \in Nat /\ o.year \in Years /\ o.journal \in Journals
    BY <1>1, CalendarAssumption DEF Row
  <2>2. Opposite(o.lines) \in [Accounts -> Int]
    BY <1>1, OppositeIsLines DEF Row
  <2> QED  BY <2>1, <2>2 DEF Draft, Row, Sources, None
<1>3. r \in Row
  BY <1>2, MarkedIsRow DEF Sources
<1>4. /\ r.reversalOf = i /\ r.year = o.year /\ r.journal = o.journal
      /\ r.lines = Opposite(o.lines)
  BY DEF Draft
<1>5. CreatePosted(r, t)
  BY DEF PostReversal
<1>6. MirrorOf(r, i)
  BY <1>4 DEF MirrorOf, PostReversal
<1> HIDE DEF r, m
<1> QED  BY <1>3, <1>5, <1>6, CreatePostedShape

LEMMA StepLinks ==
  ASSUME Linked, [Next]_vars
  PROVE  LinkShape
<1> USE MaxEntriesAssumption
<1>0. TypeOK
  BY DEF Linked, Numbered
<1>1. CASE DraftStep
  <2>1. ASSUME NEW y \in Years, NEW j \in Journals, NEW lines \in Inputs,
               NEW d \in YearDates[y], CreateDraft(y, d, j, lines)
        PROVE  LinkShape
    <3>1. Draft(y, d, j, lines) \in Row /\ Draft(y, d, j, lines).reversalOf = None
      BY DraftIsRow, InputsAssumption DEF Draft
    <3>2. NextId \in Ids /\ entry[NextId] = NoRow /\ lastId' = NextId /\ lastId < NextId
      BY <1>0, <2>1 DEF CreateDraft, TypeOK, NextId
    <3>3. DraftWrite(NextId, Draft(y, d, j, lines))
      BY <1>0, <2>1, <3>1, <3>2
         DEF CreateDraft, DraftWrite, Draft, NoRow, CheckInput, Ids, TypeOK
    <3> QED  BY <2>1, <3>1, <3>2, <3>3 DEF LinkShape, CreateDraft
  <2>2. ASSUME NEW y \in Years, NEW j \in Journals, NEW lines \in Inputs,
               NEW d \in YearDates[y], NEW i \in Ids, NEW v \in Versions,
               ReplaceDraft(i, v, y, d, j, lines)
        PROVE  LinkShape
    <3> DEFINE r == Replaced(entry[i], y, d, j, lines)
    <3>1. entry[i] \in Row /\ i <= lastId /\ entry[i].reversalOf = None
      BY <1>0, <2>2, DraftsUnlinked DEF ReplaceDraft, CheckDraft, TypeOK, NoRow, Ids
    <3>2. r \in Row /\ r.status = "DRAFT" /\ r.seq = 0 /\ r.year = y
      <4>1. entry[i].seq = 0 /\ entry[i].status = "DRAFT"
        BY <1>0, <2>2 DEF ReplaceDraft, CheckDraft, TypeOK
      <4> QED  BY <3>1, <4>1, ReplacedIsRow, InputsAssumption
    <3>3. r.reversalOf = None
      BY <3>1 DEF Replaced, Row
    <3>4. DraftWrite(i, r)
      BY <1>0, <2>2, <3>1, <3>2
         DEF ReplaceDraft, CheckDraft, DraftWrite, CheckInput, TypeOK
    <3> HIDE DEF r
    <3> QED  BY <2>2, <3>2, <3>3, <3>4 DEF LinkShape, ReplaceDraft
  <2>3. ASSUME NEW i \in Ids, NEW v \in Versions, DeleteDraft(i, v)
        PROVE  LinkShape
    <3>1. i <= lastId
      BY <1>0, <2>3 DEF DeleteDraft, CheckDraft, TypeOK, NoRow, Ids
    <3>2. DraftWrite(i, NoRow)
      BY <1>0, <2>3, <3>1 DEF DeleteDraft, CheckDraft, DraftWrite, NoRow, TypeOK
    <3> QED  BY <2>3, <3>2 DEF LinkShape, DeleteDraft
  <2> QED  BY <1>1, <2>1, <2>2, <2>3 DEF DraftStep
<1>2. CASE PostingStep
  <2>0. PICK t \in Clock :
          \/ \E i \in Ids, v \in Versions : PostEntry(i, v, t)
          \/ \E i \in Ids, y \in Years : \E d \in YearDates[y] :
               ReverseEntry(i, d, t) \/ CancelOperation(i, d, t)
          \/ \E r \in Requests, y \in Years, j \in Journals, lines \in Inputs :
             \E d \in YearDates[y] :
               \/ PostInventory(r, y, d, j, lines, t)
               \/ \E settled \in {{}} \cup {{x} : x \in BankTransactions} :
                    PostBusiness(r, y, d, j, lines, t, settled)
    BY <1>2 DEF PostingStep
  <2>t. t \in Nat
    BY CalendarAssumption
  <2>1. ASSUME NEW i \in Ids, NEW v \in Versions, PostEntry(i, v, t)
        PROVE  LinkShape
    <3>1. entry[i] \in Row /\ i <= lastId /\ entry[i].reversalOf = None
      BY <1>0, <2>1, DraftsUnlinked DEF PostEntry, CheckDraft, TypeOK, NoRow, Ids
    <3>2. PostWrite(i, entry[i], t)
      BY <1>0, <2>1, <2>t, <3>1 DEF PostEntry, CheckDraft, PostWrite, TypeOK
    <3>3. Settles(i, entry[i], {})
      BY <1>0, <2>1, SettlesNothing DEF PostEntry
    <3> QED  BY <2>t, <3>1, <3>2, <3>3 DEF LinkShape
  <2>2. ASSUME NEW i \in Ids, NEW y \in Years, NEW d \in YearDates[y],
               ReverseEntry(i, d, t) \/ CancelOperation(i, d, t)
        PROVE  LinkShape
    <3>1. \E n \in Ids, r \in Row : PostWrite(n, r, t) /\ MirrorOf(r, i)
      BY <1>0, <2>2, <2>t, PostReversalLinks DEF ReverseEntry, CancelOperation
    <3>2. bankMatch' = Unmatched(i)
      BY <1>0, <2>2 DEF ReverseEntry, CancelOperation, Unmatched, Matched, TypeOK
    <3> QED  BY <2>t, <3>1, <3>2 DEF LinkShape
  <2>3. ASSUME NEW q \in Requests, NEW y \in Years, NEW j \in Journals,
               NEW lines \in Inputs, NEW d \in YearDates[y],
               PostInventory(q, y, d, j, lines, t)
        PROVE  LinkShape
    <3> DEFINE r == [Draft(y, d, j, lines) EXCEPT !.source = "INVENTORY", !.request = q]
    <3>1. r \in Row /\ r.reversalOf = None
      <4>1. Draft(y, d, j, lines) \in Row
        BY DraftIsRow, InputsAssumption
      <4>2. r \in Row
        BY <4>1, MarkedIsRow DEF Sources
      <4> QED  BY <4>2 DEF Draft
    <3>2. CreatePosted(r, t) /\ UNCHANGED bankMatch
      BY <2>3 DEF PostInventory
    <3> HIDE DEF r
    <3>3. NextId \in Ids /\ PostWrite(NextId, r, t) /\ Settles(NextId, r, {})
      BY <1>0, <2>t, <3>1, <3>2, CreatePostedShape, SettlesNothing
    <3> QED  BY <2>t, <3>1, <3>3 DEF LinkShape
  <2>4. ASSUME NEW q \in Requests, NEW y \in Years, NEW j \in Journals,
               NEW lines \in Inputs, NEW d \in YearDates[y],
               NEW settled \in {{}} \cup {{x} : x \in BankTransactions},
               PostBusiness(q, y, d, j, lines, t, settled)
        PROVE  LinkShape
    <3> DEFINE r == [Draft(y, d, j, lines) EXCEPT !.source = "BUSINESS", !.request = q]
    <3>1. r \in Row /\ r.reversalOf = None
      <4>1. Draft(y, d, j, lines) \in Row
        BY DraftIsRow, InputsAssumption
      <4>2. r \in Row
        BY <4>1, MarkedIsRow DEF Sources
      <4> QED  BY <4>2 DEF Draft
    <3>2. CreatePosted(r, t) /\ Settles(NextId, r, settled)
      BY <2>4 DEF PostBusiness, Settles
    <3> HIDE DEF r
    <3>3. NextId \in Ids /\ PostWrite(NextId, r, t)
      BY <1>0, <2>t, <3>1, <3>2, CreatePostedShape
    <3> QED  BY <2>t, <3>1, <3>2, <3>3 DEF LinkShape
  <2> QED  BY <2>0, <2>1, <2>2, <2>3, <2>4
<1>3. CASE BankStep
  BY <1>3 DEF BankStep, Match, Unmatch, LinkShape
<1>4. CASE YearStep
  BY <1>4 DEF YearStep, MarkReady, CloseYear, ReopenYear, InvalidateReadyYears, LinkShape
<1>5. CASE \E c \in Switchable : SwitchActive(c)
  BY <1>5 DEF SwitchActive, LinkShape
<1>6. CASE UNCHANGED vars
  BY <1>6 DEF vars, LinkShape
<1> QED  BY <1>1, <1>2, <1>3, <1>4, <1>5, <1>6 DEF Next

-----------------------------------------------------------------------------
(* The writes of a step *)

\* Writing a row that is not posted moves no other row, nor a posted one.
LEMMA DraftWriteMoves ==
  ASSUME TypeOK, NEW i \in Ids, NEW r \in Row \cup {NoRow}, DraftWrite(i, r)
  PROVE  /\ entry'[i] = r /\ entry[i].status # "VALIDATED" /\ r.status # "VALIDATED"
         /\ \A k \in Ids \ {i} : entry'[k] = entry[k]
  BY DEF DraftWrite, TypeOK

\* A posting fills one row, after every posted row of its year.
LEMMA PostWriteMoves ==
  ASSUME Numbered, NEW i \in Ids, NEW r \in Row, NEW t \in Nat, PostWrite(i, r, t)
  PROVE  /\ entry[i].status # "VALIDATED" /\ entry'[i].status = "VALIDATED"
         /\ entry'[i].year = r.year /\ entry'[i].journal = r.journal
         /\ entry'[i].date = r.date /\ entry'[i].lines = r.lines
         /\ entry'[i].reversalOf = r.reversalOf
         /\ \A k \in Posted(r.year) : entry[k].seq < entry'[i].seq
         /\ \A k \in Ids \ {i} : entry'[k] = entry[k]
<1>1. entry'[i] = Validated(r, t) /\ entry[i].status # "VALIDATED"
      /\ \A k \in Ids \ {i} : entry'[k] = entry[k]
  BY DEF PostWrite, Numbered, TypeOK
<1>2. r.year \in Years
  BY DEF Row
<1>3. \A k \in Posted(r.year) : entry[k].seq < LastSequence(r.year) + 1
  <2>1. LastSequence(r.year) \in Nat /\ Sequences(r.year) = 1..LastSequence(r.year)
    BY <1>2, LastSequenceBounds
  <2> HIDE DEF LastSequence
  <2>2. \A k \in Posted(r.year) : entry[k].seq \in 1..LastSequence(r.year)
    BY <2>1 DEF Sequences
  <2> QED  BY <2>1, <2>2
<1> QED  BY <1>1, <1>3, ValidatedIsRow

-----------------------------------------------------------------------------
(* Reversals *)

\* As long as no row becomes a reversal or stops being posted, reversals stand.
LEMMA NoNewReversal ==
  ASSUME Linked, NEW i \in Ids, entry[i].status # "VALIDATED",
         entry'[i].status # "ABSENT" => entry'[i].reversalOf = None,
         \A k \in Ids \ {i} : entry'[k] = entry[k]
  PROVE  /\ ReversalExact'
         /\ \A k \in Ids : Reversed(k)' => Reversed(k)
<1>1. \A k \in Ids : entry'[k].status # "ABSENT" /\ entry'[k].reversalOf # None =>
        /\ k # i /\ entry'[k] = entry[k]
        /\ entry[k].reversalOf \in Ids
        /\ entry'[entry[k].reversalOf] = entry[entry[k].reversalOf]
  <2> SUFFICES ASSUME NEW k \in Ids, entry'[k].status # "ABSENT",
                      entry'[k].reversalOf # None
               PROVE  /\ k # i /\ entry'[k] = entry[k]
                      /\ entry[k].reversalOf \in Ids
                      /\ entry'[entry[k].reversalOf] = entry[entry[k].reversalOf]
    OBVIOUS
  <2>1. k # i /\ entry'[k] = entry[k]
    OBVIOUS
  <2>2. entry[k].reversalOf \in Ids
    BY <2>1 DEF Linked, Numbered, TypeOK, NoRow, Row
  <2>3. entry[entry[k].reversalOf].status = "VALIDATED"
    BY <2>1 DEF Linked, ReversalExact
  <2> QED  BY <2>1, <2>2, <2>3
<1>2. \A k \in Ids : Reversed(k)' => Reversed(k)
  BY <1>1 DEF Reversed, None, Ids
<1>3. ReversalExact'
  BY <1>1 DEF Linked, ReversalExact
<1> QED  BY <1>2, <1>3

LEMMA ReversalPreserved ==
  ASSUME Linked, [Next]_vars
  PROVE  ReversalExact'
<1>0. Numbered /\ TypeOK /\ ReversalExact
  BY DEF Linked, Numbered
<1>1. CASE UNCHANGED entry
  BY <1>0, <1>1 DEF ReversalExact
<1>2. ASSUME NEW i \in Ids, NEW r \in Row \cup {NoRow}, DraftWrite(i, r),
             r # NoRow => r.reversalOf = None
      PROVE  ReversalExact'
  <2>1. r.status # "ABSENT" => r.reversalOf = None
    BY <1>2 DEF NoRow
  <2> QED  BY <1>0, <1>2, <2>1, DraftWriteMoves, NoNewReversal
<1>3. ASSUME NEW i \in Ids, NEW r \in Row, NEW t \in Nat, PostWrite(i, r, t),
             r.reversalOf = None
      PROVE  ReversalExact'
  BY <1>0, <1>3, PostWriteMoves, NoNewReversal
<1>4. ASSUME NEW k \in Ids, NEW i \in Ids, NEW r \in Row, NEW t \in Nat,
             PostWrite(i, r, t), MirrorOf(r, k)
      PROVE  ReversalExact'
  <2>1. /\ entry[i].status # "VALIDATED" /\ entry'[i].status = "VALIDATED"
        /\ entry'[i].year = r.year /\ entry'[i].journal = r.journal
        /\ entry'[i].lines = r.lines /\ entry'[i].reversalOf = k
        /\ \A n \in Posted(r.year) : entry[n].seq < entry'[i].seq
        /\ \A n \in Ids \ {i} : entry'[n] = entry[n]
    BY <1>0, <1>4, PostWriteMoves DEF MirrorOf
  <2>2. /\ entry[k].status = "VALIDATED" /\ entry[k].reversalOf = None
        /\ k # i /\ entry'[k] = entry[k] /\ k \in Posted(r.year)
        /\ entry[k].lines \in [Accounts -> Int] /\ r.lines = Opposite(entry[k].lines)
        /\ r.year = entry[k].year /\ r.journal = entry[k].journal
    BY <1>0, <1>4, <2>1 DEF MirrorOf, Posted, TypeOK, Row, NoRow
  <2>3. \A a \in Accounts : entry'[k].lines[a] + entry'[i].lines[a] = 0
    BY <2>1, <2>2 DEF Opposite
  <2>4. ASSUME NEW n \in Ids, n # i, entry'[n].status # "ABSENT",
               entry'[n].reversalOf # None
        PROVE  /\ entry'[n] = entry[n] /\ entry[n].reversalOf # k
               /\ entry[n].status = "VALIDATED"
               /\ entry[n].reversalOf \in Ids
               /\ entry'[entry[n].reversalOf] = entry[entry[n].reversalOf]
    <3>1. entry'[n] = entry[n]
      BY <2>1, <2>4
    <3>2. entry[n].status = "VALIDATED" /\ entry[entry[n].reversalOf].status = "VALIDATED"
      BY <1>0, <2>4, <3>1 DEF ReversalExact
    <3>3. entry[n].reversalOf \in Ids
      BY <1>0, <2>4, <3>1 DEF TypeOK, NoRow, Row
    <3>4. entry[n].reversalOf # k
      BY <1>4, <3>2 DEF MirrorOf, Reversed
    <3> QED  BY <2>1, <3>1, <3>2, <3>3, <3>4
  <2>5. ASSUME NEW n \in Ids, entry'[n].status # "ABSENT", entry'[n].reversalOf # None
        PROVE  LET original == entry'[entry'[n].reversalOf] IN
               /\ entry'[n].status = "VALIDATED"
               /\ original.status = "VALIDATED"
               /\ original.reversalOf = None
               /\ original.year = entry'[n].year
               /\ original.journal = entry'[n].journal
               /\ original.seq < entry'[n].seq
               /\ \A a \in Accounts : original.lines[a] + entry'[n].lines[a] = 0
    <3>1. CASE n = i
      BY <2>1, <2>2, <2>3, <3>1
    <3>2. CASE n # i
      BY <1>0, <2>4, <2>5, <3>2 DEF ReversalExact
    <3> QED  BY <3>1, <3>2
  <2>6. ASSUME NEW m \in Ids, NEW n \in Ids, entry'[m].status # "ABSENT",
               entry'[n].status # "ABSENT", entry'[m].reversalOf = entry'[n].reversalOf,
               entry'[m].reversalOf # None
        PROVE  m = n
    <3>1. CASE m = i \/ n = i
      BY <2>1, <2>4, <2>6, <3>1
    <3>2. CASE m # i /\ n # i
      BY <1>0, <2>1, <2>6, <3>2 DEF ReversalExact
    <3> QED  BY <3>1, <3>2
  <2> QED  BY <2>5, <2>6 DEF ReversalExact
<1> QED  BY <1>1, <1>2, <1>3, <1>4, StepLinks DEF LinkShape, Match, Unmatch

-----------------------------------------------------------------------------
(* Bank matches *)

LEMMA MatchesPreserved ==
  ASSUME Linked, [Next]_vars
  PROVE  MatchedEntryStands'
<1>0. Numbered /\ TypeOK /\ ReversalExact /\ MatchedEntryStands
  BY DEF Linked, Numbered
<1>m. \A x \in BankTransactions : bankMatch[x] # None =>
        /\ bankMatch[x] \in Ids /\ entry[bankMatch[x]].status = "VALIDATED"
        /\ SameMovement(x, entry[bankMatch[x]]) /\ ~ Reversed(bankMatch[x])
  BY <1>0 DEF TypeOK, MatchedEntryStands
<1>u. \A x, z \in BankTransactions :
        bankMatch[x] # None /\ bankMatch[x] = bankMatch[z] => x = z
  BY <1>0 DEF MatchedEntryStands
<1>1. CASE UNCHANGED <<entry, bankMatch>>
  BY <1>0, <1>1 DEF MatchedEntryStands, SameMovement, Reversed
<1>2. ASSUME NEW i \in Ids, NEW r \in Row \cup {NoRow}, DraftWrite(i, r),
             r # NoRow => r.reversalOf = None, UNCHANGED bankMatch
      PROVE  MatchedEntryStands'
  <2>1. r.status # "ABSENT" => r.reversalOf = None
    BY <1>2 DEF NoRow
  <2>2. /\ entry'[i] = r /\ entry[i].status # "VALIDATED"
        /\ \A k \in Ids \ {i} : entry'[k] = entry[k]
    BY <1>0, <1>2, DraftWriteMoves
  <2>3. \A k \in Ids : Reversed(k)' => Reversed(k)
    BY <2>1, <2>2, NoNewReversal
  <2>4. \A x \in BankTransactions : bankMatch[x] # None =>
          entry'[bankMatch[x]] = entry[bankMatch[x]]
    BY <1>m, <2>2
  <2> QED  BY <1>2, <1>m, <1>u, <2>3, <2>4 DEF MatchedEntryStands, SameMovement
<1>3. ASSUME NEW i \in Ids, NEW r \in Row, NEW t \in Nat,
             NEW settled \in SUBSET BankTransactions,
             PostWrite(i, r, t), r.reversalOf = None, Settles(i, r, settled)
      PROVE  MatchedEntryStands'
  <2>1. /\ entry[i].status # "VALIDATED" /\ entry'[i].status = "VALIDATED"
        /\ entry'[i].date = r.date /\ entry'[i].lines = r.lines
        /\ entry'[i].reversalOf = None
        /\ \A k \in Ids \ {i} : entry'[k] = entry[k]
    BY <1>0, <1>3, PostWriteMoves
  <2>2. \A k \in Ids : Reversed(k)' => Reversed(k)
    BY <2>1, NoNewReversal
  <2>3. ~ Reversed(i)
    <3>1. \A k \in Ids : entry[k].status = "VALIDATED" /\ entry[k].reversalOf = i =>
            entry[i].status = "VALIDATED"
      BY <1>0 DEF ReversalExact, None, Ids
    <3> QED  BY <2>1, <3>1 DEF Reversed
  <2>4. \A x \in BankTransactions \ settled : bankMatch'[x] = bankMatch[x]
    BY <1>3 DEF Settles
  <2>5. \A x \in settled : bankMatch'[x] = i /\ SameMovement(x, r)
    BY <1>3 DEF Settles
  <2>6. \A x \in BankTransactions \ settled : bankMatch[x] # None =>
          bankMatch[x] # i /\ entry'[bankMatch[x]] = entry[bankMatch[x]]
    BY <1>m, <2>1
  <2>7. ASSUME NEW x \in BankTransactions, bankMatch'[x] # None
        PROVE  /\ entry'[bankMatch'[x]].status = "VALIDATED"
               /\ SameMovement(x, entry'[bankMatch'[x]])
               /\ bankMatch'[x] \in Ids
               /\ \A k \in Ids : bankMatch'[x] = k => ~ Reversed(k)'
    <3>1. CASE x \in settled
      <4>1. bankMatch'[x] = i /\ SameMovement(x, entry'[i])
        BY <2>1, <2>5, <3>1 DEF SameMovement
      <4> QED  BY <2>1, <2>2, <2>3, <4>1
    <3>2. CASE x \notin settled
      BY <1>m, <2>2, <2>4, <2>6, <2>7, <3>2
    <3> QED  BY <3>1, <3>2
  <2>8. ASSUME NEW x \in BankTransactions, NEW z \in BankTransactions,
               bankMatch'[x] # None, bankMatch'[x] = bankMatch'[z]
        PROVE  x = z
    <3>1. CASE x \in settled /\ z \in settled
      BY <1>3, <3>1 DEF Settles
    <3>2. CASE x \in settled /\ z \notin settled
      <4>1. bankMatch'[x] = i /\ bankMatch'[z] = bankMatch[z]
        BY <2>4, <2>5, <3>2
      <4> QED  BY <2>6, <2>8, <3>2, <4>1
    <3>3. CASE x \notin settled /\ z \in settled
      BY <2>4, <2>5, <2>6, <2>8, <3>3
    <3>4. CASE x \notin settled /\ z \notin settled
      BY <1>u, <2>4, <2>8, <3>4
    <3> QED  BY <3>1, <3>2, <3>3, <3>4
  <2>9. \A x \in BankTransactions : bankMatch'[x] # None => (~ Reversed(bankMatch[x]))'
    BY <2>7 DEF Reversed
  <2> QED  BY <2>7, <2>8, <2>9 DEF MatchedEntryStands, SameMovement
<1>4. ASSUME NEW k \in Ids, NEW i \in Ids, NEW r \in Row, NEW t \in Nat,
             PostWrite(i, r, t), MirrorOf(r, k), bankMatch' = Unmatched(k)
      PROVE  MatchedEntryStands'
  <2>1. /\ entry[i].status # "VALIDATED" /\ entry'[i].reversalOf = k
        /\ \A n \in Ids \ {i} : entry'[n] = entry[n]
    BY <1>0, <1>4, PostWriteMoves DEF MirrorOf
  <2>2. \A n \in Ids \ {k} : Reversed(n)' => Reversed(n)
    BY <2>1 DEF Reversed
  <2>3. \A x \in BankTransactions : bankMatch'[x] # None =>
          bankMatch'[x] = bankMatch[x] /\ bankMatch[x] # k
    BY <1>4 DEF Unmatched
  <2>4. \A x \in BankTransactions : bankMatch'[x] # None =>
          entry'[bankMatch'[x]] = entry[bankMatch[x]]
    BY <1>m, <2>1, <2>3
  <2> QED  BY <1>m, <1>u, <2>2, <2>3, <2>4 DEF MatchedEntryStands, SameMovement
<1>5. ASSUME UNCHANGED entry, NEW x \in BankTransactions,
             Unmatch(x) \/ \E i \in Ids : Match(x, i)
      PROVE  MatchedEntryStands'
  <2>1. \A k \in Ids : Reversed(k)' <=> Reversed(k)
    BY <1>5 DEF Reversed
  <2>2. CASE Unmatch(x)
    <3>1. \A z \in BankTransactions : bankMatch'[z] # None =>
            z # x /\ bankMatch'[z] = bankMatch[z]
      BY <1>0, <2>2 DEF Unmatch, TypeOK
    <3> QED  BY <1>5, <1>m, <1>u, <2>1, <3>1 DEF MatchedEntryStands, SameMovement
  <2>3. ASSUME NEW i \in Ids, Match(x, i)
        PROVE  MatchedEntryStands'
    <3>1. /\ bankMatch'[x] = i
          /\ \A z \in BankTransactions \ {x} :
               bankMatch'[z] = bankMatch[z] /\ bankMatch[z] # i
      BY <1>0, <2>3 DEF Match, Matched, TypeOK
    <3>2. entry[i].status = "VALIDATED" /\ SameMovement(x, entry[i]) /\ ~ Reversed(i)
      BY <2>3 DEF Match
    <3> QED  BY <1>5, <1>m, <1>u, <2>1, <3>1, <3>2 DEF MatchedEntryStands, SameMovement
  <2> QED  BY <1>5, <2>2, <2>3
<1> QED  BY <1>1, <1>2, <1>3, <1>4, <1>5, StepLinks DEF LinkShape

-----------------------------------------------------------------------------
(* Theorems *)

LEMMA LinkedHolds == Spec => []Linked
<1>1. Init => Linked
  <2> SUFFICES ASSUME Init PROVE ReversalExact /\ MatchedEntryStands
    BY InitNumbered DEF Linked
  <2> QED  BY DEF Init, NoRow, ReversalExact, MatchedEntryStands
<1>2. Linked /\ [Next]_vars => Linked'
  BY TypePreserved, NumberingPreserved, ReversalPreserved, MatchesPreserved
     DEF Linked, Numbered
<1> QED  BY <1>1, <1>2, PTL DEF Spec

\* reverse_entry, cancel_operation: an entry is reversed at most once, by its
\* exact mirror, which is never a draft.
THEOREM ReversalExactHolds == Spec => []ReversalExact
<1>1. Linked => ReversalExact
  BY DEF Linked
<1> QED  BY <1>1, LinkedHolds, PTL

\* A bank movement is never left matched to an entry that was reversed, nor two
\* movements to one entry (bank_match, cancel_operation, reverse_entry).
THEOREM MatchedEntryStandsHolds == Spec => []MatchedEntryStands
<1>1. Linked => MatchedEntryStands
  BY DEF Linked
<1> QED  BY <1>1, LinkedHolds, PTL

-----------------------------------------------------------------------------
(* The refinement of Journal *)

Posting == [date : Nat, lines : [Accounts -> Int], stamp : Nat, reverses : Nat]

\* What Journal sees of the ledger.
Books == [y \in Years |->
            [n \in 1..LastSequence(y) |-> PostingOf(entry[RowNumbered(y, n)])]]
OpenYears == {y \in Years : yearStatus[y] = "OPEN"}

-----------------------------------------------------------------------------
(* The journal and the rows *)

\* The row of a number is the one that has it.
LEMMA RowOfNumber ==
  Numbered => \A y \in Years : \A i \in Posted(y) :
    entry[i].seq \in 1..LastSequence(y) /\ RowNumbered(y, entry[i].seq) = i
<1> SUFFICES ASSUME Numbered, NEW y \in Years, NEW i \in Posted(y)
             PROVE  /\ entry[i].seq \in 1..LastSequence(y)
                    /\ RowNumbered(y, entry[i].seq) = i
  OBVIOUS
<1>1. entry[i].seq \in 1..LastSequence(y)
  BY LastSequenceBounds DEF Sequences
<1>2. \A j \in Posted(y) : entry[j].seq = entry[i].seq => j = i
  BY DEF Numbered, GaplessNumbering
<1>3. RowNumbered(y, entry[i].seq) = i
  BY <1>2 DEF RowNumbered
<1> QED  BY <1>1, <1>3

\* Every number of the year is the number of a row.
LEMMA NumberOfRow ==
  Numbered => \A y \in Years : \A n \in 1..LastSequence(y) :
    RowNumbered(y, n) \in Posted(y) /\ entry[RowNumbered(y, n)].seq = n
<1> SUFFICES ASSUME Numbered, NEW y \in Years, NEW n \in 1..LastSequence(y)
             PROVE  \E i \in Posted(y) : entry[i].seq = n
  BY DEF RowNumbered
<1> QED  BY LastSequenceBounds DEF Sequences

LEMMA SameInterval ==
  ASSUME NEW m \in Nat, NEW n \in Nat, 1..m = 1..n
  PROVE  m = n
<1>1. m # 0 => m \in 1..n
  OBVIOUS
<1>2. n # 0 => n \in 1..m
  OBVIOUS
<1> QED  BY <1>1, <1>2

\* The same in the next state.
LEMMA RowOfNumberNext ==
  (Numbered => \A y \in Years : \A i \in Posted(y) :
     entry[i].seq \in 1..LastSequence(y) /\ RowNumbered(y, entry[i].seq) = i)'
  BY RowOfNumber, PTL

LEMMA LastSequenceNext ==
  (Numbered => \A y \in Years :
     LastSequence(y) \in Nat /\ Sequences(y) = 1..LastSequence(y))'
<1>1. Numbered => \A y \in Years :
        LastSequence(y) \in Nat /\ Sequences(y) = 1..LastSequence(y)
  BY LastSequenceBounds
<1> QED  BY <1>1, PTL

\* The journal of a year is a sequence of postings.
LEMMA BooksTyped ==
  Linked => \A y \in Years :
    Books[y] \in Seq(Posting) /\ Len(Books[y]) = LastSequence(y)
<1> SUFFICES ASSUME Linked, NEW y \in Years
             PROVE  Books[y] \in Seq(Posting) /\ Len(Books[y]) = LastSequence(y)
  OBVIOUS
<1>1. LastSequence(y) \in Nat
  BY LastSequenceBounds DEF Linked
<1>2. ASSUME NEW n \in 1..LastSequence(y)
      PROVE  PostingOf(entry[RowNumbered(y, n)]) \in Posting
  <2> DEFINE r == entry[RowNumbered(y, n)]
  <2>1. r \in Row /\ r.status = "VALIDATED"
    BY NumberOfRow DEF Linked, Numbered, TypeOK, Posted, NoRow
  <2>2. r.reversalOf # None => entry[r.reversalOf] \in Row
    <3> SUFFICES ASSUME r.reversalOf # None
                 PROVE  entry[r.reversalOf] \in Row
      OBVIOUS
    <3>1. r.reversalOf \in Ids /\ RowNumbered(y, n) \in Ids
      BY <2>1, NumberOfRow DEF Row, Linked, Posted
    <3>2. entry[r.reversalOf].status = "VALIDATED"
      BY <2>1, <3>1 DEF Linked, ReversalExact
    <3> QED  BY <3>1, <3>2 DEF Linked, Numbered, TypeOK, NoRow
  <2> HIDE DEF r
  <2>3. PostingOf(r) \in Posting
    BY <2>1, <2>2 DEF PostingOf, Posting, Row
  <2> QED  BY <2>3 DEF r
<1>3. Books[y] = [n \in 1..LastSequence(y) |-> PostingOf(entry[RowNumbered(y, n)])]
  BY DEF Books
<1> HIDE DEF Books
<1> QED  BY <1>1, <1>2, <1>3

LEMMA BooksTypedNext ==
  (Linked => \A y \in Years :
     Books[y] \in Seq(Posting) /\ Len(Books[y]) = LastSequence(y))'
  BY BooksTyped, PTL

-----------------------------------------------------------------------------
(* The journal and the steps *)

\* A posting says the same after a step.
LEMMA PostingsKept ==
  ASSUME Linked, [Next]_vars, NEW i \in Ids, entry[i].status = "VALIDATED"
  PROVE  entry'[i] = entry[i] /\ PostingOf(entry[i])' = PostingOf(entry[i])
<1>1. entry'[i] = entry[i]
  BY StepKeepsPosted DEF Linked, Numbered
<1>2. entry[i].reversalOf # None =>
        entry'[entry[i].reversalOf] = entry[entry[i].reversalOf]
  <2> SUFFICES ASSUME entry[i].reversalOf # None
               PROVE  entry'[entry[i].reversalOf] = entry[entry[i].reversalOf]
    OBVIOUS
  <2>1. entry[i].reversalOf \in Ids
    BY DEF Linked, Numbered, TypeOK, NoRow, Row
  <2>2. entry[entry[i].reversalOf].status = "VALIDATED"
    BY DEF Linked, ReversalExact
  <2> QED  BY <2>1, <2>2, StepKeepsPosted DEF Linked, Numbered
<1> QED  BY <1>1, <1>2 DEF PostingOf

\* A step leaves every posting at its place.
LEMMA BooksKept ==
  ASSUME Linked, Numbered', [Next]_vars, NEW y \in Years,
         NEW n \in 1..LastSequence(y)
  PROVE  /\ n \in 1..LastSequence(y)'
         /\ RowNumbered(y, n)' = RowNumbered(y, n)
         /\ Books'[y][n] = Books[y][n]
<1>0. PICK i \in Posted(y) : i = RowNumbered(y, n) /\ entry[i].seq = n
  BY NumberOfRow DEF Linked
<1>1. i \in Ids /\ entry[i].status = "VALIDATED" /\ entry[i].year = y
  BY DEF Posted
<1>2. Books[y][n] = PostingOf(entry[i])
  BY <1>0 DEF Books
<1>3. entry'[i] = entry[i] /\ PostingOf(entry[i])' = PostingOf(entry[i])
  BY <1>1, PostingsKept
<1>4. i \in Posted(y)' /\ entry'[i].seq = n
  BY <1>0, <1>1, <1>3 DEF Posted
<1>5. n \in 1..LastSequence(y)' /\ RowNumbered(y, n)' = i
  <2>1. entry'[i].seq \in 1..LastSequence(y)' /\ RowNumbered(y, entry[i].seq)' = i
    BY <1>4, RowOfNumberNext
  <2> QED  BY <1>4, <2>1 DEF RowNumbered
<1>6. Books'[y][n] = PostingOf(entry[i])'
  BY <1>5 DEF Books
<1> QED  BY <1>0, <1>2, <1>3, <1>5, <1>6

\* A year no row is posted in keeps its journal.
LEMMA BookSame ==
  ASSUME Linked, Numbered', [Next]_vars, NEW y \in Years, Posted(y)' = Posted(y)
  PROVE  Books'[y] = Books[y]
<1>1. \A i \in Posted(y) : entry'[i] = entry[i]
  BY PostingsKept DEF Posted
<1>2. LastSequence(y)' = LastSequence(y)
  BY <1>1 DEF LastSequence, Sequences
<1>3. \A n \in 1..LastSequence(y) : Books'[y][n] = Books[y][n]
  BY BooksKept
<1>4. /\ Books[y] = [n \in 1..LastSequence(y) |-> Books[y][n]]
      /\ Books'[y] = [n \in 1..LastSequence(y)' |-> Books'[y][n]]
  BY DEF Books
<1> QED  BY <1>2, <1>3, <1>4

\* A posting is appended to the journal of its year, the others stay.
LEMMA BookGrows ==
  ASSUME Linked, Linked', [Next]_vars, NEW i \in Ids, NEW r \in Row, NEW t \in Nat,
         PostWrite(i, r, t)
  PROVE  /\ Books' = [Books EXCEPT ![r.year] = Append(@, PostingOf(entry[i])')]
         /\ Len(Books[r.year]) = LastSequence(r.year)
         /\ Len(Books'[r.year]) = LastSequence(r.year) + 1
         /\ Books'[r.year][LastSequence(r.year) + 1] = PostingOf(entry[i])'
<1>0. PICK y \in Years : y = r.year
  BY DEF Row
<1>n. PICK n \in Nat : n = LastSequence(y)
  BY LastSequenceBounds DEF Linked
<1> DEFINE p == PostingOf(entry[i])'
<1>1. Numbered /\ Numbered'
  BY DEF Linked
<1>2. /\ i \notin Posted(y) /\ Posted(y)' = Posted(y) \cup {i}
      /\ entry'[i].seq = n + 1
      /\ \A z \in Years \ {y} : Posted(z)' = Posted(z)
  <2>1. /\ i \notin Posted(y) /\ Posted(y)' = Posted(y) \cup {i}
        /\ entry'[i] = Validated(r, t)
    BY <1>0, <1>1, PostWriteAddsOne
  <2>2. \A z \in Years \ {y} : Posted(z)' = Posted(z)
    BY <1>0, <1>1, PostWriteAddsOne
  <2>3. Validated(r, t).seq = n + 1
    BY <1>0, <1>1, <1>n, ValidatedIsRow
  <2> QED  BY <2>1, <2>2, <2>3
<1>3. \A z \in Years \ {y} : Books'[z] = Books[z]
  BY <1>1, <1>2, BookSame
<1>4. LastSequence(y)' = n + 1
  <2>1. LastSequence(y)' \in Nat /\ Sequences(y)' = 1..LastSequence(y)'
    BY <1>1, LastSequenceNext
  <2>2. Sequences(y) = 1..n
    BY <1>1, <1>n, LastSequenceBounds
  <2>3. \A k \in Posted(y) : entry'[k] = entry[k]
    BY PostingsKept DEF Posted
  <2>4. Sequences(y)' = 1..n \cup {n + 1}
    BY <1>2, <2>2, <2>3 DEF Sequences
  <2>5. LastSequence(y)' \in Nat /\ 1..LastSequence(y)' = 1..(n + 1)
    <3>1. Sequences(y)' = 1..(n + 1)
      BY <2>4
    <3> QED  BY <2>1, <3>1
  <2> QED  BY <1>1, <2>5, SameInterval
<1>5. Books'[y][n + 1] = p
  <2>1. RowNumbered(y, entry[i].seq)' = i
    BY <1>1, <1>2, RowOfNumberNext
  <2>2. RowNumbered(y, n + 1)' = i
    BY <1>2, <2>1 DEF RowNumbered
  <2>3. n + 1 \in 1..LastSequence(y)'
    BY <1>1, <1>4
  <2> QED  BY <1>1, <2>2, <2>3 DEF Books
<1>6. \A m \in 1..n : Books'[y][m] = Books[y][m]
  BY <1>1, <1>n, BooksKept
<1>7. /\ Books[y] \in Seq(Posting) /\ Len(Books[y]) = n
      /\ Books'[y] \in Seq(Posting) /\ Len(Books'[y]) = n + 1
  <2>2. Books[y] \in Seq(Posting) /\ Len(Books[y]) = n
    BY <1>n, BooksTyped
  <2>3. Books'[y] \in Seq(Posting) /\ Len(Books'[y]) = LastSequence(y)'
    BY BooksTypedNext DEF Posting
  <2> QED  BY <1>4, <2>2, <2>3
<1>8. p \in Posting
  BY <1>1, <1>5, <1>7, ElementOfSeq
<1> HIDE DEF p
<1>9. Books'[y] = Append(Books[y], p)
  <2>1. /\ Append(Books[y], p) \in Seq(Posting)
        /\ Len(Append(Books[y], p)) = n + 1
        /\ Append(Books[y], p)[n + 1] = p
        /\ \A m \in 1..n : Append(Books[y], p)[m] = Books[y][m]
    BY <1>1, <1>7, <1>8, AppendProperties
  <2>2. \A m \in 1..(n + 1) : m \in 1..n \/ m = n + 1
    BY <1>1
  <2> QED  BY <1>5, <1>6, <1>7, <2>1, <2>2, SeqEqual
<1>10. Books = [z \in Years |-> Books[z]] /\ Books' = [z \in Years |-> Books'[z]]
  BY DEF Books
<1>11. Books' = [Books EXCEPT ![y] = Append(@, p)]
  BY <1>1, <1>3, <1>9, <1>10
<1> QED  BY <1>0, <1>n, <1>5, <1>7, <1>11 DEF p

-----------------------------------------------------------------------------
(* The refinement *)

\* Rows that are not posted do not show in the journals.
LEMMA BooksSame ==
  ASSUME Linked, Numbered', [Next]_vars, \A y \in Years : Posted(y)' = Posted(y)
  PROVE  Books' = Books
<1>1. \A y \in Years : Books'[y] = Books[y]
  BY BookSame
<1>2. Books = [y \in Years |-> Books[y]] /\ Books' = [y \in Years |-> Books'[y]]
  BY DEF Books
<1> QED  BY <1>1, <1>2

\* The lock of a year does not move in a step that posts.
LEMMA PostingKeepsLocks ==
  ASSUME Numbered, [Next]_vars, NEW i \in Ids, NEW r \in Row, NEW t \in Nat,
         PostWrite(i, r, t)
  PROVE  OpenYears' = OpenYears
<1>1. entry' # entry
  <2>1. entry[i].status # "VALIDATED" /\ entry'[i].status = "VALIDATED"
    BY PostWriteMoves
  <2> QED  BY <2>1
<1>2. yearStatus' = yearStatus
  BY <1>1, StepShape DEF Shape, Numbered
<1> QED  BY <1>2 DEF OpenYears

\* A posting may extend the journal of its year.
LEMMA PostingExtends ==
  ASSUME Linked, Linked', [Next]_vars, NEW i \in Ids, NEW r \in Row, NEW t \in Nat,
         PostWrite(i, r, t)
  PROVE  LET y == r.year
             p == PostingOf(entry[i])'
         IN  /\ y \in OpenYears /\ OpenYears' = OpenYears
             /\ \A n \in DOMAIN Books[y] : Books[y][n].stamp <= p.stamp
             /\ p.date <= p.stamp
             /\ p.lines = r.lines
<1>0. PICK y \in Years : y = r.year
  BY DEF Row
<1>1. Numbered /\ OpenYears' = OpenYears
  BY PostingKeepsLocks DEF Linked
<1>2. Writable(y) /\ r.date <= t /\ \A k \in Posted(y) : entry[k].stamp <= t
  BY <1>0 DEF PostWrite, CanPost, ClockHolds
<1>3. /\ entry'[i].stamp = t /\ entry'[i].date = r.date /\ entry'[i].lines = r.lines
  <2>1. entry'[i] = Validated(r, t)
    BY <1>0, <1>1, PostWriteAddsOne
  <2> QED  BY <1>1, <2>1, ValidatedIsRow
<1>4. /\ PostingOf(entry[i])'.stamp = t /\ PostingOf(entry[i])'.date = r.date
      /\ PostingOf(entry[i])'.lines = r.lines
  BY <1>3 DEF PostingOf
<1>5. \A n \in DOMAIN Books[y] : Books[y][n].stamp <= t
  <2> SUFFICES ASSUME NEW n \in DOMAIN Books[y]
               PROVE  Books[y][n].stamp <= t
    OBVIOUS
  <2>1. n \in 1..LastSequence(y)
        /\ Books[y][n].stamp = entry[RowNumbered(y, n)].stamp
    BY DEF Books, PostingOf
  <2> QED  BY <1>1, <1>2, <2>1, NumberOfRow
<1>6. y \in OpenYears
  BY <1>2 DEF Writable, OpenYears
<1> QED  BY <1>0, <1>1, <1>2, <1>4, <1>5, <1>6

LEMMA PostingPosts ==
  ASSUME Linked, Linked', [Next]_vars, NEW i \in Ids, NEW r \in Row, NEW t \in Nat,
         PostWrite(i, r, t), r.reversalOf = None
  PROVE  Book!Post(r.year)
<1> DEFINE p == PostingOf(entry[i])'
<1>1. r.year \in Years /\ r.lines \in [Accounts -> Int]
  BY DEF Row
<1>2. p.reverses = 0
  <2>1. entry'[i].reversalOf = None
    BY PostWriteMoves DEF Linked
  <2> QED  BY <2>1 DEF PostingOf
<1>3. /\ Books' = [Books EXCEPT ![r.year] = Append(@, p)]
      /\ Len(Books'[r.year]) = Len(Books[r.year]) + 1
      /\ Books'[r.year][Len(Books'[r.year])] = p
  BY BookGrows
<1>4. /\ r.year \in OpenYears /\ OpenYears' = OpenYears
      /\ \A n \in DOMAIN Books[r.year] : Books[r.year][n].stamp <= p.stamp
      /\ p.date <= p.stamp /\ p.lines = r.lines
  BY PostingExtends
<1> HIDE DEF p
<1> QED
  BY <1>1, <1>2, <1>3, <1>4
     DEF Book!Post, Book!Last, Book!Extends, Books, OpenYears

LEMMA PostingReverses ==
  ASSUME Linked, Linked', [Next]_vars, NEW k \in Ids, NEW i \in Ids, NEW r \in Row,
         NEW t \in Nat, PostWrite(i, r, t), MirrorOf(r, k)
  PROVE  Book!Reverse(r.year)
<1> DEFINE p == PostingOf(entry[i])'
<1>0. PICK y \in Years : y = r.year
  BY DEF Row
<1>k. /\ entry[k] \in Row /\ entry[k].lines \in [Accounts -> Int]
      /\ k \in Posted(y) /\ entry[k].reversalOf = None /\ k # None
      /\ entry[k].status = "VALIDATED"
      /\ r.lines = Opposite(entry[k].lines) /\ r.reversalOf = k
      /\ \A j \in Ids : entry[j].status = "VALIDATED" => entry[j].reversalOf # k
  <2>1. /\ entry[k].status = "VALIDATED" /\ entry[k].reversalOf = None /\ entry[k].year = y
        /\ r.lines = Opposite(entry[k].lines) /\ r.reversalOf = k
        /\ \A j \in Ids : entry[j].status = "VALIDATED" => entry[j].reversalOf # k
    BY <1>0 DEF MirrorOf, Reversed
  <2>2. entry[k] \in Row
    BY <2>1 DEF Linked, Numbered, TypeOK, NoRow
  <2>3. entry[k].lines \in [Accounts -> Int]
    BY <2>2 DEF Row
  <2>4. k \in Posted(y) /\ k # None
    BY <2>1 DEF Posted, None, Ids
  <2> QED  BY <2>1, <2>2, <2>3, <2>4
<1>n. PICK n \in 1..LastSequence(y) : n = entry[k].seq /\ RowNumbered(y, n) = k
  BY <1>0, <1>k, RowOfNumber DEF Linked
<1>1. DOMAIN Books[y] = 1..LastSequence(y) /\ Books[y][n] = PostingOf(entry[k])
      /\ LastSequence(y) \in Nat
  BY <1>0, <1>n, LastSequenceBounds DEF Books, Linked
<1>2. Books[y][n].reverses = 0 /\ Books[y][n].lines = entry[k].lines
  BY <1>k, <1>1 DEF PostingOf
<1>3. ASSUME NEW m \in DOMAIN Books[y]
      PROVE  Books[y][m].reverses # n
  <2>1. PICK j \in Posted(y) : j = RowNumbered(y, m)
    BY <1>0, <1>1, NumberOfRow DEF Linked
  <2>2. j \in Ids /\ entry[j].status = "VALIDATED" /\ entry[j].year = y
    BY DEF Posted
  <2>3. Books[y][m] = PostingOf(entry[j])
    BY <1>0, <1>1, <2>1 DEF Books
  <2>4. CASE entry[j].reversalOf = None
    BY <1>1, <2>3, <2>4 DEF PostingOf
  <2>5. CASE entry[j].reversalOf # None
    <3>1. entry[j].reversalOf \in Ids
      BY <2>2, <2>5 DEF Linked, Numbered, TypeOK, NoRow, Row
    <3>2. entry[j].reversalOf \in Posted(y)
      BY <2>2, <2>5, <3>1 DEF Linked, ReversalExact, Posted
    <3>3. entry[entry[j].reversalOf].seq # n
      BY <1>k, <1>n, <2>2, <3>2 DEF Linked, Numbered, GaplessNumbering
    <3> QED  BY <2>3, <2>5, <3>3 DEF PostingOf
  <2> QED  BY <2>4, <2>5
<1>4. p.reverses = n
  <2>1. entry'[i].reversalOf = k
    BY <1>k, PostWriteMoves DEF Linked
  <2>2. entry'[k] = entry[k]
    BY <1>k, PostingsKept
  <2> QED  BY <1>k, <1>n, <2>1, <2>2 DEF PostingOf
<1>5. /\ Books' = [Books EXCEPT ![y] = Append(@, p)]
      /\ Len(Books'[y]) = Len(Books[y]) + 1
      /\ Books'[y][Len(Books'[y])] = p
  BY <1>0, BookGrows
<1>6. /\ y \in OpenYears /\ OpenYears' = OpenYears
      /\ \A m \in DOMAIN Books[y] : Books[y][m].stamp <= p.stamp
      /\ p.date <= p.stamp /\ p.lines = Opposite(entry[k].lines)
  BY <1>0, <1>k, PostingExtends
<1>7. p.lines = [lines \in [Accounts -> Int] |-> Opposite(lines)][Books[y][n].lines]
  BY <1>2, <1>6, <1>k
<1> HIDE DEF p
<1>8. Book!Reverse(y)
  BY <1>1, <1>2, <1>3, <1>4, <1>5, <1>6, <1>7
     DEF Book!Reverse, Book!Last, Book!Extends, Books, OpenYears
<1> QED  BY <1>0, <1>8

\* Every step of the ledger posts to the journal of one year, or reverses in
\* it, or leaves the journals as they are.
LEMMA StepImplements ==
  ASSUME Linked, Linked', [Next]_vars
  PROVE  [Book!JournalNext]_<<Books, OpenYears>>
<1>0. Numbered /\ Numbered' /\ TypeOK
  BY DEF Linked, Numbered
<1>1. ASSUME \A y \in Years : Posted(y)' = Posted(y)
      PROVE  Book!Lock
  <2>1. Books' = Books
    BY <1>0, <1>1, BooksSame
  <2> QED  BY <2>1 DEF Book!Lock, Books
<1>2. CASE UNCHANGED entry
  <2>1. \A y \in Years : Posted(y)' = Posted(y)
    BY <1>2 DEF Posted
  <2> QED  BY <1>1, <2>1 DEF Book!JournalNext
<1>3. ASSUME NEW i \in Ids, NEW r \in Row \cup {NoRow}, DraftWrite(i, r)
      PROVE  Book!JournalNext
  <2>1. \A y \in Years : Posted(y)' = Posted(y)
    BY <1>0, <1>3, DraftWriteKeepsPosted
  <2> QED  BY <1>1, <2>1 DEF Book!JournalNext
<1>4. ASSUME NEW i \in Ids, NEW r \in Row, NEW t \in Nat, PostWrite(i, r, t),
             r.reversalOf = None
      PROVE  Book!JournalNext
  BY <1>4, PostingPosts DEF Book!JournalNext, Row
<1>5. ASSUME NEW k \in Ids, NEW i \in Ids, NEW r \in Row, NEW t \in Nat,
             PostWrite(i, r, t), MirrorOf(r, k)
      PROVE  Book!JournalNext
  BY <1>5, PostingReverses DEF Book!JournalNext, Row
<1>6. LinkShape
  BY StepLinks
<1> QED  BY <1>2, <1>3, <1>4, <1>5, <1>6 DEF LinkShape

LEMMA InitImplements == Init => Book!JournalInit
<1> SUFFICES ASSUME Init
             PROVE  Book!JournalInit
  OBVIOUS
<1>1. \A y \in Years : LastSequence(y) = 0
  <2>1. Numbered /\ \A y \in Years : Posted(y) = {}
    BY InitNumbered DEF Init, Posted, NoRow
  <2>2. \A y \in Years : Sequences(y) = {}
    BY <2>1 DEF Sequences
  <2>3. \A y \in Years : LastSequence(y) \in Nat /\ 1..LastSequence(y) = {}
    BY <2>1, <2>2, LastSequenceBounds
  <2> QED  BY <2>3
<1>2. \A y \in Years :
        [n \in 1..LastSequence(y) |-> PostingOf(entry[RowNumbered(y, n)])] = <<>>
  BY <1>1
<1> QED  BY <1>2 DEF Book!JournalInit, Init

\* The ledger implements the append-only journal of Journal: whatever drafts,
\* versions and tables it keeps, each year's posted rows in the order of their
\* numbers only ever grow at the end, while the year is OPEN, in the order of
\* the validation times, by new postings and by mirrors of postings not
\* reversed yet (post_entry, reverse_entry, close_year).
THEOREM ImplementsJournalHolds == Spec => ImplementsJournal
<1>1. Linked /\ Linked' /\ [Next]_vars => [Book!JournalNext]_<<Books, OpenYears>>
  BY StepImplements
<1> QED  BY <1>1, InitImplements, LinkedHolds, PTL
         DEF Spec, ImplementsJournal, Book!Spec, Book!jvars, Books, OpenYears

-----------------------------------------------------------------------------
(* The event journal *)

Actions == {"DRAFT_CREATED", "DRAFT_UPDATED", "DRAFT_DELETED", "ENTRY_VALIDATED"}
Event == [action : Actions, id : Ids, row : Row]

\* The first row of a new id is written, after the image of its draft.
Inserts(d, row, action) ==
  /\ NextId \in Ids /\ lastId' = NextId
  /\ d \in Row /\ row \in Row /\ action \in Actions \ {"DRAFT_DELETED"}
  /\ d = row \/ row.version = d.version + 1
  /\ entry' = [entry EXCEPT ![NextId] = row]
  /\ log' = log \cup {Image("DRAFT_CREATED", NextId, d), Image(action, NextId, row)}

\* A row moves to its next version.
Rewrites(i, row, action) ==
  /\ entry[i] \in Row /\ row \in Row /\ action \in Actions \ {"DRAFT_DELETED"}
  /\ row.version = entry[i].version + 1
  /\ entry' = [entry EXCEPT ![i] = row]
  /\ log' = log \cup {Image(action, i, row)}
  /\ UNCHANGED lastId

\* A row is deleted; its last image says so.
Deletes(i) ==
  /\ entry[i] \in Row
  /\ entry' = [entry EXCEPT ![i] = NoRow]
  /\ log' = log \cup {Image("DRAFT_DELETED", i, entry[i])}
  /\ UNCHANGED lastId

LogShape ==
  \/ UNCHANGED <<entry, lastId, log>>
  \/ \E d, row \in Row, a \in Actions : Inserts(d, row, a)
  \/ \E i \in Ids, row \in Row, a \in Actions : Rewrites(i, row, a)
  \/ \E i \in Ids : Deletes(i)

\* What the images of one id say of its row.
Recorded(i) ==
  /\ i > lastId => \A e \in log : e.id # i
  /\ entry[i] # NoRow =>
       /\ \E e \in log : e.id = i /\ e.row = entry[i]
       /\ \A e \in log : e.id = i => /\ e.row.version <= entry[i].version
                                     /\ e.action # "DRAFT_DELETED"
  /\ i <= lastId /\ entry[i] = NoRow =>
       \E e \in log : e.id = i /\ e.action = "DRAFT_DELETED"

Journaled ==
  /\ Numbered
  /\ log \subseteq Event
  /\ \A i \in Ids : Recorded(i)
  /\ VersionIdentifiesContents

-----------------------------------------------------------------------------
(* Every step has that shape *)

LEMMA CreatePostedInserts ==
  ASSUME Numbered, NEW r \in Row, NEW t \in Nat, CreatePosted(r, t), r.version = 1,
         Draft(r.year, r.date, r.journal, r.lines) \in Row
  PROVE  LogShape
<1> DEFINE d == Draft(r.year, r.date, r.journal, r.lines)
           row == Validated(r, t)
<1>1. d \in Row /\ row \in Row
  BY ValidatedIsRow
<1>2. d.version = 1 /\ row.version = 2
  BY DEF Draft, Validated, Row
<1>3. /\ NextId \in Ids /\ lastId' = NextId
      /\ entry' = [entry EXCEPT ![NextId] = row]
      /\ log' = log \cup {Image("DRAFT_CREATED", NextId, d),
                          Image("ENTRY_VALIDATED", NextId, row)}
  BY DEF CreatePosted
<1> HIDE DEF d, row
<1>4. Inserts(d, row, "ENTRY_VALIDATED")
  BY <1>1, <1>2, <1>3 DEF Inserts, Actions
<1> QED BY <1>1, <1>4 DEF LogShape, Actions

LEMMA StepLogs ==
  ASSUME Numbered, [Next]_vars
  PROVE  LogShape
<1> USE MaxEntriesAssumption
<1>0. TypeOK
  BY DEF Numbered
<1>1. ASSUME NEW y \in Years, NEW j \in Journals, NEW lines \in Inputs,
             NEW d \in YearDates[y], CreateDraft(y, d, j, lines)
      PROVE  LogShape
  <2> DEFINE r == Draft(y, d, j, lines)
  <2>1. r \in Row
    BY DraftIsRow, InputsAssumption
  <2>2. /\ NextId \in Ids /\ lastId' = NextId
        /\ entry' = [entry EXCEPT ![NextId] = r]
        /\ log' = log \cup {Image("DRAFT_CREATED", NextId, r)}
    BY <1>1 DEF CreateDraft
  <2> HIDE DEF r
  <2>3. Inserts(r, r, "DRAFT_CREATED")
    BY <2>1, <2>2 DEF Inserts, Actions
  <2> QED BY <2>1, <2>3 DEF LogShape, Actions
<1>2. ASSUME NEW y \in Years, NEW j \in Journals, NEW lines \in Inputs,
             NEW d \in YearDates[y], NEW i \in Ids, NEW v \in Versions,
             ReplaceDraft(i, v, y, d, j, lines)
      PROVE  LogShape
  <2> DEFINE r == Replaced(entry[i], y, d, j, lines)
  <2>1. entry[i] \in Row
    BY <1>0, <1>2 DEF ReplaceDraft, CheckDraft, TypeOK, NoRow
  <2>2. r \in Row
    BY <2>1, ReplacedIsRow, InputsAssumption
  <2>3. r.version = entry[i].version + 1
    BY <2>1 DEF Replaced, Row
  <2>4. /\ entry' = [entry EXCEPT ![i] = r] /\ UNCHANGED lastId
        /\ log' = log \cup {Image("DRAFT_UPDATED", i, r)}
    BY <1>0, <1>2 DEF ReplaceDraft, TypeOK
  <2> HIDE DEF r
  <2>5. Rewrites(i, r, "DRAFT_UPDATED")
    BY <2>1, <2>2, <2>3, <2>4 DEF Rewrites, Actions
  <2> QED BY <2>2, <2>5 DEF LogShape, Actions
<1>3. ASSUME NEW i \in Ids, NEW v \in Versions, DeleteDraft(i, v)
      PROVE  LogShape
  <2>1. Deletes(i)
    BY <1>0, <1>3 DEF DeleteDraft, CheckDraft, Deletes, TypeOK, NoRow
  <2> QED BY <2>1 DEF LogShape
<1>4. ASSUME NEW t \in Clock, NEW i \in Ids, NEW v \in Versions, PostEntry(i, v, t)
      PROVE  LogShape
  <2> DEFINE r == Validated(entry[i], t)
  <2>1. entry[i] \in Row /\ t \in Nat
    BY <1>0, <1>4, CalendarAssumption DEF PostEntry, CheckDraft, TypeOK, NoRow
  <2>2. r \in Row
    BY <2>1, ValidatedIsRow
  <2>3. r.version = entry[i].version + 1
    BY <2>1 DEF Validated, Row
  <2>4. /\ entry' = [entry EXCEPT ![i] = r] /\ UNCHANGED lastId
        /\ log' = log \cup {Image("ENTRY_VALIDATED", i, r)}
    BY <1>0, <1>4 DEF PostEntry, TypeOK
  <2> HIDE DEF r
  <2>5. Rewrites(i, r, "ENTRY_VALIDATED")
    BY <2>1, <2>2, <2>3, <2>4 DEF Rewrites, Actions
  <2> QED BY <2>2, <2>5 DEF LogShape, Actions
<1>5. ASSUME NEW t \in Clock, NEW i \in Ids, NEW y \in Years, NEW d \in YearDates[y],
             ReverseEntry(i, d, t) \/ CancelOperation(i, d, t)
      PROVE  LogShape
  <2> DEFINE o == entry[i]
             m == Draft(o.year, d, o.journal, Opposite(o.lines))
             r == [m EXCEPT !.source = "REVERSAL", !.reversalOf = i]
  <2>1. o \in Row
    BY <1>0, <1>5 DEF ReverseEntry, CancelOperation, PostReversal, TypeOK, NoRow
  <2>2. m \in Row
    <3>1. d \in Nat /\ o.year \in Years /\ o.journal \in Journals
      BY <2>1, CalendarAssumption DEF Row
    <3>2. Opposite(o.lines) \in [Accounts -> Int]
      BY <2>1, OppositeIsLines DEF Row
    <3> QED BY <3>1, <3>2 DEF Draft, Row, Sources, None
  <2>3. r \in Row
    BY <2>2, MarkedIsRow DEF Sources
  <2>4. CreatePosted(r, t) /\ t \in Nat
    BY <1>5, CalendarAssumption DEF ReverseEntry, CancelOperation, PostReversal
  <2>5. r.version = 1 /\ Draft(r.year, r.date, r.journal, r.lines) = m
    BY DEF Draft
  <2> HIDE DEF r, m
  <2> QED BY <2>2, <2>3, <2>4, <2>5, CreatePostedInserts
<1>6. ASSUME NEW t \in Clock, NEW q \in Requests, NEW y \in Years, NEW j \in Journals,
             NEW lines \in Inputs, NEW d \in YearDates[y],
             NEW settled \in {{}} \cup {{x} : x \in BankTransactions},
             \/ PostInventory(q, y, d, j, lines, t)
             \/ PostBusiness(q, y, d, j, lines, t, settled)
      PROVE  LogShape
  <2> DEFINE m == Draft(y, d, j, lines)
             inventory == [m EXCEPT !.source = "INVENTORY", !.request = q]
             business == [m EXCEPT !.source = "BUSINESS", !.request = q]
  <2>1. m \in Row
    BY DraftIsRow, InputsAssumption
  <2>2. inventory \in Row /\ business \in Row
    BY <2>1, MarkedIsRow DEF Sources
  <2>3. inventory.version = 1 /\ business.version = 1
    BY DEF Draft
  <2>4. /\ Draft(inventory.year, inventory.date, inventory.journal, inventory.lines) = m
        /\ Draft(business.year, business.date, business.journal, business.lines) = m
    BY DEF Draft
  <2>5. (CreatePosted(inventory, t) \/ CreatePosted(business, t)) /\ t \in Nat
    BY <1>6, CalendarAssumption DEF PostInventory, PostBusiness
  <2> HIDE DEF m, inventory, business
  <2> QED BY <2>1, <2>2, <2>3, <2>4, <2>5, CreatePostedInserts
<1>7. CASE BankStep
  BY <1>7 DEF BankStep, Match, Unmatch, LogShape
<1>8. CASE YearStep
  BY <1>8 DEF YearStep, MarkReady, CloseYear, ReopenYear, InvalidateReadyYears, LogShape
<1>9. CASE \E c \in Switchable : SwitchActive(c)
  BY <1>9 DEF SwitchActive, LogShape
<1>10. CASE UNCHANGED vars
  BY <1>10 DEF vars, LogShape
<1>11. CASE DraftStep
  BY <1>1, <1>2, <1>3, <1>11, Zenon DEF DraftStep
<1>12. CASE PostingStep
  <2>1. {} \in {{}} \cup {{x} : x \in BankTransactions}
    OBVIOUS
  <2>2. PICK t \in Clock :
          \/ \E i \in Ids, v \in Versions : PostEntry(i, v, t)
          \/ \E i \in Ids, y \in Years : \E d \in YearDates[y] :
               ReverseEntry(i, d, t) \/ CancelOperation(i, d, t)
          \/ \E q \in Requests, y \in Years, j \in Journals, lines \in Inputs :
             \E d \in YearDates[y] :
               \/ PostInventory(q, y, d, j, lines, t)
               \/ \E settled \in {{}} \cup {{x} : x \in BankTransactions} :
                    PostBusiness(q, y, d, j, lines, t, settled)
    BY <1>12, Zenon DEF PostingStep
  <2> QED  BY <1>4, <1>5, <1>6, <2>1, <2>2, Zenon
<1> QED  BY <1>7, <1>8, <1>9, <1>10, <1>11, <1>12 DEF Next

-----------------------------------------------------------------------------
(* Versions and images *)

\* The images of an id, when a step writes none for it.
LEMMA OthersRecorded ==
  ASSUME NEW i \in Ids, Recorded(i), entry'[i] = entry[i],
         \A e \in log' \ log : e.id # i, log \subseteq log',
         lastId' = lastId \/ i # lastId', lastId \in Nat, lastId' \in Nat,
         lastId' = lastId \/ lastId' = lastId + 1
  PROVE  Recorded(i)'
  BY DEF Recorded, Ids

LEMMA InsertsKeep ==
  ASSUME Journaled, NEW d \in Row, NEW row \in Row, NEW a \in Actions,
         Inserts(d, row, a)
  PROVE  /\ log' \subseteq Event
         /\ \A i \in Ids : Recorded(i)'
         /\ VersionIdentifiesContents'
<1> DEFINE e1 == Image("DRAFT_CREATED", NextId, d)
           e2 == Image(a, NextId, row)
<1>0. lastId \in Nat /\ NextId \in Ids /\ NextId = lastId + 1 /\ lastId' = NextId
      /\ TypeOK /\ entry[NextId] = NoRow
  BY MaxEntriesAssumption DEF Journaled, Numbered, TypeOK, Inserts, NextId
<1>1. /\ e1.action = "DRAFT_CREATED" /\ e1.id = NextId /\ e1.row = d
      /\ e2.action = a /\ e2.id = NextId /\ e2.row = row
      /\ e1 \in Event /\ e2 \in Event
  BY <1>0 DEF Image, Event, Actions
<1>2. /\ log' = log \cup {e1, e2} /\ a # "DRAFT_DELETED"
      /\ d = row \/ row.version = d.version + 1
      /\ entry'[NextId] = row
      /\ \A i \in Ids \ {NextId} : entry'[i] = entry[i]
  BY <1>0 DEF Inserts, TypeOK
<1> HIDE DEF e1, e2
<1>3. \A e \in log : e.id # NextId
  BY <1>0 DEF Journaled, Recorded
<1>4. d.version \in Nat /\ row.version \in Nat /\ row # NoRow
  BY DEF Row, NoRow
<1>5. ASSUME NEW i \in Ids PROVE Recorded(i)'
  <2>1. CASE i = NextId
    BY <1>0, <1>1, <1>2, <1>3, <1>4, <2>1 DEF Recorded
  <2>2. CASE i # NextId
    <3>1. Recorded(i) /\ entry'[i] = entry[i]
      BY <1>2, <2>2 DEF Journaled
    <3>2. \A e \in log' \ log : e.id # i
      BY <1>1, <1>2, <2>2
    <3>3. log \subseteq log' /\ i # lastId' /\ lastId' \in Nat /\ lastId' = lastId + 1
      BY <1>0, <1>2, <2>2
    <3> QED BY <1>0, <3>1, <3>2, <3>3, OthersRecorded
  <2> QED BY <2>1, <2>2
<1>6. ASSUME NEW e \in log', NEW f \in log', e.id = f.id, e.row.version = f.row.version
      PROVE  e.row = f.row
  <2>1. CASE e \in log /\ f \in log
    BY <1>6, <2>1 DEF Journaled, VersionIdentifiesContents
  <2>2. CASE e \in {e1, e2} /\ f \in {e1, e2}
    BY <1>1, <1>2, <1>4, <1>6, <2>2
  <2> QED BY <1>1, <1>2, <1>3, <1>6, <2>1, <2>2
<1>7. log' \subseteq Event
  BY <1>1, <1>2 DEF Journaled
<1> QED BY <1>5, <1>6, <1>7 DEF VersionIdentifiesContents

LEMMA RewritesKeep ==
  ASSUME Journaled, NEW i \in Ids, NEW row \in Row, NEW a \in Actions,
         Rewrites(i, row, a)
  PROVE  /\ log' \subseteq Event
         /\ \A k \in Ids : Recorded(k)'
         /\ VersionIdentifiesContents'
<1> DEFINE e1 == Image(a, i, row)
<1>0. /\ TypeOK /\ lastId \in Nat /\ lastId' = lastId /\ i <= lastId
      /\ entry[i] # NoRow /\ entry[i] \in Row /\ i \in Nat
  <2>1. TypeOK /\ lastId' = lastId /\ entry[i] \in Row
    BY DEF Journaled, Numbered, Rewrites
  <2>2. entry[i] # NoRow
    BY <2>1 DEF Row, NoRow
  <2> QED  BY <2>1, <2>2, MaxEntriesAssumption DEF TypeOK, Ids
<1>1. e1.action = a /\ e1.id = i /\ e1.row = row /\ e1 \in Event
  BY DEF Image, Event
<1>2. /\ log' = log \cup {e1} /\ a # "DRAFT_DELETED"
      /\ row.version = entry[i].version + 1
      /\ entry'[i] = row
      /\ \A k \in Ids \ {i} : entry'[k] = entry[k]
  BY <1>0 DEF Rewrites, TypeOK
<1> HIDE DEF e1
<1>3. /\ entry[i].version \in Nat /\ row # NoRow
      /\ \A e \in log : e.row.version \in Nat
  BY <1>0 DEF Row, NoRow, Journaled, Event
<1>4. \A e \in log : e.id = i =>
        e.row.version <= entry[i].version /\ e.action # "DRAFT_DELETED"
  BY <1>0 DEF Journaled, Recorded
<1>5. ASSUME NEW k \in Ids PROVE Recorded(k)'
  <2>1. CASE k = i
    <3>1. \E e \in log' : e.id = i /\ e.row = row
      BY <1>1, <1>2
    <3>2. \A e \in log' : e.id = i =>
            e.row.version <= row.version /\ e.action # "DRAFT_DELETED"
      <4> SUFFICES ASSUME NEW e \in log', e.id = i
                   PROVE  e.row.version <= row.version /\ e.action # "DRAFT_DELETED"
        OBVIOUS
      <4>1. CASE e \in log
        BY <1>2, <1>3, <1>4, <4>1
      <4>2. CASE e = e1
        BY <1>1, <1>2, <1>3, <4>2
      <4> QED BY <1>2, <4>1, <4>2
    <3> QED BY <1>0, <1>2, <1>3, <2>1, <3>1, <3>2 DEF Recorded
  <2>2. CASE k # i
    <3>1. Recorded(k) /\ entry'[k] = entry[k]
      BY <1>2, <2>2 DEF Journaled
    <3> QED BY <1>0, <1>1, <1>2, <2>2, <3>1, OthersRecorded
  <2> QED BY <2>1, <2>2
<1>6. ASSUME NEW e \in log', NEW f \in log', e.id = f.id, e.row.version = f.row.version
      PROVE  e.row = f.row
  <2>1. CASE e \in log /\ f \in log
    BY <1>6, <2>1 DEF Journaled, VersionIdentifiesContents
  <2>2. CASE e = e1 /\ f \in log
    BY <1>1, <1>2, <1>3, <1>4, <1>6, <2>2
  <2>3. CASE e \in log /\ f = e1
    BY <1>1, <1>2, <1>3, <1>4, <1>6, <2>3
  <2> QED BY <1>2, <2>1, <2>2, <2>3
<1>7. log' \subseteq Event
  BY <1>1, <1>2 DEF Journaled
<1> QED BY <1>5, <1>6, <1>7 DEF VersionIdentifiesContents

\* The image of a deletion carries the row of the last image.
LEMMA DeletesKeep ==
  ASSUME Journaled, NEW i \in Ids, Deletes(i)
  PROVE  /\ log' \subseteq Event
         /\ \A k \in Ids : Recorded(k)'
         /\ VersionIdentifiesContents'
<1> DEFINE e1 == Image("DRAFT_DELETED", i, entry[i])
<1>0. /\ TypeOK /\ lastId \in Nat /\ lastId' = lastId /\ i <= lastId
      /\ entry[i] # NoRow /\ entry[i] \in Row /\ i \in Nat
  BY MaxEntriesAssumption DEF Journaled, Numbered, TypeOK, Deletes, Row, NoRow, Ids
<1>1. e1.action = "DRAFT_DELETED" /\ e1.id = i /\ e1.row = entry[i] /\ e1 \in Event
  BY <1>0 DEF Image, Event, Actions
<1>2. /\ log' = log \cup {e1} /\ entry'[i] = NoRow
      /\ \A k \in Ids \ {i} : entry'[k] = entry[k]
  BY <1>0 DEF Deletes, TypeOK
<1> HIDE DEF e1
<1>3. PICK e0 \in log : e0.id = i /\ e0.row = entry[i]
  BY <1>0 DEF Journaled, Recorded
<1>4. ASSUME NEW k \in Ids PROVE Recorded(k)'
  <2>1. CASE k = i
    <3>1. \E e \in log' : e.id = i /\ e.action = "DRAFT_DELETED"
      BY <1>1, <1>2
    <3> QED BY <1>0, <1>2, <2>1, <3>1 DEF Recorded
  <2>2. CASE k # i
    <3>1. Recorded(k) /\ entry'[k] = entry[k]
      BY <1>2, <2>2 DEF Journaled
    <3> QED BY <1>0, <1>1, <1>2, <2>2, <3>1, OthersRecorded
  <2> QED BY <2>1, <2>2
<1>5. ASSUME NEW e \in log', NEW f \in log', e.id = f.id, e.row.version = f.row.version
      PROVE  e.row = f.row
  <2>1. \A g, h \in log : g.id = h.id /\ g.row.version = h.row.version => g.row = h.row
    BY DEF Journaled, VersionIdentifiesContents
  <2> QED BY <1>1, <1>2, <1>3, <1>5, <2>1
<1>6. log' \subseteq Event
  BY <1>1, <1>2 DEF Journaled
<1> QED BY <1>4, <1>5, <1>6 DEF VersionIdentifiesContents

LEMMA JournaledPreserved ==
  ASSUME Journaled, [Next]_vars
  PROVE  Journaled'
<1>1. Numbered /\ Numbered'
  BY TypePreserved, NumberingPreserved DEF Journaled, Numbered
<1>2. CASE UNCHANGED <<entry, lastId, log>>
  BY <1>1, <1>2 DEF Journaled, Recorded, VersionIdentifiesContents
<1>3. CASE ~ UNCHANGED <<entry, lastId, log>>
  <2>1. /\ log' \subseteq Event
        /\ \A k \in Ids : Recorded(k)'
        /\ VersionIdentifiesContents'
    BY <1>1, <1>3, StepLogs, InsertsKeep, RewritesKeep, DeletesKeep DEF LogShape
  <2> QED BY <1>1, <2>1 DEF Journaled
<1> QED BY <1>2, <1>3

LEMMA JournaledHolds == Spec => []Journaled
<1>1. Init => Journaled
  <2> SUFFICES ASSUME Init PROVE Journaled
    OBVIOUS
  <2>1. Numbered /\ log = {} /\ lastId = 0 /\ \A i \in Ids : entry[i] = NoRow
    BY InitNumbered DEF Init
  <2>2. \A i \in Ids : ~ (i <= 0)
    BY MaxEntriesAssumption DEF Ids
  <2> QED BY <2>1, <2>2 DEF Journaled, Recorded, VersionIdentifiesContents
<1>2. Journaled /\ [Next]_vars => Journaled'
  BY JournaledPreserved
<1> QED BY <1>1, <1>2, PTL DEF Spec

-----------------------------------------------------------------------------
(* Theorems *)

\* What a client saw at a version is what the row holds at that version
\* (check_draft, the AUTOINCREMENT ids, post_entry).
THEOREM VersionIdentifiesContentsHolds == Spec => []VersionIdentifiesContents
<1>1. Journaled => VersionIdentifiesContents
  BY DEF Journaled
<1> QED BY <1>1, JournaledHolds, PTL

\* The images of the journal reconstruct the table, and tell what was deleted
\* (ledger_event).
THEOREM LogReconstructsTableHolds == Spec => []LogReconstructsTable
<1>1. Journaled => LogReconstructsTable
  <2> SUFFICES ASSUME Journaled, NEW i \in 1..lastId
               PROVE  /\ entry[i] # NoRow =>
                           /\ \E e \in log : e.id = i /\ e.row = entry[i]
                           /\ \A e \in log : e.id = i =>
                                /\ e.row.version <= entry[i].version
                                /\ e.action # "DRAFT_DELETED"
                      /\ entry[i] = NoRow =>
                           \E e \in log : e.id = i /\ e.action = "DRAFT_DELETED"
    BY DEF LogReconstructsTable
  <2>1. i \in Ids /\ i <= lastId
    BY MaxEntriesAssumption DEF Journaled, Numbered, TypeOK, Ids
  <2> QED BY <2>1 DEF Journaled, Recorded
<1> QED BY <1>1, JournaledHolds, PTL
=============================================================================
