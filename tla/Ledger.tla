------------------------------- MODULE Ledger -------------------------------
(***************************************************************************)
(* The persistent accounting ledger of backend/app/services/ledger.py,     *)
(* with the services that write entries straight through it (inventory,    *)
(* business operations, bank matching) and the status changes of the       *)
(* fiscal years that lock it (closing.py, corrections.py).                 *)
(*                                                                         *)
(* Every API write runs in one serialised transaction (api/sessions.py:    *)
(* BEGIN IMMEDIATE, or an advisory lock on Postgres), so a handler is one  *)
(* atomic action and a refused request changes nothing.  What interleaves  *)
(* is requests: each carries an entry id and the version its client read   *)
(* some transactions ago, or the request id of a call whose answer may     *)
(* have been lost.                                                         *)
(*                                                                         *)
(* Data: an entry has at most one line per account, a signed amount (debit *)
(* positive, credit negative); days and timestamps share one scale.        *)
(***************************************************************************)
EXTENDS Integers, FiniteSetsExt

CONSTANTS
  Years,            \* the fiscal years of the activity
  YearDates,        \* the days of each of them
  Accounts, Journals,
  BankAccount,      \* the account of the bank the transactions belong to
  BankTransactions, \* imported bank movements
  Movement,         \* the day and signed amount of each
  Requests,         \* request ids of the idempotent commands
  Inputs,           \* the lines the clients enter
  Clock,            \* what utc_now() may read; it may go back
  MaxCents,         \* largest storable total (core/money.py)
  Switchable,       \* accounts and journals a run switches on and off
  MaxEntries,       \* bound: entries ever created
  MaxEdits          \* bound: version up to which a draft is still edited

NoRequest == "no request"

ASSUME MaxEntriesAssumption == MaxEntries \in Nat
ASSUME CalendarAssumption ==
  /\ YearDates \in [Years -> SUBSET Nat]
  /\ Clock \subseteq Nat
ASSUME InputsAssumption == Inputs \subseteq [Accounts -> Int]
ASSUME RequestAssumption == NoRequest \notin Requests
ASSUME SwitchableAssumption == Switchable \subseteq Accounts \cup Journals
ASSUME MovementAssumption ==
  /\ BankAccount \in Accounts
  /\ Movement \in [BankTransactions -> [date : Nat, amount : Int \ {0}]]

VARIABLES
  entry,       \* accounting_entry: the row of each id, or NoRow
  lastId,      \* the AUTOINCREMENT counter of that table
  log,         \* ledger_event: an image of the row at every change
  bankMatch,   \* bank_match: the entry each bank movement is matched to
  yearStatus,  \* fiscal_year.status
  active       \* the accounts and journals switched on

vars == <<entry, lastId, log, bankMatch, yearStatus, active>>

Ids == 1..MaxEntries
None == 0
Chart == Accounts \cup Journals
Sources == {"MANUAL", "INVENTORY", "BUSINESS", "REVERSAL"}

NoRow == [status |-> "ABSENT"]

Row == [status : {"DRAFT", "VALIDATED"}, version : Nat \ {0},
        year : Years, date : Nat, journal : Journals,
        lines : [Accounts -> Int],
        seq : Nat, stamp : Nat,
        source : Sources, request : Requests \cup {NoRequest},
        reversalOf : Ids \cup {None}]

-----------------------------------------------------------------------------
(* Reading the table *)

Drafts == {i \in Ids : entry[i].status = "DRAFT"}
Posted(y) == {i \in Ids : entry[i].status = "VALIDATED" /\ entry[i].year = y}
Sequences(y) == {entry[i].seq : i \in Posted(y)}

\* Variant: the year is forgotten in the query.
LastSequenceOfAll(y) == Max({0} \cup UNION {Sequences(z) : z \in Years})

\* coalesce(max(sequence), 0)
LastSequence(y) == Max(Sequences(y) \cup {0})

\* Variant: compared with the first validation of the year, not the last.
ClockHoldsFirst(y, t) == Posted(y) = {} \/ \E i \in Posted(y) : entry[i].stamp <= t

\* validated_at may not precede the last validation of the year.
ClockHolds(y, t) == \A i \in Posted(y) : entry[i].stamp <= t

Reversed(i) == \E k \in Ids :
  entry[k].status = "VALIDATED" /\ entry[k].reversalOf = i

Matched(i) == \E x \in BankTransactions : bankMatch[x] = i

\* A BUSINESS or INVENTORY request is looked up before it is served.
Served(source, request) == \E i \in Ids :
  /\ entry[i].status # "ABSENT"
  /\ entry[i].source = source
  /\ entry[i].request = request

-----------------------------------------------------------------------------
(* The lines of an entry *)

AccountsOf(lines) == {a \in Accounts : lines[a] # 0}
Debit(lines) == SumFunctionOnSet(lines, {a \in Accounts : lines[a] > 0})
Credit(lines) == -SumFunctionOnSet(lines, {a \in Accounts : lines[a] < 0})
Opposite(lines) == [a \in Accounts |-> -lines[a]]

-----------------------------------------------------------------------------
(* Guards and rows shared by the handlers *)

\* Variant: only the closing locks a year.
WritableUntilClosed(y) == yearStatus[y] # "CLOSED"

\* get_year(writable=True)
Writable(y) == yearStatus[y] = "OPEN"

\* Variant: the target year of an edit is not looked at.
CheckInputAnyYear(y, d, j, lines) ==
  /\ d \in YearDates[y]
  /\ j \in active
  /\ AccountsOf(lines) \subseteq active

\* check_input: what a draft may hold.
CheckInput(y, d, j, lines) ==
  /\ Writable(y)
  /\ d \in YearDates[y]
  /\ j \in active
  /\ AccountsOf(lines) \subseteq active

\* A new row, as create_draft inserts it.
Draft(y, d, j, lines) ==
  [status |-> "DRAFT", version |-> 1, year |-> y, date |-> d, journal |-> j,
   lines |-> lines, seq |-> 0, stamp |-> 0, source |-> "MANUAL",
   request |-> NoRequest, reversalOf |-> None]

\* Variant: the version alone is compared.
CheckVersion(i, version) ==
  /\ entry[i].status # "ABSENT"
  /\ entry[i].version = version

\* check_draft: the version the client read is the current one.
CheckDraft(i, version) ==
  /\ entry[i].status = "DRAFT"
  /\ entry[i].version = version

\* post_entry: what refuses the posting of row r at time t.
CanPost(r, t) ==
  /\ Writable(r.year)
  /\ r.journal \in active
  /\ r.date \in YearDates[r.year]
  /\ r.date <= t
  /\ Cardinality(AccountsOf(r.lines)) >= 2
  /\ Debit(r.lines) = Credit(r.lines)
  /\ Debit(r.lines) <= MaxCents
  /\ AccountsOf(r.lines) \subseteq active
  /\ ClockHolds(r.year, t)

\* post_entry: the row once posted.
Validated(r, t) ==
  [r EXCEPT !.status = "VALIDATED", !.version = @ + 1,
            !.seq = LastSequence(r.year) + 1, !.stamp = t]

Image(action, i, row) == [action |-> action, id |-> i, row |-> row]

\* Variant: without AUTOINCREMENT SQLite takes the largest rowid in use plus one.
NextRowid == Max({0} \cup {i \in Ids : entry[i].status # "ABSENT"}) + 1

\* The id of the next row: AUTOINCREMENT never hands out a deleted id again.
NextId == lastId + 1

\* create_draft, the fields the service sets, and post_entry, in one
\* transaction: r is the draft with those fields.
CreatePosted(r, t) ==
  /\ NextId \in Ids
  /\ CheckInput(r.year, r.date, r.journal, r.lines)
  /\ CanPost(r, t)
  /\ entry' = [entry EXCEPT ![NextId] = Validated(r, t)]
  /\ lastId' = NextId
  /\ log' = log \cup
       {Image("DRAFT_CREATED", NextId, Draft(r.year, r.date, r.journal, r.lines)),
        Image("ENTRY_VALIDATED", NextId, Validated(r, t))}

\* Variant: an existing reversal is not looked up.
PostReversalAgain(i, d, t) ==
  LET original == entry[i] IN
  /\ original.status = "VALIDATED"
  /\ original.reversalOf = None
  /\ CreatePosted(
       [Draft(original.year, d, original.journal, Opposite(original.lines))
          EXCEPT !.source = "REVERSAL", !.reversalOf = i], t)

\* reverse_entry, after its check of the source type.
PostReversal(i, d, t) ==
  LET original == entry[i] IN
  /\ original.status = "VALIDATED"
  /\ original.reversalOf = None
  /\ ~ Reversed(i)
  /\ CreatePosted(
       [Draft(original.year, d, original.journal, Opposite(original.lines))
          EXCEPT !.source = "REVERSAL", !.reversalOf = i], t)

\* The line on the bank account carries the amount of movement x, that day.
SameMovement(x, r) ==
  /\ r.lines[BankAccount] = Movement[x].amount
  /\ r.date = Movement[x].date

-----------------------------------------------------------------------------
(* The entries, as a client edits them *)

Init ==
  /\ entry = [i \in Ids |-> NoRow]
  /\ lastId = 0
  /\ log = {}
  /\ bankMatch = [x \in BankTransactions |-> None]
  /\ yearStatus = [y \in Years |-> "OPEN"]
  /\ active = Chart

CreateDraft(y, d, j, lines) ==
  /\ NextId \in Ids
  /\ CheckInput(y, d, j, lines)
  /\ entry' = [entry EXCEPT ![NextId] = Draft(y, d, j, lines)]
  /\ lastId' = NextId
  /\ log' = log \cup {Image("DRAFT_CREATED", NextId, Draft(y, d, j, lines))}
  /\ UNCHANGED <<bankMatch, yearStatus, active>>

\* Variant: the version does not move.
ReplacedSameVersion(r, y, d, j, lines) ==
  [r EXCEPT !.year = y, !.date = d, !.journal = j, !.lines = lines]

\* replace_draft: every field the client sends is replaced, the year included.
Replaced(r, y, d, j, lines) ==
  [r EXCEPT !.year = y, !.date = d, !.journal = j, !.lines = lines,
            !.version = @ + 1]

ReplaceDraft(i, version, y, d, j, lines) ==
  /\ CheckDraft(i, version)
  /\ version <= MaxEdits
  /\ Writable(entry[i].year)
  /\ CheckInput(y, d, j, lines)
  /\ entry' = [entry EXCEPT ![i] = Replaced(@, y, d, j, lines)]
  /\ log' = log \cup
       {Image("DRAFT_UPDATED", i, Replaced(entry[i], y, d, j, lines))}
  /\ UNCHANGED <<lastId, bankMatch, yearStatus, active>>

DeleteDraft(i, version) ==
  /\ CheckDraft(i, version)
  /\ Writable(entry[i].year)
  /\ entry' = [entry EXCEPT ![i] = NoRow]
  /\ log' = log \cup {Image("DRAFT_DELETED", i, entry[i])}
  /\ UNCHANGED <<lastId, bankMatch, yearStatus, active>>

\* The validate endpoint.  Validating a VALIDATED row again returns it.
PostEntry(i, version, t) ==
  /\ CheckDraft(i, version)
  /\ CanPost(entry[i], t)
  /\ entry' = [entry EXCEPT ![i] = Validated(@, t)]
  /\ log' = log \cup {Image("ENTRY_VALIDATED", i, Validated(entry[i], t))}
  /\ UNCHANGED <<lastId, bankMatch, yearStatus, active>>

\* The reverse endpoint.  The entry of an operation is reversed by cancelling it.
ReverseEntry(i, d, t) ==
  /\ entry[i].status # "ABSENT"
  /\ entry[i].source # "BUSINESS"
  /\ ~ Matched(i)
  /\ PostReversal(i, d, t)
  /\ UNCHANGED <<bankMatch, yearStatus, active>>

-----------------------------------------------------------------------------
(* Services that post through the ledger *)

PostInventory(request, y, d, j, lines, t) ==
  /\ ~ Served("INVENTORY", request)
  /\ CreatePosted([Draft(y, d, j, lines) EXCEPT !.source = "INVENTORY",
                                                !.request = request], t)
  /\ UNCHANGED <<bankMatch, yearStatus, active>>

\* The bank movement the call settles, if any, is matched in the same transaction.
PostBusiness(request, y, d, j, lines, t, settled) ==
  LET r == [Draft(y, d, j, lines) EXCEPT !.source = "BUSINESS",
                                         !.request = request] IN
  /\ ~ Served("BUSINESS", request)
  /\ CreatePosted(r, t)
  /\ \A x \in settled : bankMatch[x] = None /\ SameMovement(x, r)
  /\ bankMatch' = [x \in BankTransactions |->
                     IF x \in settled THEN NextId ELSE bankMatch[x]]
  /\ UNCHANGED <<yearStatus, active>>

\* Variant: the matches are left as they are.
StillMatched(i) == bankMatch

Unmatched(i) ==
  [x \in BankTransactions |-> IF bankMatch[x] = i THEN None ELSE bankMatch[x]]

\* Cancelling unmatches the movements of the operation, then reverses its
\* entry.  Settlements not yet cancelled may refuse it.
CancelOperation(i, d, t) ==
  /\ entry[i].status # "ABSENT"
  /\ entry[i].source = "BUSINESS"
  /\ entry[i].date <= d
  /\ PostReversal(i, d, t)
  /\ bankMatch' = Unmatched(i)
  /\ UNCHANGED <<yearStatus, active>>

Match(x, i) ==
  /\ entry[i].status = "VALIDATED"
  /\ Writable(entry[i].year)
  /\ ~ Reversed(i)
  /\ SameMovement(x, entry[i])
  /\ bankMatch[x] = None
  /\ ~ Matched(i)            \* entry_line_id is unique
  /\ bankMatch' = [bankMatch EXCEPT ![x] = i]
  /\ UNCHANGED <<entry, lastId, log, yearStatus, active>>

Unmatch(x) ==
  /\ bankMatch[x] # None
  /\ Writable(entry[bankMatch[x]].year)
  /\ bankMatch' = [bankMatch EXCEPT ![x] = None]
  /\ UNCHANGED <<entry, lastId, log, yearStatus, active>>

SwitchActive(c) ==
  /\ active' = IF c \in active THEN active \ {c} ELSE active \cup {c}
  /\ UNCHANGED <<entry, lastId, log, bankMatch, yearStatus>>

-----------------------------------------------------------------------------
(* The years.  The other refusals of the precheck (open classes, fiscal    *)
(* computation, FEC) only make these steps rarer.                          *)

NoDraftIn(y) == \A i \in Drafts : entry[i].year # y

MarkReady(y) ==
  /\ yearStatus[y] # "CLOSED"
  /\ NoDraftIn(y)
  /\ yearStatus' = [yearStatus EXCEPT ![y] = "READY_TO_CLOSE"]
  /\ UNCHANGED <<entry, lastId, log, bankMatch, active>>

CloseYear(y) ==
  /\ yearStatus[y] = "READY_TO_CLOSE"
  /\ NoDraftIn(y)
  /\ yearStatus' = [yearStatus EXCEPT ![y] = "CLOSED"]
  /\ UNCHANGED <<entry, lastId, log, bankMatch, active>>

ReopenYear(y) ==
  /\ yearStatus[y] = "CLOSED"
  /\ yearStatus' = [yearStatus EXCEPT ![y] = "OPEN"]
  /\ UNCHANGED <<entry, lastId, log, bankMatch, active>>

\* A structuring correction returns every READY_TO_CLOSE year to OPEN.
InvalidateReadyYears ==
  /\ yearStatus' = [y \in Years |-> IF yearStatus[y] = "READY_TO_CLOSE"
                                      THEN "OPEN" ELSE yearStatus[y]]
  /\ UNCHANGED <<entry, lastId, log, bankMatch, active>>

-----------------------------------------------------------------------------
Versions == 1..(MaxEdits + 1)

DraftStep ==
  \/ \E y \in Years, j \in Journals, lines \in Inputs : \E d \in YearDates[y] :
       \/ CreateDraft(y, d, j, lines)
       \/ \E i \in Ids, v \in Versions : ReplaceDraft(i, v, y, d, j, lines)
  \/ \E i \in Ids, v \in Versions : DeleteDraft(i, v)

PostingStep == \E t \in Clock :
  \/ \E i \in Ids, v \in Versions : PostEntry(i, v, t)
  \/ \E i \in Ids, y \in Years : \E d \in YearDates[y] :
       ReverseEntry(i, d, t) \/ CancelOperation(i, d, t)
  \/ \E r \in Requests, y \in Years, j \in Journals, lines \in Inputs :
     \E d \in YearDates[y] :
       \/ PostInventory(r, y, d, j, lines, t)
       \/ \E settled \in {{}} \cup {{x} : x \in BankTransactions} :
            PostBusiness(r, y, d, j, lines, t, settled)

BankStep == \E x \in BankTransactions :
  (\E i \in Ids : Match(x, i)) \/ Unmatch(x)

YearStep ==
  \/ \E y \in Years : MarkReady(y) \/ CloseYear(y) \/ ReopenYear(y)
  \/ InvalidateReadyYears

Next == \/ DraftStep \/ PostingStep \/ BankStep \/ YearStep
        \/ \E c \in Switchable : SwitchActive(c)

Spec == Init /\ [][Next]_vars

-----------------------------------------------------------------------------
(* Properties *)

\* The type invariant: every row of the table has the types of
\* models/ledger.py, ids not handed out yet have no row, and a row is
\* unnumbered exactly while it is a draft (CHECK constraint "validation").
TypeOK ==
  /\ entry \in [Ids -> Row \cup {NoRow}]
  /\ lastId \in 0..MaxEntries
  /\ \A i \in Ids : i > lastId => entry[i] = NoRow
  /\ \A i \in Ids : entry[i].status = "DRAFT" => entry[i].seq = 0
  /\ bankMatch \in [BankTransactions -> Ids \cup {None}]
  /\ yearStatus \in [Years -> {"OPEN", "READY_TO_CLOSE", "CLOSED"}]
  /\ active \subseteq Chart

\* The entry numbers of a year are 1, 2, ..., n with no gap and no duplicate,
\* whatever is deleted, moved to another year, refused or retried in between
\* (post_entry numbers from max(sequence); the FEC export relies on it).
GaplessNumbering == \A y \in Years :
  /\ \E n \in 0..MaxEntries : Sequences(y) = 1..n
  /\ \A i, j \in Posted(y) : entry[i].seq = entry[j].seq => i = j

\* Numbers follow validation time inside a year even when the clock of the
\* host goes back (CLOCK_REGRESSION), and nothing is dated after its posting.
ChronologicalNumbers == \A y \in Years :
  /\ \A i, j \in Posted(y) :
       entry[i].seq < entry[j].seq => entry[i].stamp <= entry[j].stamp
  /\ \A i \in Posted(y) : entry[i].date <= entry[i].stamp

\* A reversal is the exact mirror, in the same year and journal, of one
\* posted entry that is not a reversal; it is never a draft, and an entry has
\* at most one (reverse_entry: REVERSAL_CHAIN, ALREADY_REVERSED).
ReversalExact ==
  /\ \A i \in Ids :
       (entry[i].status # "ABSENT" /\ entry[i].reversalOf # None) =>
         LET original == entry[entry[i].reversalOf] IN
         /\ entry[i].status = "VALIDATED"
         /\ original.status = "VALIDATED"
         /\ original.reversalOf = None
         /\ original.year = entry[i].year
         /\ original.journal = entry[i].journal
         /\ original.seq < entry[i].seq
         /\ \A a \in Accounts : original.lines[a] + entry[i].lines[a] = 0
  /\ \A i, j \in Ids :
       /\ entry[i].status # "ABSENT"
       /\ entry[j].status # "ABSENT"
       /\ entry[i].reversalOf = entry[j].reversalOf
       /\ entry[i].reversalOf # None
       => i = j

\* A year that is READY_TO_CLOSE or CLOSED holds no draft: none was left by
\* the precheck and none can arrive, by creation or by an edit that moves it.
NoDraftOutsideOpenYear == \A i \in Drafts :
  yearStatus[entry[i].year] = "OPEN"

\* What a client saw at a version is what the row holds at that version: the
\* version check of an edit, a deletion or a validation cannot let through a
\* request about other contents, not even when an id of a deleted draft would
\* come back (AUTOINCREMENT) or when an entry is written and posted at once.
VersionIdentifiesContents == \A e, f \in log :
  (e.id = f.id /\ e.row.version = f.row.version) => e.row = f.row

\* The append-only event journal reconstructs the table: the image of highest
\* version is the present row, and a row that is gone left a DRAFT_DELETED.
LogReconstructsTable == \A i \in 1..lastId :
  /\ entry[i] # NoRow =>
       /\ \E e \in log : e.id = i /\ e.row = entry[i]
       /\ \A e \in log : e.id = i => /\ e.row.version <= entry[i].version
                                     /\ e.action # "DRAFT_DELETED"
  /\ entry[i] = NoRow => \E e \in log : e.id = i /\ e.action = "DRAFT_DELETED"

\* A bank movement is matched to a posted entry that carries its amount that
\* day and that is not reversed, and an entry to one movement at most:
\* cancelling an operation leaves no match behind.
MatchedEntryStands ==
  /\ \A x \in BankTransactions : bankMatch[x] # None =>
       /\ entry[bankMatch[x]].status = "VALIDATED"
       /\ SameMovement(x, entry[bankMatch[x]])
       /\ ~ Reversed(bankMatch[x])
  /\ \A x, z \in BankTransactions :
       bankMatch[x] # None /\ bankMatch[x] = bankMatch[z] => x = z

\* A posted row never changes and never leaves, whatever the order of edits,
\* deletions, retries and reopenings (triggers ledger_entry_update, _delete).
PostedImmutable == [][\A i \in Ids :
  entry[i].status = "VALIDATED" => entry'[i] = entry[i]]_vars

\* The bookkeeping of the year is an append-only journal that only grows while
\* the year is open: the promise the fiscal computation, the FEC and the
\* snapshots are built on.
RowNumbered(y, n) == CHOOSE i \in Posted(y) : entry[i].seq = n
PostingOf(r) ==
  [date |-> r.date, lines |-> r.lines, stamp |-> r.stamp,
   reverses |-> IF r.reversalOf = None THEN 0 ELSE entry[r.reversalOf].seq]
Book == INSTANCE Journal WITH
  posted <- [y \in Years |->
               [n \in 1..LastSequence(y) |-> PostingOf(entry[RowNumbered(y, n)])]],
  writable <- {y \in Years : yearStatus[y] = "OPEN"},
  Contents <- [Accounts -> Int],
  Mirror <- [lines \in [Accounts -> Int] |-> Opposite(lines)]
ImplementsJournal == Book!Spec
=============================================================================
