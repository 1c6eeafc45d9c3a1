# SoloLMNP: a TLA+ model of the accounting and fiscal core

SoloLMNP keeps the books of one furnished-rental activity (French LMNP regime): a double-entry
ledger, the business operations and imports that post into it, the register of assets and its
depreciation, the fiscal computation of each year with its carry-forward registers, the closing of
the years and what is taken out of them: the tax return, the accounting file, archives and backups.
The backend is FastAPI over SQLAlchemy (`src/backend/app`, SQLite or Postgres), the frontend React
(`src/frontend/src`). The modules here model the backend from its source; TLC checks them on small
instances, and the results that matter most are proved with TLAPS for every value of the constants.

## 1. Inventory

Three things make this system hard.

*Requests, not threads.* Every write request runs in **one serialised transaction**
(`api/sessions.py:30-53`: `BEGIN IMMEDIATE` on SQLite, an advisory lock on Postgres), so a handler is
atomic and a refused request leaves nothing behind. What interleaves is *requests*: each is built
from something its client read a while ago (a version, a preview, a request id), may arrive late,
twice or never, and finds a state other requests have moved.

*Derived state that outlives its inputs*: computations, registers, snapshots, calculated periods and
opening balances that were right when they were taken; two pieces of code that read the same books in
two ways and must agree (a preview and the import, the statements and the fiscal totals).

*What no transaction covers*: the files. Documents live in an object store, a SQLite installation is
one database file and one directory; uploads, restores and backups go through them step by step, and
each step may be refused or be the last one before the process dies.

| Component | State it keeps | Operations | Interacts with | What makes it correct | Module |
|---|---|---|---|---|---|
| Ledger (`services/ledger.py`, `api/ledger.py`) | `accounting_entry` + lines, `ledger_event`, accounts and journals, `fiscal_year.status` | create / replace / delete / validate a draft, reverse, switch accounts and journals | called by every posting service; locked by closing | numbers 1..n per year, posted rows immutable, exact reversals, versions name contents, events reconstruct the table | `Ledger`, `Journal` |
| Inventory entries (`services/inventory.py`) | entries of source INVENTORY, request id | post | ledger | a request posts once | `Ledger` |
| Operations and bank (`services/operations.py`) | `business_operation`, `bank_transaction`, `bank_match`, tenants, rents, loans | post, settle, cancel, match, unmatch, fund and pay loans, schedule rents | ledger | a match never outlives its entry; a settlement never exceeds its operation; principal between 0 and the loan; a month billed once | `Ledger`, `Operations`, `Rents` |
| CSV assistant and imports (`services/csv_assistant.py`, `operations.py`) | import batches (report under a key) | preview, commit, import of operations, movements, loan payments | operations | what was previewed as valid is accepted; a row posts once; a key tells one report | `Imports`, `LoanImports` |
| Assets and depreciation (`services/assets.py`) | assets, schedules, periods, batch reports | register, split, calculate, post one or a batch, reverse | ledger, structuring, closing | the plan is depreciated whole and once; the books follow the register | `Depreciation` |
| Structuring corrections (`structuring.py`, `corrections.py`) | properties, assets, components, tenants, banks | correct a field, invalidate what depends on it | fiscal, closing, depreciation | what a closed or posted year rests on is locked | `Depreciation`, `Imports`, `Rents`, `FiscalYears` |
| Fiscal engine (`domain/fiscal/engine.py`) | none (pure) | `apply_lmnp` | called by the computation | cap on depreciation, loss horizon, oldest first, no overdraft | `FiscalEngine` |
| Fiscal computation (`services/fiscal.py`) | `fiscal_computation`, `carry_forward_event`, two registers | compute, replay, invalidate | ledger, structure, closed years; closing | what is not frozen draws only on closed years; freshness | `FiscalYears` |
| Closing (`services/closing.py`) | status, `tax_return_snapshot` | precheck, mark ready, close, reopen | ledger, fiscal, return | a closed year keeps its proof; warnings were acknowledged | `FiscalYears`, `Outputs`, `ResultClosing` |
| Result closing (`services/result_closing.py`, `statements.py`) | entries CENTRALIZATION and APPROPRIATION | preview, confirm | ledger, statements | posted once, as previewed; the result neither lost nor doubled | `ResultClosing` |
| Opening (`opening.py`, `opening_posting.py`) | entries OPENING with the token of their preview | preview, generate, continuity check | ledger, previous year | one opening per year, equal to what its user saw | `Opening` |
| FEC, liasse, declaration, archive (`domain/filing`, `efi.py`, `archive.py`) | none (derived), frozen returns | compile, render, download | ledger, fiscal, closing | final copies agree; their books are those of the closing | `Outputs` |
| Output status, export gate | none (decision) | classify, refuse, explain | closing, API | nothing final without closing, identity and trust; a refusal names what is missing | `Outputs` |
| Documents and object store (`documents.py`, `object_store.py`) | rows and objects | upload, direct upload, complete, delete | store | a registered document can be read back | `Archive` |
| Dossier export and restore (`dossier_export.py`) | archives of an account | export, restore with way back | every table of the account, store | all of the archive or all of before; the files of others survive | `Archive` |
| Backup and restore (`backup.py`) | database file, documents directory, archives | create, verify, restore with rollback | everything | all of the archive or all of before; a safety archive first | `Backup`, `AtomicRestore` |
| Ownership, authentication (`core/ownership.py`, `auth.py`) | owner of the activity | claim, resolve | API | one owner | not modelled |
| Dashboard, spreadsheet, vintages, transfer, chart, errors | none or static | | | | not modelled |
| Frontend (`frontend/src/features`) | saved request ids, tokens, screen state | the requests above | API | a retry reuses its request id | as the requests of `ResultClosing`, `Opening` |

`PROJECT.json` lists each component with its status and, under `hazards`, what can go wrong in this
code at the line where it bites, with the properties that would catch it.

## 2. How the project is built

* One module per component, its state as VARIABLES, one action per handler, each definition mapped to
  the lines it stands for (`map` in `PROJECT.json`). Handlers under the write lock are one atomic
  action; `Archive` and `Backup`, whose handlers touch files, have one action per file operation.
* `Journal` and `AtomicRestore` are abstract specifications; `Ledger` and `Backup` implement them
  (`ImplementsJournal`, `FileRestoreIsAtomic`).
* `MC...` modules give the constants their small values. Components that share no state are checked
  together: a behaviour of `MCYearEnd`, `MCOffice`, `MCArchive`, `MCLedger` or `MCFiscalCycles` plays
  one *scene*, that is one component or one set of bounds, and the variables of the others stay at
  their initial values. The state space is the union of those of the scenes, not their product.
* `...Proofs` modules hold the theorems; `SumFacts` the lemmas on sums, ranks and budgets they share.
* A definition whose comment starts with "Variant:" is a plausible bug of the definition that follows
  it. Each property has one that breaks it (`mutants`); nothing else uses them.

Modules and what they stand on:

| Module | EXTENDS / instances | Checked by | Proofs |
|---|---|---|---|
| `Ledger` | `Journal` (refinement) | `MCLedger` | `LedgerProofs` |
| `FiscalYears` | `FiscalEngine` | `MCFiscalCycles` (instance), `MCFiscalYears` (findings) | `FiscalCyclesProofs` |
| `Opening` | | `MCFiscalCycles` (EXTENDS) | `FiscalCyclesProofs` |
| `Outputs` | | `MCYearEnd` (EXTENDS) | `OutputsProofs` |
| `ResultClosing` | | `MCYearEnd` (instance), `MCResultClosing` (finding) | `YearEndProofs` |
| `Depreciation` | | `MCYearEnd` (through `MCDepreciation`) | `DepreciationProofs`, `YearEndProofs` |
| `FiscalEngine` | | `MCYearEnd` (through `MCFiscalEngine`) | `YearEndProofs`, `FiscalCyclesProofs` |
| `Rents` | | `MCOffice` (EXTENDS) | `OfficeProofs` |
| `Operations` | | `MCOffice` (instance), `MCOperations` (finding) | `OfficeProofs` |
| `Imports`, `LoanImports` | | `MCOffice` (instances) | `OfficeProofs` |
| `Backup` | `AtomicRestore` (refinement) | `MCArchive` (EXTENDS) | `ArchiveProofs` |
| `Archive` | | `MCArchive` (instance) | `ArchiveProofs` |

What a module assumes of its constants is a named operator (`OpeningAssumption`, `RentsAssumption`,
`YearsAssumption`...), which the `MC` module ASSUMEs; `Ledger` has ASSUMEs of its own.

## 3. The modules

### `Ledger` and `Journal`

State: `entry` (the rows by id, `NoRow` when absent), `lastId` (the AUTOINCREMENT counter), `log`
(`ledger_event`), `bankMatch`, `yearStatus`, `active` (accounts and journals switched on). One action
per handler: `CreateDraft`, `ReplaceDraft`, `DeleteDraft`, `PostEntry`, `ReverseEntry` (API),
`PostInventory`, `PostBusiness`, `CancelOperation`, `Match`, `Unmatch` (services), `SwitchActive`,
and the status changes `MarkReady`, `CloseYear`, `ReopenYear`, `InvalidateReadyYears`. Guards are
collected as the code collects them: `CheckInput` (`check_input`), `CheckDraft` (`check_draft`),
`CanPost` (the refusals of `post_entry`), `PostReversal` (`reverse_entry`).

Abstractions: an entry has at most one line per account, as a signed amount; days and timestamps
share one scale; labels, references, justifications are left out; `BUSINESS` stands for every kind
of operation. An event keeps the image of the row the handler had in hand; the extra events that
carry only parameters (`INVENTORY_POSTED`, `BUSINESS_POSTED`...) are left out.

`Journal` is what the rest of the application relies on: per year an append-only sequence of
postings, position = number, growing only while the year is writable, in the order of validation
times, corrected only by a mirror that names what it reverses, at most once. `ImplementsJournal`
maps the rows of a year, by number, to that sequence.

### `FiscalEngine` and `FiscalYears`

`FiscalEngine` is `apply_lmnp` as pure operators: `Apply`, `Consume` (a recursive function, as the
loop of `_consume`), `Expiries`, `InsideHorizon`, `Remaining`. Income and other charges enter only
through their difference. `AppliesTheLaw` compares each result with the rules stated without the
algorithm: the cap, the horizon, the order, no overdraft.

`FiscalYears` has `status`, `ledger` (number of validated entries, standing for the SHA-256 of the
ledger, with the totals the engine reads), `structure` (a revision number), `live` (the computation
not invalidated of each year), `register` (one row per year of the two registers), `snapshots`
(generations). Actions: `PostEntry`, `CreateStructure`, `CorrectStructure`, `ComputeFiscal`,
`MarkReady`, `CloseYear`, `ReopenYear`. A register row stays after the invalidation of the
computation that wrote it, as in the code: what keeps it from being drawn on is `status = "CLOSED"`
in `StocksFor`.

### `ResultClosing`

State: `status`, `drafts`, `book` (validated entries as nets per account), `chart` (the result
accounts: absent, active, inactive), `sent` (confirmations prepared by clients). A confirmation is a
message: `PrepareCentralization` and `PrepareAppropriation` build it from the preview
(`ResultClosing.tsx` keeps its request id in the session storage and uses it again when the answer
was lost), `PostCentralization` and `PostAppropriation` deliver it, at any later time, any number of
times. `Reverse`, `ValidateDraft`, `SwitchAccount` are what can happen in between.

### `Depreciation`

State: `property` (its value and the value the user previewed before splitting it), `register` (the
assets and components), `schedule`, `periods` (calculated or posted, one per row and year),
`dotations` (validated entries in their order), the balance of the gross account, `computed` (what
the computation of each year recorded of the bases), `reports` (of batches, by idempotency key). The
actions are the handlers of `assets.py`: creation, preview and split of a dwelling, calculation of
the periods, posting of one or of a batch, reversal; and those of `structuring.py` that touch the
register, with the locks of `corrections.py`, while years are computed, closed and reopened.
A day is a unit of which `YearUnits` make a year. Disposals are left out: any of them blocks every
closing (`CESSION_HORS_MVP`).

`WholePlanDepreciated` and `DotationOnce` say that the dotations that stand add up to the plan and to
no more, `BooksFollowRegister` that the gross account and the register tell the same values,
`ReportStands` that the report stored under a key never changes.

### `Opening`

Years carry the net of each account. `Prepare` keeps the token of a preview with the result account
the client chose; `Generate` posts it, at any later time, any number of times; entries and drafts
arrive, accounts are switched off, years are closed, reopened and corrected in between.
`OpeningStands`: an opening is what its user saw and agrees with the previous year as long as that
year has not been reopened since, and the continuity check says so exactly when it does not.

### `Outputs`

One year: `book` (kinds of the entries), `assets` in the register, `siren`, `rules` and `attested`
(the version of `rules.yaml` and the one attested), `live`, `snapshots`, and two history variables:
`prepared` (what the user ticked) and `handed` (final files that left). `Compiled` is
`compile_package`, `Stamped` is `apply_output_status` (applied again at every reading), `Worksheet`
is `efi_worksheet` (the current snapshot, else a compilation), `LiassePosture` and `FecPosture` are
the postures, `Prerequisites` what a refusal names. Of a return are kept the facts its trust depends
on. The declaration that goes with the worksheet is rebuilt from the live tables at every reading and is
outside `SameReturn`. Two warnings and one error stand for all: one that comes from the books (`EFFECTIFS`), one from
the identity (`SIREN_MANQUANT`), one that is a gap between register and ledger
(`IMMOBILISATIONS_ECART`). A FEC without error: the ledger posts only balanced entries dated in
their year.

### `Operations`, `Imports`, `LoanImports`, `Rents`

`Operations`: `book`, the validated entries in their order, and `loanStart`. Of an entry are kept its
kind, day, the amount of its operation, what it moves on account 164 (credit positive), the row of the
schedule it pays, the operation it settles (`parent`) and the entry it reverses (`of`). Actions:
`CreateOperation`, `Settle`, `FundLoan`, `PayLoan`, `CancelOperation`, `EnterProperty`
(`property_entry` of `assets.py`), and from the ledger `PostManual` on account 164 and `ReverseEntry`.
The refusals keep their own way of reading the entries, which is where they differ: `Principal` sums
everything, reversals included; `Movements` leaves out an entry and its reversal; `NeverBooked` counts
both. Opening entries are left out: the code ignores them in both sums, and only its chronology counts
one, as a movement of the first day of its exercise.

`Imports` has the files of operations and of bank movements. A row is a piece, its contents, the
exercise its date falls in, whether its cells can be read and whether it says it was paid.
`Annotated` is what the assistant shows for each row, `Refusal` what the import answers for the file:
two pieces of code that check the same rows against the same books.
`PreviewedIsAccepted`: a file previewed as valid is accepted as a whole.

`LoanImports` has the schedules of one loan: rows sorted by the assistant, the valid ones posted one
after the other, each checked again against what the previous ones left; payments by hand,
cancellations, repaired files loaded again.

`Rents` has tenants and receipts. A receipt is an operation whose request id names property, tenant
and month; `ScheduleRents` asks for every month of the lease in the exercise and refuses the whole
when one of them exists with other contents. `CorrectTenant` has the lock of `structuring.py`: once a
receipt exists only the end of the lease moves.

### `Archive`

State: `rows` (names of the documents each account has registered), `objects` (names in the store),
`archives` (dossiers remembered), `lock` (the write transaction), `req` (the request each slot serves,
with its local variables and its program counter), and two history variables: `lost` (names that a crash or
a failed rollback left without object) and `withdrawn` (names that a refused request left without
object: a completion that discards the file, a deletion the store or the database refused). A handler is
a sequence of actions: `Begin` takes the lock or `GiveUp` after the time-out, `PutObject` /
`CheckUpload` / `EraseObject` talk to the store, `Commit` or `CommitFails` ends the transaction.
`ClientPut` is a client that uses its grant, `CompleteUpload` the announcement of a file by its name, by
any account, once or again: the code checks contents, size and print, and discards the file when they
differ, before the flush finds out whether the name is registered, and so does `CheckUpload`. A grant is
used once. A restore goes through
`ReadPayload`, `Gather`, `Remember` (the safety archive), `Snapshot`, `Protect` (the names of the other
accounts), `ReplaceRows`, `Sync`, `PutFile`*, `ListNames`, `PruneFile`*, and on a failure the same
three on the way back, then `UndoRows`. Every call of the store and every transaction may be refused,
and a store that answers with an error may have obeyed (`Unconfirmed`). `Crash` ends a request between any two steps, `Damage` spoils an archive.

### `Backup` and `AtomicRestore`

State: `db` (the names the database file registers), `docs` (the documents directory, or none),
`archives`, and the job under way with its program counter. `CopyDb` and `CopyDocs` make an archive,
`Snapshot`, `InstallDb`, `Stage`, `InstallDocs`, `PutBack`, `RollbackDb`, `RollbackDocs` are the steps
of `restore_backup`; every one of them may fail, in the rollback too, and the process may die between
any two. `AtomicRestore` has a content, a target and a status: a restore ends `restored` with the target,
`undone` with what was there, or `broken`, which is declared. The refinement takes the snapshot for the
content while files are being replaced: the concrete state is then between two contents, and the
theorem says that it always gets to one of them or says that it did not.

## 4. The runs

| Run | Scenes and instance | Distinct states | What it shows |
|---|---|---|---|
| `ledger` | *drafts*: 2 years, 2 entries, 1 edit, balanced and unbalanced inputs; *posting*: 4 entries, 1 bank movement, 1 request per kind, an account switched off, a clock of 3 readings | 513 068 | numbering, locked years, versions, event journal, exact reversals, matches; posted rows never change; refinement of `Journal` |
| `fiscal_cycles` | *opening*: 2 years, 3 entries, 1 reopening; *losses*: 3 years, horizon 1, 3 postings, 4 computations, 2 generations; *depreciation*: 2 years, 2 postings, 2 structuring changes, 3 computations | 1 389 787 | what a computation may draw on, what a closed year keeps and what an opening rests on, through closings and reopenings |
| `year_end` | *result* (4 entries, 3 confirmations, 2 symmetric request ids), *dwelling*, *parts*, *years* (depreciation over 2 years of 2 units), *engine* (last of 4 years, horizon 2, amounts up to 2), *outputs* (2 identities, 2 versions of the rules, 2 closings) | 911 508 | every entry confirmed at the end of a year is the one its user saw, once; the plan is depreciated whole and once; the law is applied; final files agree |
| `office` | *settlements* (5 entries on 3 days of 2 exercises, a loan of 2), *imports* (2 exercises, 1 bank, 2 account numbers, 2 imported operations), *loans* (3 payments, a loan of 2), *rents* (2 exercises of 2 months, 2 tenants) | 1 927 997 | settlements, principal and chronology under cancellations; previews agree with imports; a row or a month is posted once |
| `archive` | *dossiers*: 2 accounts, 2 requests at a time, 5 in all, 2 names, 2 refusals, 1 crash; *files*: 2 names, 5 steps, 3 failures, 1 crash | 583 921 | a registered document loses its file only to an accident or to a refused request that named it; restores are all or nothing, every request ends |
| `property_entry_redo` | 2 entries | violation | finding 1 |
| `ready_year_stuck` | 2 years | violation | finding 2 |
| `closed_on_stale_stocks` | 2 years | violation | finding 3 |
| `reversed_centralization` | 1 operation | violation | finding 4 |
| `closed_base_kept` | 2 years, 1 chair | violation | finding 5 |
| `restore_overlap` | 2 accounts, 1 name, no fault | violation | finding 6 |
| `completed_again` | 1 account, 1 name, 2 requests, no fault | violation | finding 7 |

**Why the bounds are enough.** Two entries reach: a draft deleted and its id not reused, a draft
moved into the other year, an entry and its reversal. Four entries reach: an operation, its
cancellation, an inventory entry and a reversal of it, with the clock going back between any two.
Three years with a horizon of one put a year inside the horizon, one at its boundary and one
outside; four computations let a reopened year be computed again after the year that used it. The third
year is not reopened there: no year draws on it.
Four entries and three confirmations reach: operation, centralization, its reversal, a second
centralization, and an appropriation with a retry of the first. Two units per year and lives of one to
three units give a first year cut short, a plan that crosses the closing and one that ends inside a
year. Two closings of `Outputs` with a reopening between them and two versions of the rules reach: a
return prepared on research rules, closed on attested ones, handed out, reopened and closed again.
Two exercises of `Opening`, one of them reopened, reach a late request on a preview that the
correction has outdated. Five entries of operations reach: a loan funded, paid twice, a payment
cancelled and replaced; an operation settled twice, one settlement cancelled and made again. Five
requests in two slots with two names reach: two uploads or completions, one of them repeated, an export
and its restore, with a deletion between them, and the two refusals it takes to fail on the way and again on the way back; three
failures of a file operation reach a failed install, a failed put-back and a failed rollback. Every
bound is a constant whose comment starts with "bound:".

**Fairness.** `Archive` assumes `WF_vars(Step(r))` for each request: a handler that has begun goes on.
The code justifies it: it waits for nothing but the write lock. On SQLite it waits 5 s at most, then
gives up with `DATABASE_BUSY` (`GiveUp`, a step too), and `RequestsEnd` is about that. On Postgres it
waits in the queue of the advisory lock, with no time-out; what the model says there is that every holder
gives the lock back. A crash ends the request as well. Under it
`RequestsEnd` holds: no refusal, crash or time-out leaves the lock held. The arrival of requests is not
assumed. Elsewhere none is assumed: every action is a command of a user, and nothing in the backend runs
by itself. What a user must *be able* to do is stated as a safety property instead
(`SentBackToComputation`, `EntryRedoable`).

**A restore alone.** In `archive` a restore of a dossier is the only request while it runs
(`Alone = TRUE`): a test of the repository restores one account beside another that is at rest.
`restore_overlap` takes that assumption away (finding 6).

**Deadlock** is checked in `ledger`. In the other runs the bounds on postings, requests or computations
can be used up, after which nothing can happen; hence `CHECK_DEADLOCK FALSE` there. That no request waits
for another for ever is `RequestsEnd`.

## 5. Findings

1. **The entry of a property cannot be redone with its loan** (`property_entry_redo`). The tutorial
   (`docs/TUTORIAL.md:123`) and the refusal of a second entry (`assets.py:530`) say to reverse it and do
   it again; `LOAN_ALREADY_BOOKED` (`assets.py:568-580`) then refuses the loan, because the reversed
   entry and its reversal are still validated lines on its account.
2. **A prepared year can get stuck** (`ready_year_stuck`). `docs/CLOSING_PROCESS.md` says the
   precheck sends the user back to the computation when it is missing. Reopening year N invalidates
   the computation of a later year that is `READY_TO_CLOSE` (`closing.py:221-232`) but leaves its
   status, and `compute_fiscal` refuses a year that is not `OPEN`.
3. **A year may be closed on stocks that have changed** (`closed_on_stale_stocks`). The same document
   says the precheck verifies the carry-forwards; it compares only the ledger fingerprint
   (`closing.py:70-77`), so a year computed before the previous one was closed is frozen without the
   stock that closing created.
4. **A reversed centralization counts as operations** (`reversed_centralization`). A comment
   (`domain/filing/liasse.py:79`) says operating totals and income statement both ignore the
   centralization; `_operating` (`fiscal.py:522`) leaves out the centralization but not its reversal.
   The FEC has the same filter (`domain/filing/fec.py:59`).
5. **A base that a closed computation keeps can be corrected** (`closed_base_kept`). The lock of
   `docs/DATA_MODEL.md:104-106` looks the base up by the label of the asset (`corrections.py:102`), and
   the label may be changed.
6. **A restore may delete the document of another account** (`restore_overlap`). The names to spare are
   read once, before the rows are replaced (`dossier_export.py:144`); a document uploaded afterwards by
   another account is listed by the store and deleted.
7. **A completion sent again may delete a registered file** (`completed_again`). `docs/BACKUP.md:23` says
   that the completion of a direct upload checks signature, size and print before it registers the row, and
   that the content of a registered document is returned. `complete_upload` (`documents.py:134-142`) deletes
   a file that does not match what is announced before anything looks whether a row has its name: a
   completion repeated with another print or another size, or repeated as it was once `max_upload_bytes`
   has been lowered, leaves the row without its file, and its content is answered 404. `_insert_document`
   (`documents.py:346-350`), which spares the file of a name already registered, comes too late.
   `ReadableUnlessWithdrawn`, which the run `archive` checks and a theorem states, is what remains true.

Observed while modelling, without a statement of the repository that the code contradicts outright:

* Recomputing a reopened year while a later one is closed may leave a stock overdrawn.
  `OverdrawnOnlyByOlder` states how far this goes: no computation made since draws on it.
* Account 164 may be overdrawn, but only by reversing the entry of the property under payments made since
  (`PrincipalWithinLoan`): `cancel` protects a funding with `LOAN_PAYMENTS_EXIST`, nothing that entry.
* `close_year` does not look at the acknowledgements again: an identity removed, or rules changed, after
  the preparation freezes a warning nobody ticked. `FrozenWarningsAcknowledged` states that nothing else
  does. A SIREN added after the closing leaves the frozen return blocked until the year is reopened.
* A return computed under older rules becomes final once newer ones are attested: the version of the
  attestation is compared with `rules.yaml`, not with the rules of the computation.
* `docs/FEC.md:11` says the control archive keeps its SHA as long as the validated entries do not change;
  a change of identity or of the attestation changes it too. `FinalCopiesAgree` is what remains true: the
  return inside is the same.
* Creating an asset changes the structuring fingerprint but invalidates nothing, and the precheck does not
  compare it (`assets.py:121`); in a prepared year it blocks the closing with `IMMOBILISATIONS_ECART`.
* Rents: when an exercise is cut inside a month, both halves ask for the receipt of that month, and the
  second schedule is refused for ever (`operations.py:794`). The runs and the theorem use whole months
  (`RentsAssumption`).
* A deletion of a document puts the row back without its object when the store obeys and answers with an
  error, or when the commit fails (`documents.py:171-180`): the row of a deletion that was asked for,
  which `ReadableUnlessWithdrawn` allows.
* The tutorial (`docs/TUTORIAL.md:110`) says to repair the rows of a file that were rejected and to load
  them again. The valid rows of a loan file are posted at once, and its chronology
  (`csv_assistant.py:742-760`) refuses an earlier row repaired later until their payments are cancelled.
* A key of a batch is answered `YEAR_LOCKED` instead of its report once the year is not open; a row of a
  loan without principal is previewed as valid and refused (`LOAN_NOT_FUNDED`) when nothing was funded.

## 6. The proofs

Every proof is about the modules as TLC checks them, for every value of the constants that satisfies the
assumptions named below; TLC evaluates these assumptions in the runs.

Each module follows one plan: an invariant that holds the types, the property and what makes it inductive;
lemmas on what a step does to the part of the state it speaks of; one step of the proof per action; a temporal
step at the end. A theorem names the very definition that the runs check on their instances. Where the runs play
scenes (section 2), the theorem is about the `MCSpec` they check, for every value of its constants and with no
bound but the ones its actions name; those of `Ledger`, `Outputs` and `Backup` are about the `Spec` of the
component itself, and those of `Depreciation` are stated for both.

The leaves are kept small on purpose: the slowest goes through in under a third of the time `tlapm` allows its
provers by default, so that no leaf needs a time-out of its own and a slower machine finds the same proofs.

*Assumptions.* `LedgerProofs` uses the ASSUMEs of `Ledger` (the bound is a number, days and clock readings are
numbers, inputs are functions from accounts to integers). The others use the assumption operators of section 2:
`OpeningAssumption`, `YearsAssumption`, `ClosingAssumption`, `EngineAssumption`, `OperationsAssumption`,
`RentsAssumption`, `ImportsAssumption`, `LoanImportsAssumption`, `NamesAssumption`, `SlotsAssumption`,
`BoundsAssumption`; `DepreciationAssumption` is a hypothesis of the theorems of `DepreciationProofs`. They give the
constants their types (years are `1..n`, names differ from the marks of absence, amounts offered and the principal
of a row that can be read are natural numbers, which `money_cell` sees to). One says more: the months of two
exercises are distinct (`RentsAssumption`, section 5).

### `SumFacts`: what the other proofs lack

A sum of the model is a fold of the community modules, and what a fold computes for every set is a fact by
induction, whose theorems in the library no installed prover can instantiate. `LeastNat` and `MinimalSubset` put a
smallest counterexample in its place, from the well-foundedness of `<` and of the strict subsets of a finite set.
From there: `SumRecursion`, `SumAdd`, `SumUnion`, `SumSame`, `SumMonotone`, `SumOnto` and `SumReindex` (a sum is
that of its terms under other names), `Telescoped` (a sum of differences is the difference of the ends), `Ranks`
and `RanksNumber` (the elements of a set of numbers are counted 1..c in their order), and for a budget that several draw on in turn, `TakenInTurn` (none takes more than it is offered, nor
anything before those in front of it have taken all) and `TakenTogether` (they take the lesser of the budget and of
what is offered). `Consume` of `FiscalEngine` is such a budget.

### `LedgerProofs`

* `NumberingHolds`, `PostedImmutableHolds`, `NoDraftOutsideOpenYearHolds`, `ChronologicalNumbersHold`. `StepShape`
  is the hinge: as far as the entry table goes, a step leaves it alone, writes a row that is not posted (in an open
  year, over a row that is not posted), or posts one row numbered `LastSequence + 1`, whose year is open. Each
  theorem then treats three cases instead of fifteen. `GaplessNumbering` with `TypeOK` is inductive:
  `LastSequenceBounds` shows that `LastSequence(y)` is the n of `Sequences(y) = 1..n`, `PostWriteAddsOne` that a
  posting turns `1..n` into `1..n+1`. `ChronologicalNumbers` needs the numbering: the new number is above all
  others, and `ClockHolds` puts its time above theirs.
* `ReversalExactHolds`, `MatchedEntryStandsHolds`. `LinkShape` sharpens the summary with the links between rows: a
  posting reverses nothing, or it is the mirror (`MirrorOf`) of a posted entry that had none, and takes the bank
  matches of that entry away with it. `Linked == Numbered /\ ReversalExact /\ MatchedEntryStands` is inductive; the
  two need each other, since a match stands only while its entry is not reversed, and posted rows do not move.
* `ImplementsJournalHolds`: the refinement of `Journal`. `RowOfNumber` and `NumberOfRow` say that numbers and posted
  rows of a year correspond, so that the journal of a year (`Books`) is a sequence of postings; `BooksKept` that a
  step leaves every posting at its place; `BookGrows` that a posting is appended. `PostingPosts` and
  `PostingReverses` map a posting step to `Post` or `Reverse`, every other step is `Lock` or a stutter.
* `VersionIdentifiesContentsHolds`, `LogReconstructsTableHolds`. `LogShape`: a step inserts a row with its images,
  rewrites one with its image, or deletes one with its last. `Journaled` adds to the numbering that every id has its
  images (`Recorded`). That an id is never handed out twice (AUTOINCREMENT) is what makes a version identify contents.

### `FiscalCyclesProofs`

* `OpeningStandsHolds`. `OpeningStands` is not inductive: nothing in it keeps the previous year from changing before
  its reopening is counted. `Sourced` adds that the year an opening was taken from has been `CLOSED` ever since, with
  the same balances, or was reopened later.
* `ClosedYearKeepsItsProofHolds`, `UnclosedYearDrawsOnClosedHolds`, `OverdrawnOnlyByOlderHolds`. `YearsInv` is the
  three with their types and `RegisterOfLive`: the row of a year in the register is that of its computation while
  this one is live. `StocksAre` and `UsesAre` turn stocks into sums over the computations; `YearsApply` says what a
  computation takes from them, by `TakenInTurn`; `OverdrawnComputed` then compares, stock by stock, what is
  drawn before and after a computation is stored, and `OverdrawnWithdrawn` when one is withdrawn by a reopening.

### `OutputsProofs`

`FinalCopiesAgreeHolds`, `FrozenWarningsAcknowledgedHolds`, `BlockedIsExplainedHolds`. `IInv` has four parts:
`Closing` (the generation of the closing is the only current one, on books that nobody can touch since), `HandedOut`
(every final file agrees with that generation), `Ticked` (the warnings of a prepared or frozen return, as a function
of the identity and the trust they were taken with) and the types. `BlockedIsExplained` rests on `FrozenSound` as
well: a frozen return has no error and is incomplete for its warnings only, because the closing passed its control.

### `YearEndProofs`

* `ConfirmationPostedOnceHolds`, `PostedAsConfirmedHolds`, `PresentedResultHolds`, `LockedYearCentralizedHolds`.
  Nothing is ever taken out of the books, so everything is said of a book `b` and of an entry appended to it
  (`Appends`): `Sound(b)` holds if every entry is well formed (`WellFormed`), what the accounts of result and
  equity hold is what the entries that stand put there (`Balanced`), and an appropriation moves no more than the
  result (`Appropriates`); `SoundAppended` that an entry allowed by a handler keeps it. `Presented` derives the
  balance sheet from `Balanced`. `ResultInv` adds that a year not open is centralized and has no draft.
* `AppliesTheLawHolds`: one computation of the engine, on any inputs. `Consumes` reads the folds of `Consume` as a
  budget drawn on in turn; `Lawful` goes through the branches of `apply_lmnp`.
* `BooksFollowRegisterHolds`, `DotationOnceHolds`, `WholePlanDepreciatedHolds`, `ReportStandsHolds`: the run reaches
  `Depreciation` through an instance, `D`, and so do the proofs, through `Assets`, an instance of
  `DepreciationProofs` with the same substitutions. The `Same...` lemmas say that the operators of the two are the
  same, `SceneSteps` that a step of a scene is a step of `Depreciation`; its invariant then holds in the scenes.

### `DepreciationProofs`

`BooksFollowRegisterHolds`, `DotationOnceHolds`, `WholePlanDepreciatedHolds`, `ReportStandsHolds`, for every order of
the operations, where the run has one scene for the register and another for the batches: the theorems of the `Spec`
of `Depreciation`, and the lemmas `YearEndProofs` takes them to the run with. `AssetInv` says that a schedule is that
of a row as it stands (`SchedulesFollow`), a period one of a scheduled plan (`PeriodsFollow`), that row and year, id,
and entry each identify a period (`Single`), that entries and posted periods correspond (`Posting`), and that what a
report announced still stands (`Reported`). Two operations need more than a case analysis. A batch numbers the
entries of its lot by their places: `EntriesOfLot` shows by `Ranks` that they take the next numbers, each once, and
`Posts` abstracts the posting to that assignment. `Calculate` numbers its new periods by the places of their rows and
years: `NewIds`. That the corrections keep the invariant is the lock of `PostedLocks`: a row with a posted period is
not corrected in what its plan depends on. `PlanTotals`: the dotation of a year is what the plan accrues between its
ends (`DotationIs`), so that the sum over the years telescopes to the base.

### `OfficeProofs`

* `SettledWithinOperationHolds`, `LoanChronologyHolds`, `PrincipalWithinLoanHolds`. As above, of a book and of an
  entry appended to it: `OpSound(b)` is the three properties with the form of the entries (`OpFormed`) and
  `StandHolds` (the account of the loan holds what the entries that stand put there, a reversal taking back what it
  reverses); `OpAllowed` is what the guards of the six handlers have in common, and each `...Taken` lemma shows that
  a handler appends only such an entry.
* `ReceiptsAsScheduledHolds`. Every receipt has the contents the register still shows (`AsRegistered`), since the end
  of the lease is the only field that is not locked and no part of a receipt, and there is one for each tenant and
  month. The steps need that months grow with days (`DivMonotone`).
* `PreviewedIsAcceptedHolds` follows from the definitions of the two checks, in any state. `ReportMatchesBooksHolds`
  and `BankKeepsItsNumberHolds` rest on `ImportInv`. A report speaks of the operations of its key only, and a step
  appends operations or marks one (`Extends`): `ReportKept` shows that the report of any other key stands,
  `CommitKeeps` that a key without a report has no operation yet, so that what its commit appends is all of it.
  That a bank without movements may be renumbered is why `ImportInv` speaks of movements and operations together.
* `RowPaidOnceHolds`, `RowsGetTheirPaymentHolds`, `ValidRowsPostHolds`, by `LoanInv`. `RowPaidOnce` is inductive, but
  says nothing of requests: `Requested` adds that the revision in the request of a payment is less than the number of
  payments of its row or day, cancelled ones included, which is the revision the next one would get. So no request of
  an import was used (`RequestsUnused`) and `After` appends all its payments (`AfterAll`). `ValidRowsPost` then
  compares balances and chronology after each payment with those of the file: the rows in the order of their days
  (`SortedPlaces`) have the principal of the valid ones (`ByDaySum`), which `Within`, at the last of them, keeps
  within the balance (`ValidWithin`); the day of a row is after those before it, or replaces a cancelled one still
  (`PostableAfter`).

### `ArchiveProofs`

* `SafetyArchiveFirstHolds`, `FileRestoreIsAtomicHolds`. `Progress` says for each step of a restore what the two file
  systems hold: the present files, the snapshot or the goal, whether the documents were begun and whether a rollback
  failed, and that a safe archive exists from `Snapshot` on. The refinement sorts the steps by where they fall: while
  a backup or the safety archive is being made, a `Write` of the user or a stutter; then `Begin`; stutters while files
  are replaced; and at the end `Restored`, `Undone` or `Broken`.
* `ReadableUnlessWithdrawnHolds`, `RestoreAllOrNothingHolds`, `OthersFilesSurviveHolds`, under the hypothesis
  `Alone = TRUE`, the value it has in the run `archive`: no request is under way when a restore starts, and none
  starts beside it. Without it `OthersFilesSurvive` is false (run `restore_overlap`, section 5). `DossierInv`: a
  row has its object or a reason not to (`Covered`), one writer at a time and a restore alone (`Exclusive`), rows of
  two accounts apart and a name being uploaded in none yet (`NamesApart`), a name about to be registered in the store
  and in no row (`InHand`), and `RestoreHolds`, what a restore knows of the rows and of the store at each of its
  steps, rollback included: the objects of the other accounts' rows are among those it spares and, in the undo, among
  those that were there before. `RegisteredReadable` itself is false (run `completed_again`).

*Only model-checked*: `RequestsEnd`, since liveness under fairness is out of the prover's reach, and the statements
the runs refute (section 5). Every other property of a passing run is a theorem.

## 7. Not modelled

* Creation of the activity, of years, accounts, journals, properties, banks and loans: set up once, with
  unique keys.
* Ownership and authentication: `resolve_owner_id` looks again under the write lock, which reduces the
  first requests of two accounts to the serialised writes the modules take for granted; row filtering is a
  criterion added to every query; tokens are verified with an external provider.
* The amounts and labels of the boxes of the return, the declaration's contents, the formats of FEC, PDF
  and spreadsheet: derived text over state that is modelled.
* Refusals of the precheck that come from controls of other components: leaving them out lets a module close
  more often than the code, so the safety properties are checked on more behaviours.
* `blocked_rules`, adjustments account by account, suggestions and details of the computation; disposals of
  assets; suggestions of bank matches.
* The detection of columns, separators, encodings and formats of a CSV file: text processing whose outcome is
  a fact of the row or of the file in `Imports` and `LoanImports`.
* Links between documents and entries, types of files; the format of a dossier and the renumbering of its
  rows; the transfer from SQLite to Postgres; YAML vintages, the dashboard, wording of errors, screens.
