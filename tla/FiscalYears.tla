---------------------------- MODULE FiscalYears -----------------------------
(***************************************************************************)
(* The cycle of the fiscal years: computation, precheck, closing,          *)
(* reopening and structuring corrections, with the carry-forward registers *)
(* that tie one year to the next (services/fiscal.py, closing.py,          *)
(* corrections.py).  Each action is one write transaction.                 *)
(*                                                                         *)
(* The ledger of a year is its number of validated entries, which only     *)
(* grows and stands for its SHA-256, with the operating totals the fiscal  *)
(* computation reads.  The structuring data (properties, assets, loans) is *)
(* a revision number.  Refusals of the precheck that come from elsewhere   *)
(* (drafts, open classes, FEC, mapping) only make MarkReady and CloseYear  *)
(* rarer.                                                                  *)
(***************************************************************************)
EXTENDS FiscalEngine, Sequences

CONSTANTS Books,           \* operating totals [margin, depreciation] of a year
          Additions,       \* charges a computation adds back
          MaxEntries,      \* bound: postings
          MaxStructure,    \* bound: structuring changes
          MaxComputations, \* bound: computations ever stored
          MaxGenerations   \* bound: closings of a year

YearsAssumption ==
  /\ EngineAssumption
  /\ Books \subseteq [margin : Int, depreciation : Int]
  /\ Additions \subseteq Nat

VARIABLES
  status,     \* fiscal_year.status
  ledger,     \* the entries of each year, see above
  structure,  \* revision of the structuring data
  computed,   \* number of computations stored; the last one's id
  live,       \* the computation of each year that is not invalidated, or None
  register,   \* depreciation_ and tax_loss_carry_forward: one row per year
  snapshots   \* tax_return_snapshot: the generations of each year

vars == <<status, ledger, structure, computed, live, register, snapshots>>

None == [id |-> 0]
NoRegister == [by |-> 0, unused |-> 0, taxLoss |-> 0]
HasLive(y) == live[y] # None

-----------------------------------------------------------------------------
(* The registers *)

\* Uses and expiries are events of live computations of the other years.
UsesOf(y, o, field) ==
  SumFunctionOnSet([z \in FYears |-> IF HasLive(z) THEN live[z].split[field][o] ELSE 0],
                   FYears \ {y})

\* Variant: the amount created is read, what other years used of it is not.
StocksUnused(y, created, uses, expiries) ==
  [o \in FYears |->
     IF o < y /\ status[o] = "CLOSED" /\ register[o].by # 0
     THEN [NoStock EXCEPT !.created = register[o][created]]
     ELSE NoStock]

\* _stocks: only prior years that are closed.
StocksFor(y, created, uses, expiries) ==
  [o \in FYears |->
     IF o < y /\ status[o] = "CLOSED" /\ register[o].by # 0
     THEN [created |-> register[o][created],
           used |-> UsesOf(y, o, uses),
           expired |-> IF expiries = "none" THEN 0 ELSE UsesOf(y, o, expiries)]
     ELSE NoStock]

\* Depreciation does not expire.
DepreciationStocks(y) == StocksFor(y, "unused", "depreciationUses", "none")
LossStocks(y) == StocksFor(y, "taxLoss", "lossUses", "lossExpiries")

\* What a computation of y would store now: its fingerprints and its amounts.
Inputs(y, additions) ==
  [entries |-> ledger[y].entries, structure |-> structure, additions |-> additions,
   carried |-> DepreciationStocks(y), losses |-> LossStocks(y)]

SplitOf(y, inputs) ==
  Apply(y, ledger[y].margin, ledger[y].depreciation, inputs.additions,
        inputs.carried, inputs.losses)

-----------------------------------------------------------------------------
Init ==
  /\ status = [y \in FYears |-> "OPEN"]
  /\ ledger = [y \in FYears |-> [entries |-> 0, margin |-> 0, depreciation |-> 0]]
  /\ structure = 0
  /\ computed = 0
  /\ live = [y \in FYears |-> None]
  /\ register = [y \in FYears |-> NoRegister]
  /\ snapshots = [y \in FYears |-> <<>>]

\* An entry is validated in an open year.
PostEntry(y, book) ==
  /\ status[y] = "OPEN"
  /\ SumFunction([z \in FYears |-> ledger[z].entries]) < MaxEntries
  /\ ledger' = [ledger EXCEPT ![y] =
       [entries |-> @.entries + 1, margin |-> book.margin,
        depreciation |-> book.depreciation]]
  /\ UNCHANGED <<status, structure, computed, live, register, snapshots>>

\* A property, an asset or a loan is created: nothing is invalidated.
CreateStructure ==
  /\ structure < MaxStructure
  /\ structure' = structure + 1
  /\ UNCHANGED <<status, ledger, computed, live, register, snapshots>>

\* _supersede
Superseded(s) == [n \in DOMAIN s |-> [s[n] EXCEPT !.status = "SUPERSEDED"]]

\* A structuring correction that changes the computation
\* (invalidate_open_dependencies): it may be refused by a closed year.
CorrectStructure ==
  LET unclosed == {y \in FYears : status[y] # "CLOSED"} IN
  /\ structure < MaxStructure
  /\ structure' = structure + 1
  /\ status' = [y \in FYears |-> IF y \in unclosed THEN "OPEN" ELSE status[y]]
  /\ live' = [y \in FYears |-> IF y \in unclosed THEN None ELSE live[y]]
  /\ snapshots' = [y \in FYears |-> IF y \in unclosed THEN Superseded(snapshots[y])
                                    ELSE snapshots[y]]
  /\ UNCHANGED <<ledger, computed, register>>

\* compute_fiscal: the live computation is returned if all its inputs are the
\* same; otherwise the year must be open, and a new one replaces it.
ComputeFiscal(y, additions) ==
  LET inputs == Inputs(y, additions)
      split == SplitOf(y, inputs)
  IN /\ ~ (HasLive(y) /\ live[y].inputs = inputs)
     /\ status[y] = "OPEN"
     /\ computed < MaxComputations
     /\ computed' = computed + 1
     /\ live' = [live EXCEPT ![y] =
                   [id |-> computed + 1, inputs |-> inputs, split |-> split]]
     /\ register' = [register EXCEPT ![y] =
          [by |-> computed + 1, unused |-> split.unused, taxLoss |-> split.taxLoss]]
     /\ UNCHANGED <<status, ledger, structure, snapshots>>

\* Variant: that there is a live computation is enough.
FiscalPresent(y) == HasLive(y)

\* precheck: a live computation, on the ledger as it is.  Nothing is asked of
\* its other inputs.
FiscalCurrent(y) == HasLive(y) /\ live[y].inputs.entries = ledger[y].entries

MarkReady(y) ==
  /\ status[y] # "CLOSED"
  /\ FiscalCurrent(y)
  /\ status' = [status EXCEPT ![y] = "READY_TO_CLOSE"]
  /\ UNCHANGED <<ledger, structure, computed, live, register, snapshots>>

\* The generations of y once closed: the new one is taken on the ledger and on
\* the live computation.
Closing(y) ==
  Append(Superseded(snapshots[y]),
         [status |-> "CURRENT", entries |-> ledger[y].entries,
          computation |-> live[y].id])

CloseYear(y) ==
  /\ status[y] = "READY_TO_CLOSE"
  /\ FiscalCurrent(y)
  /\ Len(snapshots[y]) < MaxGenerations
  /\ status' = [status EXCEPT ![y] = "CLOSED"]
  /\ snapshots' = [snapshots EXCEPT ![y] = Closing(y)]
  /\ UNCHANGED <<ledger, structure, computed, live, register>>

\* Variant: only the computation of the reopened year is invalidated.
InvalidatedAlone(y) == [live EXCEPT ![y] = None]

\* reopen_year: its computation goes, and those of the later years not closed.
Invalidated(y) ==
  [z \in FYears |-> IF z = y \/ (z > y /\ status[z] # "CLOSED")
                      THEN None ELSE live[z]]

ReopenedSnapshots(y) == [snapshots EXCEPT ![y] = Superseded(@)]

ReopenYear(y) ==
  /\ status[y] = "CLOSED"
  /\ status' = [status EXCEPT ![y] = "OPEN"]
  /\ live' = Invalidated(y)
  /\ snapshots' = ReopenedSnapshots(y)
  /\ UNCHANGED <<ledger, structure, computed, register>>

Next ==
  \/ \E y \in FYears :
       \/ \E book \in Books : PostEntry(y, book)
       \/ \E additions \in Additions : ComputeFiscal(y, additions)
       \/ MarkReady(y) \/ CloseYear(y) \/ ReopenYear(y)
  \/ CreateStructure
  \/ CorrectStructure

Spec == Init /\ [][Next]_vars

-----------------------------------------------------------------------------
(* Properties *)

\* A closed year keeps its proof: its last generation is the only current one,
\* taken on the ledger as it still is, and the live computation, made on that
\* ledger, and the register rows are the ones it was taken from, whatever
\* happens to the other years and to the structuring data.  A year that is not
\* closed has no current generation (close_year, reopen_year, DATA_MODEL.md).
ClosedYearKeepsItsProof == \A y \in FYears :
  LET current == {n \in DOMAIN snapshots[y] : snapshots[y][n].status = "CURRENT"} IN
  IF status[y] # "CLOSED" THEN current = {} ELSE
  LET last == snapshots[y][Len(snapshots[y])] IN
  /\ current = {Len(snapshots[y])}
  /\ last.entries = ledger[y].entries
  /\ HasLive(y) /\ live[y].id = last.computation
  /\ live[y].inputs.entries = ledger[y].entries
  /\ register[y] = [by |-> live[y].id, unused |-> live[y].split.unused,
                    taxLoss |-> live[y].split.taxLoss]

Uses(y, o) == live[y].split.depreciationUses[o] + live[y].split.lossUses[o]
              + live[y].split.lossExpiries[o]

\* As long as a year is not closed, its computation draws only on years that
\* are closed now: reopening a year takes its stock back from every later
\* computation not yet frozen by a closing.
UnclosedYearDrawsOnClosed == \A y, o \in FYears :
  status[y] # "CLOSED" /\ HasLive(y) /\ Uses(y, o) > 0 =>
    o < y /\ status[o] = "CLOSED"

\* A stock is drawn beyond what its year created only by computations older
\* than the one that last set the amount: recomputing a reopened year may
\* leave it overdrawn, and then no new computation draws on it.
OverdrawnOnlyByOlder == \A o \in FYears :
  LET Drawn(field) == SumFunction(
        [z \in FYears |-> IF HasLive(z) THEN live[z].split[field][o] ELSE 0])
      Newer(field) == \E z \in FYears :
        HasLive(z) /\ live[z].id > register[o].by /\ live[z].split[field][o] > 0
  IN /\ Newer("depreciationUses") => Drawn("depreciationUses") <= register[o].unused
     /\ Newer("lossUses") \/ Newer("lossExpiries") =>
          Drawn("lossUses") + Drawn("lossExpiries") <= register[o].taxLoss

-----------------------------------------------------------------------------
(* Statements of the documentation that the code does not keep *)

\* When the precheck of a year not closed sends the user back to the fiscal
\* computation (missing, or not of this ledger), that computation can be run
\* (CLOSING_PROCESS.md, first paragraph).
SentBackToComputation == \A y \in FYears :
  status[y] # "CLOSED" /\ ~ FiscalCurrent(y) => status[y] = "OPEN"

\* A year is closed on the stocks as they stand (CLOSING_PROCESS.md: the
\* precheck verifies the carry-forwards, "reports").
ClosedOnCurrentStocks == [][\A y \in FYears :
  status[y] # "CLOSED" /\ status'[y] = "CLOSED" =>
    /\ live[y].inputs.carried = DepreciationStocks(y)
    /\ live[y].inputs.losses = LossStocks(y)]_vars
=============================================================================
