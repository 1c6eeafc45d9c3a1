--------------------------- MODULE MCFiscalCycles ---------------------------
(* From one year to the next, in three scenes, one of which a behaviour keeps  *)
(* to: the opening entries that a year takes from the one before (Opening);    *)
(* the fiscal computations of three years of losses whose structuring data     *)
(* stay as they are, or of two years with carried depreciation and changing    *)
(* structuring data (FiscalYears).                                             *)
EXTENDS Opening

ASSUME ExercisesAssumption == OpeningAssumption

VARIABLE scene

-----------------------------------------------------------------------------
\* FiscalYears
CONSTANTS NumYears, Horizon, Books, Additions, MaxEntries, MaxStructure,
          MaxComputations, MaxGenerations,
          MaxPairEntries,     \* bound: postings when only two years are used
          MaxPairComputations \* bound: computations then
VARIABLES status, ledger, structure, computed, live, register, snapshots

Y == INSTANCE FiscalYears
ASSUME YearsAssumption == Y!YearsAssumption
fiscalVars == <<status, ledger, structure, computed, live, register, snapshots>>

Book(m, d) == [margin |-> m, depreciation |-> d]
\* A loss, and a profit that can absorb it.
MCLossBooks == {Book(-1, 0), Book(1, 0)}
\* Depreciation beyond the margin, and a margin that can absorb it later.
MCDepreciationBooks == {Book(0, 1), Book(2, 1)}
MCBooks == MCLossBooks \cup MCDepreciationBooks

Losses ==
  \E y \in Y!FYears : \/ \E book \in MCLossBooks : Y!PostEntry(y, book)
                      \/ Y!ComputeFiscal(y, 0)
                      \/ Y!MarkReady(y) \/ Y!CloseYear(y)
                      \/ y # NumYears /\ Y!ReopenYear(y) \* no year draws on the last

Depreciation ==
  \/ \E y \in Y!FYears \cap {1, 2} :
       \/ \E book \in MCDepreciationBooks :
            SumFunction([z \in Y!FYears |-> ledger[z].entries]) < MaxPairEntries
            /\ Y!PostEntry(y, book)
       \/ \E additions \in Additions :
            computed < MaxPairComputations /\ Y!ComputeFiscal(y, additions)
       \/ Y!MarkReady(y) \/ Y!CloseYear(y) \/ Y!ReopenYear(y)
  \/ Y!CreateStructure
  \/ Y!CorrectStructure

-----------------------------------------------------------------------------
\* Opening: a receipt and its reverse, a centralization and its reverse, a
\* contribution.
Entry(cash, sales, result, capital) ==
  [a \in {"101", "120", "129", "512", "706"} |->
     CASE a = "512" -> cash [] a = "706" -> sales [] a = "120" -> result
       [] a = "101" -> capital [] OTHER -> 0]
MCNets == {Entry(1, -1, 0, 0), Entry(0, 1, -1, 0), Entry(1, 0, 0, -1)}

-----------------------------------------------------------------------------
MCInit == Init /\ Y!Init /\ scene \in {"opening", "losses", "depreciation"}
MCNext == /\ \/ scene = "opening" /\ Next /\ UNCHANGED fiscalVars
             \/ scene = "losses" /\ Losses /\ UNCHANGED openingVars
             \/ scene = "depreciation" /\ Depreciation /\ UNCHANGED openingVars
          /\ UNCHANGED scene
MCSpec == MCInit /\ [][MCNext]_<<openingVars, fiscalVars, scene>>

-----------------------------------------------------------------------------
(* The properties of FiscalYears *)

UnclosedYearDrawsOnClosed == Y!UnclosedYearDrawsOnClosed
OverdrawnOnlyByOlder == Y!OverdrawnOnlyByOlder
ClosedYearKeepsItsProof == Y!ClosedYearKeepsItsProof
=============================================================================
