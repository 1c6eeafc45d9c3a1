----------------------------- MODULE MCYearEnd ------------------------------
(* The end of the year: the outputs, the result (ResultClosing), depreciation  *)
(* and the fiscal engine.  Each has tables of its own; a behaviour plays one of*)
(* them (its scene), the variables of the others stay at their initial values. *)
EXTENDS Outputs, TLC

VARIABLE scene

-----------------------------------------------------------------------------
\* Depreciation
CONSTANTS AssetYears, YearUnits, Building, Parts, Chairs, Plans, OtherLabel,
          Shares, DwellingLife, Prices, Keys, MaxMoves, MaxLot, None
VARIABLES property, register, schedule, periods, dotations, gross, moves,
          acquisition, computed, assetYearStatus, reports

D == INSTANCE MCDepreciation WITH Years <- AssetYears, status <- assetYearStatus
ASSUME AssetAssumption == D!DepreciationAssumption
assetVars == <<property, register, schedule, periods, dotations, gross, moves,
               acquisition, computed, assetYearStatus, reports>>

-----------------------------------------------------------------------------
\* ResultClosing
CONSTANTS Requests, Operations, MaxEntries, MaxSent
VARIABLES resultStatus, drafts, resultBook, chart, sent

C == INSTANCE ResultClosing WITH status <- resultStatus, book <- resultBook
ASSUME ClosingAssumption == C!ClosingAssumption
resultVars == <<resultStatus, drafts, resultBook, chart, sent>>

-----------------------------------------------------------------------------
\* FiscalEngine
CONSTANTS NumYears, Horizon, MaxAmount, MaxAdditions
VARIABLE input

E == INSTANCE MCFiscalEngine
ASSUME EngineAssumption == E!EngineAssumption /\ E!BoundsAssumption

-----------------------------------------------------------------------------
Plan(v, l, s) == [value |-> v, life |-> l, start |-> s]
MCParts == <<"roof", "walls">>
MCChairs == <<"chair">>
MCShares == <<6000, 4000>>
MCPlans == [building |-> {Plan(3, 3, 1)},
            roof |-> {Plan(2, 3, 2), Plan(2, 2, 1)},
            walls |-> {Plan(1, 3, 2)},
            chair |-> {Plan(1, 2, 2), Plan(2, 2, 0), Plan(2, 1, 3)}]

\* A product, and a charge that turns the profit of one product into a loss.
Only(account, amount) ==
  [a \in {"615", "706", "120", "129", "101"} |-> IF a = account THEN amount ELSE 0]
MCOperations == {Only("706", -1), Only("615", 2)}
\* Requests are interchangeable.
Symmetry == Permutations(Requests)

MCInit ==
  /\ Init /\ C!Init /\ E!Init
  /\ \/ D!MCInit
     \/ D!Init /\ (\A p \in Prices : p <= property.price)
        /\ scene \in {"result", "engine", "outputs"}
MCNext ==
  \/ D!MCNext /\ UNCHANGED <<vars, resultVars, input>>
  \/ scene = "result" /\ C!Next /\ UNCHANGED <<vars, assetVars, input, scene>>
  \/ scene = "engine" /\ E!Next /\ UNCHANGED <<vars, assetVars, resultVars, scene>>
  \/ scene = "outputs" /\ Next /\ UNCHANGED <<assetVars, resultVars, input, scene>>
MCSpec == MCInit /\ [][MCNext]_<<vars, assetVars, resultVars, input, scene>>

-----------------------------------------------------------------------------
(* The properties of the modules *)

AssetScenes == {"dwelling", "parts", "years"}
BooksFollowRegister == scene \in AssetScenes => D!BooksFollowRegister
WholePlanDepreciated == scene \in AssetScenes => D!WholePlanDepreciated
DotationOnce == scene \in AssetScenes => D!DotationOnce
ReportStands == D!ReportStands
ConfirmationPostedOnce == scene = "result" => C!ConfirmationPostedOnce
PostedAsConfirmed == scene = "result" => C!PostedAsConfirmed
PresentedResult == scene = "result" => C!PresentedResult
LockedYearCentralized == scene = "result" => C!LockedYearCentralized
AppliesTheLaw == scene = "engine" => E!AppliesTheLaw
=============================================================================
