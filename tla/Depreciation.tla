---------------------------- MODULE Depreciation ----------------------------
(***************************************************************************)
(* The register of immobilisations and its depreciation: creation, the     *)
(* split of a dwelling into components, schedules, calculated and posted   *)
(* periods, batches of postings (services/assets.py), and the corrections  *)
(* of the register with their locks (services/structuring.py,              *)
(* services/corrections.py), while the years are computed, closed and      *)
(* reopened.                                                               *)
(*                                                                         *)
(* Days are units 1, 2, ... of which YearUnits make a year, lives are      *)
(* counted in the same units.  An asset is acquired the day it is put into *)
(* service and has no residual value.  All rows share one gross account;   *)
(* gross[y] is its balance over the entries of year y.                     *)
(* Disposed assets are left out: a disposal date is given at creation      *)
(* only, and any of them blocks every closing (CESSION_HORS_MVP).          *)
(***************************************************************************)
EXTENDS Integers, Sequences, FiniteSets, Functions, FiniteSetsExt

CONSTANTS Years,      \* the exercises, 1..n
          YearUnits,  \* units of a year
          Building,   \* the asset that may be decomposed
          Parts,      \* its components, in their order
          Chairs,     \* other assets, in their order
          Plans,      \* what each row may be created with or corrected to
          OtherLabel, \* a label a row may be renamed to
          Shares,     \* parts of a dwelling out of 10000, by component
          DwellingLife, \* life proposed for each of them
          Prices,     \* values of the building of the property
          Keys,       \* idempotency keys of batches
          MaxMoves,   \* bound: entries on the gross account, per year
          MaxLot,     \* bound: periods of one batch
          None

VARIABLES property,   \* its value, and the value the user has previewed
          register,   \* the rows: None, or value, life, start and label
          schedule,   \* depreciation_schedule: None, or base, life and start
          periods,    \* depreciation_period
          dotations,  \* validated DEPRECIATION entries, in their order
          gross,      \* balance of the gross account, by year
          moves,      \* entries on that account, by year
          acquisition,\* the standing ACQUISITION entry
          computed,   \* the standing fiscal computation of each year
          status,     \* of the years
          reports     \* stored reports of batches, by key

vars == <<property, register, schedule, periods, dotations, gross, moves,
          acquisition, computed, status, reports>>
books == <<gross, moves, acquisition>>

PartSet == Range(Parts)
ChairSet == Range(Chairs)
RowSet == {Building} \cup PartSet \cup ChairSet
Registered == {r \in RowSet : register[r] # None}
ValueOf(R) == SumFunctionOnSet([r \in R |-> register[r].value], R)

YearFrom(y) == (y - 1) * YearUnits + 1
YearTo(y) == y * YearUnits
MaxOf(a, b) == IF a > b THEN a ELSE b
MinOf(a, b) == IF a < b THEN a ELSE b

-----------------------------------------------------------------------------
(* The plan of a row *)

Components == PartSet \cap Registered
Decomposed(r) == r = Building /\ Components # {}

\* Rows that are depreciated: components rather than their building.
Targets == {r \in Registered : ~ Decomposed(r)}

\* DECOMPOSITION_INCOMPLETE
PlanComplete ==
  Decomposed(Building) => ValueOf(Components) = register[Building].value

PlanOf(r) == [base |-> register[r].value, life |-> register[r].life,
              start |-> register[r].start]
EndOf(s) == s.start + s.life - 1

From(s, y) == MaxOf(YearFrom(y), s.start)
To(s, y) == MinOf(YearTo(y), EndOf(s))
Covers(s, y) == From(s, y) <= To(s, y)

\* ROUND_HALF_UP of the base times units over life.
Accrued(s, units) == (2 * s.base * units + s.life) \div (2 * s.life)

\* Variant: the share of the year is rounded, rather than the accumulated one.
DotationRounded(s, y) == Accrued(s, To(s, y) - From(s, y) + 1)

Dotation(s, y) == Accrued(s, To(s, y) - s.start + 1)
                  - Accrued(s, From(s, y) - s.start)

\* _component_shares: the last component takes what rounding leaves.
Share(price, n) ==
  LET floor == [k \in DOMAIN Parts |-> (price * Shares[k]) \div 10000]
  IN  IF n = Len(Parts)
      THEN floor[n] + price - SumFunction(floor)
      ELSE floor[n]

-----------------------------------------------------------------------------
(* Reading the tables *)

Calculated(r) == {p \in periods : p.row = r /\ p.entry = 0}
Posted(r) == {p \in periods : p.row = r /\ p.entry # 0}
Pending(y) == {p \in periods : p.year = y /\ p.entry = 0}
LastId == Max({0} \cup {p.id : p \in periods})

\* What the register says the gross account holds at the end of the year:
\* gross_pieces, the components and what they leave of their building.
RegisterGross(y) == ValueOf({r \in Registered \ PartSet :
                               register[r].start <= YearTo(y)})

\* ledger_fingerprint of the year.
LedgerOf(y) == <<moves[y], {n \in DOMAIN dotations : dotations[n].year = y}>>

\* closed_cap_blocks: labels the computations of closed years have recorded.
ClosedCapBlocks(label) == \E y \in Years :
  /\ status[y] = "CLOSED" /\ computed[y] # None
  /\ \E r \in DOMAIN computed[y].caps : computed[y].caps[r].label = label

\* What _asset_locks and _component_locks refuse to change, by group.
Locks(r) ==
  UNION {
    IF Posted(r) # {} THEN {"value", "life", "start"}
    ELSE IF Decomposed(r) /\ \E c \in Components : Posted(c) # {} THEN {"value"}
    ELSE {},
    IF \E p \in Calculated(r) : status[p.year] = "CLOSED"
    THEN {"value", "life", "start"} ELSE {},
    IF acquisition # None THEN {"value"} ELSE {},
    IF ClosedCapBlocks(register[r].label) THEN {"value", "life"} ELSE {}}

-----------------------------------------------------------------------------
DepreciationAssumption ==
  /\ IsFiniteSet(Years) /\ Years # {} /\ Years = 1..Cardinality(Years)
  /\ YearUnits \in Nat \ {0} /\ DwellingLife \in Nat \ {0}
  /\ Prices \subseteq Nat
  \* rows are told apart, and from the absence of a row or of a schedule
  /\ Parts \in Seq(RowSet) /\ IsInjective(Parts)
  /\ Chairs \in Seq(RowSet) /\ IsInjective(Chairs)
  /\ Building \notin PartSet \cup ChairSet /\ PartSet \cap ChairSet = {}
  /\ None \notin [value : Nat, life : Nat, start : Int, label : RowSet \cup {OtherLabel}]
  /\ None \notin [base : Nat, life : Nat, start : Int]
  /\ Shares \in [DOMAIN Parts -> Nat]
  \* plans of a day or more; they may have started before the first exercise
  /\ Plans \in [RowSet -> SUBSET [value : Nat, life : Nat \ {0}, start : Int]]
  /\ MaxLot \in Nat

Init ==
  /\ \E price \in Prices : property = [price |-> price, seen |-> 0]
  /\ register = [r \in RowSet |-> None]
  /\ schedule = [r \in RowSet |-> None]
  /\ periods = {} /\ dotations = <<>>
  /\ gross = [y \in Years |-> 0] /\ moves = [y \in Years |-> 0]
  /\ acquisition = None
  /\ computed = [y \in Years |-> None]
  /\ status = [y \in Years |-> "OPEN"]
  /\ reports = [k \in Keys |-> None]

Created(r, plan) == [value |-> plan.value, life |-> plan.life,
                     start |-> plan.start, label |-> r]

OnlyRegister == UNCHANGED <<schedule, periods, dotations, books, computed,
                            status, reports>>

\* create_asset: it invalidates nothing.
CreateAsset(r, plan) ==
  /\ register[r] = None
  /\ register' = [register EXCEPT ![r] = Created(r, plan)]
  /\ OnlyRegister /\ UNCHANGED property

\* create_component; the trigger refuses a building that has a schedule.
CreateComponent(c, plan) ==
  /\ register[c] = None /\ register[Building] # None
  /\ schedule[Building] = None
  /\ plan.start >= register[Building].start
  /\ ValueOf(Components) + plan.value <= register[Building].value
  /\ register' = [register EXCEPT ![c] = Created(c, plan)]
  /\ OnlyRegister /\ UNCHANGED property

\* preview_dwelling_plan
PreviewDwelling ==
  /\ property' = [property EXCEPT !.seen = property.price]
  /\ OnlyRegister /\ UNCHANGED register

\* correct_property: refused once there are assets or the entry stands.
CorrectProperty(price) ==
  /\ Registered = {} /\ acquisition = None
  /\ price # property.price
  /\ property' = [property EXCEPT !.price = price]
  /\ computed' = [y \in Years |-> IF status[y] = "CLOSED" THEN computed[y] ELSE None]
  /\ status' = [y \in Years |-> IF status[y] = "CLOSED" THEN "CLOSED" ELSE "OPEN"]
  /\ UNCHANGED <<register, schedule, periods, dotations, books, reports>>

\* install_dwelling_plan: of the plan previewed, on a property without assets.
InstallDwelling(start) ==
  LET share(r) == IF r = Building THEN property.price
                  ELSE Share(property.price, CHOOSE n \in DOMAIN Parts : Parts[n] = r)
      kept == {Building} \cup {c \in PartSet : share(c) > 0}
  IN  /\ property.seen = property.price
      /\ Registered = {}
      /\ register' = [r \in RowSet |-> IF r \in kept
           THEN Created(r, [value |-> share(r), life |-> DwellingLife, start |-> start])
           ELSE None]
      /\ OnlyRegister /\ UNCHANGED property

-----------------------------------------------------------------------------
(* Calculation and posting *)

\* The place of a row among the rows of the calculation.
Before(r, q) ==
  LET position(s, x) == CHOOSE n \in DOMAIN s : s[n] = x
      place(x) == IF x \in PartSet THEN position(Parts, x)
                  ELSE IF x = Building THEN 0
                  ELSE Len(Parts) + position(Chairs, x)
  IN  place(r) <= place(q)

NewPeriod(s, y, r, id) ==
  [id |-> id, row |-> r, year |-> y, amount |-> Dotation(s, y),
   accumulated |-> Accrued(s, To(s, y) - s.start + 1), entry |-> 0]

\* calculate_year: the missing schedules, then the missing periods.
CalculateYear(y) ==
  LET aligned == [r \in RowSet |-> IF r \in Targets /\ schedule[r] = None
                                   THEN PlanOf(r) ELSE schedule[r]]
      missing == {r \in Targets : /\ Covers(aligned[r], y)
                                  /\ ~ \E p \in periods : p.row = r /\ p.year = y}
      id(r) == LastId + Cardinality({q \in missing : Before(q, r)})
  IN  /\ status[y] = "OPEN" /\ PlanComplete
      /\ schedule' = aligned
      /\ periods' = periods \cup {NewPeriod(aligned[r], y, r, id(r)) : r \in missing}
      /\ UNCHANGED <<property, register, dotations, books, computed, status, reports>>

\* post_period refuses none of these: the year, the amount, the gross booked.
Postable(p) ==
  p.entry # 0 \/ /\ status[p.year] = "OPEN" /\ p.amount > 0
                 /\ gross[p.year] >= RegisterGross(p.year)

\* The periods of a lot that are posted: those before the first refusal.
Accepted(y, lot) ==
  LET fine(n) == \E p \in periods : p.id = lot[n] /\ p.year = y /\ Postable(p)
  IN  {n \in DOMAIN lot : \A m \in 1..n : fine(m)}

PeriodOf(id) == CHOOSE p \in periods : p.id = id

\* Variant: a period already posted is posted again.
PostedAgain(lot, n) == Len(dotations) + n

\* The entry of the nth period of a lot: its own if it was posted already.
EntryFor(lot, n) ==
  LET new(m) == PeriodOf(lot[m]).entry = 0
  IN  IF new(n) THEN Len(dotations) + Cardinality({m \in 1..n : new(m)})
      ELSE PeriodOf(lot[n]).entry

Post(lot, accepted) ==
  LET new == {n \in accepted : EntryFor(lot, n) > Len(dotations)}
      entry(k) == CHOOSE n \in new : EntryFor(lot, n) = k
  IN  /\ dotations' = [k \in 1 .. Max({Len(dotations)} \cup {EntryFor(lot, n) : n \in new}) |->
           IF k \in DOMAIN dotations THEN dotations[k]
           ELSE LET p == PeriodOf(lot[entry(k)])
                IN  [row |-> p.row, year |-> p.year, amount |-> p.amount]]
      /\ periods' = {IF \E n \in new : lot[n] = p.id
                     THEN [p EXCEPT !.entry = EntryFor(lot, CHOOSE n \in new : lot[n] = p.id)]
                     ELSE p : p \in periods}
      /\ UNCHANGED <<property, register, schedule, books, computed, status>>

\* post_period, of one period; replayed once it is posted.
PostPeriod(id) ==
  /\ \E p \in periods : p.id = id /\ Postable(p)
  /\ Post(<<id>>, {1}) /\ UNCHANGED reports

\* Variant: a report with a refusal is not replayed.
StoredComplete(key, lot) ==
  reports[key] # None /\ \A n \in DOMAIN lot : reports[key].entries[n] # 0

\* _stored_batch: the same key and lot are answered by the stored report,
\* the same key with another lot is a conflict.
Stored(key, lot) == reports[key] # None

\* post_period_batch
PostBatch(key, y, lot) ==
  LET accepted == Accepted(y, lot)
  IN  /\ ~ Stored(key, lot)
      /\ status[y] = "OPEN"
      /\ Post(lot, accepted)
      /\ reports' = [reports EXCEPT ![key] =
           [lot |-> lot, entries |-> [n \in DOMAIN lot |->
              IF n \in accepted THEN EntryFor(lot, n) ELSE 0]]]

-----------------------------------------------------------------------------
(* Corrections *)

\* Variant: the periods of the year being worked on are kept.
ReleasedLast(r) ==
  {p \in Calculated(r) : \E q \in Calculated(r) : q.year > p.year}

\* release_calculated_periods: those of the row, never a posted one.
Released(r) == Calculated(r)

\* The totals and dates of _check_asset_coverage, _check_component_dates and
\* _check_component_total, with the row as corrected.
Consistent(corrected) ==
  LET total == SumFunctionOnSet([c \in Components |-> corrected[c].value], Components)
      base == corrected[Building].value
  IN  Components # {} =>
        /\ \A c \in Components : corrected[c].start >= corrected[Building].start
        /\ total <= base
        /\ (\E c \in Components : schedule[c] # None) => total = base

\* _finish: what invalidate_open_dependencies leaves.
InvalidateOpen ==
  /\ computed' = [y \in Years |-> IF status[y] = "CLOSED" THEN computed[y] ELSE None]
  /\ status' = [y \in Years |-> IF status[y] = "CLOSED" THEN "CLOSED" ELSE "OPEN"]

\* correct_asset, correct_component
Correct(r, plan) ==
  LET changed == {f \in DOMAIN plan : plan[f] # register[r][f]}
      corrected == [register EXCEPT ![r] = plan]
  IN  /\ changed # {} /\ changed \cap Locks(r) = {}
      /\ Consistent(corrected)
      /\ register' = corrected
      /\ IF changed = {"label"}
         THEN UNCHANGED <<schedule, periods, computed, status>>
         ELSE /\ schedule' = IF schedule[r] = None THEN schedule
                ELSE [schedule EXCEPT ![r] = [base |-> plan.value, life |-> plan.life,
                                              start |-> plan.start]]
              /\ periods' = periods \ Released(r)
              /\ InvalidateOpen
      /\ UNCHANGED <<property, dotations, books, reports>>

-----------------------------------------------------------------------------
(* The books and the years around the register *)

Move(y, amount) ==
  /\ moves[y] < MaxMoves
  /\ gross' = [gross EXCEPT ![y] = gross[y] + amount]
  /\ moves' = [moves EXCEPT ![y] = moves[y] + 1]
  /\ UNCHANGED <<property, register, schedule, periods, dotations, computed,
                 status, reports>>

\* property_entry: the assets acquired by the first day of the exercise.
EnterProperty(y) ==
  LET amount == ValueOf({r \in Registered \ PartSet : register[r].start <= YearFrom(y)})
  IN  /\ status[y] = "OPEN" /\ acquisition = None /\ amount > 0
      /\ acquisition' = [year |-> y, amount |-> amount]
      /\ Move(y, amount)

\* reverse_entry of it, by the ledger.
ReverseProperty ==
  /\ acquisition # None /\ status[acquisition.year] = "OPEN"
  /\ acquisition' = None
  /\ Move(acquisition.year, - acquisition.amount)

\* A purchase entered by hand, or the opening entries of the year.
PostGross(y) ==
  /\ status[y] = "OPEN" /\ gross[y] # RegisterGross(y)
  /\ UNCHANGED acquisition
  /\ Move(y, RegisterGross(y) - gross[y])

\* compute_fiscal, for the bases it records (_category_caps).
ComputeFiscal(y) ==
  /\ status[y] = "OPEN"
  /\ computed' = [computed EXCEPT ![y] =
       [caps |-> [r \in Targets |-> register[r]], ledger |-> LedgerOf(y)]]
  /\ UNCHANGED <<property, register, schedule, periods, dotations, books, status, reports>>

\* precheck: DEPRECIATION_UNPOSTED, FISCAL_NOT_COMPUTED, FISCAL_STALE,
\* IMMOBILISATIONS_ECART.
PrecheckPasses(y) ==
  /\ Pending(y) = {}
  /\ computed[y] # None /\ computed[y].ledger = LedgerOf(y)
  /\ gross[y] = RegisterGross(y)

SetStatus(y, s) ==
  /\ status' = [status EXCEPT ![y] = s]
  /\ UNCHANGED <<property, register, schedule, periods, dotations, books, reports>>

MarkReady(y) == /\ status[y] = "OPEN" /\ PrecheckPasses(y)
                /\ SetStatus(y, "READY_TO_CLOSE") /\ UNCHANGED computed
CloseYear(y) == /\ status[y] = "READY_TO_CLOSE" /\ PrecheckPasses(y)
                /\ SetStatus(y, "CLOSED") /\ UNCHANGED computed
ReopenYear(y) ==
  /\ status[y] = "CLOSED"
  /\ SetStatus(y, "OPEN")
  /\ computed' = [z \in Years |->
       IF z = y \/ (z > y /\ status[z] # "CLOSED") THEN None ELSE computed[z]]

-----------------------------------------------------------------------------
Lots == UNION {{lot \in [1..n -> {p.id : p \in periods}] :
                  \A a, b \in 1..n : a # b => lot[a] # lot[b]} : n \in 1..MaxLot}

Dwelling ==
  \/ PreviewDwelling
  \/ \E price \in Prices : CorrectProperty(price)
  \/ \E plan \in Plans[Building] : InstallDwelling(plan.start)

Create ==
  \/ \E r \in {Building} \cup ChairSet : \E plan \in Plans[r] : CreateAsset(r, plan)
  \/ \E c \in PartSet : \E plan \in Plans[c] : CreateComponent(c, plan)

CorrectRow == \E r \in Registered : \E plan \in Plans[r] :
  Correct(r, [value |-> plan.value, life |-> plan.life, start |-> plan.start,
              label |-> register[r].label])

\* A correction of the label and nothing else.
Rename == \E r \in Registered : Correct(r, [register[r] EXCEPT !.label = OtherLabel])

Book == \/ \E y \in Years : EnterProperty(y) \/ PostGross(y)
        \/ ReverseProperty
Calculate == \E y \in Years : CalculateYear(y)
PostDotations ==
  \/ \E p \in periods : PostPeriod(p.id)
  \/ \E key \in Keys, y \in Years : \E lot \in Lots : PostBatch(key, y, lot)
YearSteps == \E y \in Years :
  ComputeFiscal(y) \/ MarkReady(y) \/ CloseYear(y) \/ ReopenYear(y)

Next == \/ Dwelling \/ Create \/ CorrectRow \/ Rename
        \/ Calculate \/ PostDotations \/ Book \/ YearSteps

Spec == Init /\ [][Next]_vars

-----------------------------------------------------------------------------
(* Properties *)

\* What was calculated or posted is what the register as it stands gives for
\* that year: no correction leaves a schedule, a period or an entry behind.
BooksFollowRegister ==
  /\ \A r \in RowSet : schedule[r] # None => r \in Targets /\ schedule[r] = PlanOf(r)
  /\ \A p \in periods :
       /\ Covers(PlanOf(p.row), p.year)
       /\ p.amount = Dotation(PlanOf(p.row), p.year)
       /\ p.entry # 0 => dotations[p.entry] =
                           [row |-> p.row, year |-> p.year, amount |-> p.amount]

\* The periods of a plan never depreciate more than its base, and all of it
\* once there is one for every year of a plan that falls within the exercises,
\* whatever was rounded.
WholePlanDepreciated == \A r \in Targets :
  LET of == {p \in periods : p.row = r}
      total == SumFunctionOnSet([p \in of |-> p.amount], of)
  IN  /\ total <= register[r].value
      /\ (/\ YearFrom(1) <= register[r].start
          /\ EndOf(PlanOf(r)) <= YearTo(Max(Years))
          /\ \A y \in Years : Covers(PlanOf(r), y) => \E p \in of : p.year = y)
         => total = register[r].value

\* A dotation is posted once: every entry is that of one period, and the entry
\* a stored report announced for a period is still its entry.
DotationOnce ==
  /\ \A n \in DOMAIN dotations : \E p \in periods :
       \A q \in periods : q.entry = n <=> q = p
  /\ \A key \in Keys : reports[key] # None =>
       \A n \in DOMAIN reports[key].lot : reports[key].entries[n] # 0 =>
         \E p \in periods : /\ p.id = reports[key].lot[n]
                            /\ p.entry = reports[key].entries[n]

\* "The same Idempotency-Key with the same lot returns the stored result."
ReportStands == [][\A key \in Keys :
  reports[key] # None => reports'[key] = reports[key]]_vars

\* docs/DATA_MODEL.md: the base and the life that the computation of a closed
\* year has recorded are not changed before the year is reopened.
ClosedBaseKept == \A y \in Years : status[y] = "CLOSED" =>
  \A r \in DOMAIN computed[y].caps :
    /\ register[r].value = computed[y].caps[r].value
    /\ register[r].life = computed[y].caps[r].life
=============================================================================
