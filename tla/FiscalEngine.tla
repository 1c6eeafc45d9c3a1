---------------------------- MODULE FiscalEngine ----------------------------
(***************************************************************************)
(* The pure LMNP computation of one fiscal year                            *)
(* (backend/app/domain/fiscal/engine.py), in integer cents: the cap on     *)
(* depreciation, the depreciation carried from earlier years and the       *)
(* losses carried for Horizon years.  A stock is what one origin year      *)
(* created, and what the other years used of it or let expire.             *)
(*                                                                         *)
(* Only the difference "margin" between the income and the charges other   *)
(* than depreciation enters the computation.                               *)
(***************************************************************************)
EXTENDS Integers, Functions

CONSTANTS NumYears,  \* the calendar years of the activity are 1..NumYears
          Horizon    \* TAX_LOSS_HORIZON_YEARS, 10 in the code

EngineAssumption == NumYears \in Nat /\ Horizon \in Nat

FYears == 1..NumYears
Smaller(a, b) == IF a <= b THEN a ELSE b
Pos(a) == IF a >= 0 THEN a ELSE 0

NoStock == [created |-> 0, used |-> 0, expired |-> 0]

\* Stock.remaining_before
Remaining(s) == Pos(s.created - s.used - s.expired)

\* Variant: the horizon is one year short.
InsideShorterHorizon(origin, year) == origin > year - Horizon

\* loss_is_inside_horizon
InsideHorizon(origin, year) == origin >= year - Horizon

\* _consume: the stocks in the order of their origin, until the budget is out.
Consume(available, budget) ==
  LET left[o \in 0..NumYears] ==
        IF o = 0 THEN budget
        ELSE left[o - 1] - Smaller(available[o], left[o - 1])
  IN [o \in FYears |-> left[o - 1] - left[o]]

AvailableOf(stocks) == [o \in FYears |-> Remaining(stocks[o])]
LossesInside(year, losses) ==
  [o \in FYears |-> IF InsideHorizon(o, year) THEN Remaining(losses[o]) ELSE 0]
\* _expire_losses
Expiries(year, losses) ==
  [o \in FYears |-> IF InsideHorizon(o, year) THEN 0 ELSE Remaining(losses[o])]

\* apply_lmnp
Apply(year, margin, depreciation, additions, carried, losses) ==
  LET capacity == Pos(margin + additions)
      current == Smaller(Pos(depreciation), capacity)
      depreciationUses == Consume(AvailableOf(carried), capacity - current)
      deductible == current + SumFunction(depreciationUses)
      before == margin - deductible + additions
      lossUses == Consume(LossesInside(year, losses), Pos(before))
      result == before - SumFunction(lossUses)
  IN [deductible |-> deductible,
      unused |-> Pos(depreciation) - current,
      depreciationUses |-> depreciationUses,
      lossUses |-> lossUses,
      lossExpiries |-> Expiries(year, losses),
      fiscalResult |-> result,
      taxLoss |-> Pos(-result)]
=============================================================================
