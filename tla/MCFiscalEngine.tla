--------------------------- MODULE MCFiscalEngine ---------------------------
(***************************************************************************)
(* The fiscal engine against what the law asks of it (docs/FISCAL_RULES.md,*)
(* CGI art. 39 C and 156), on every input up to the bounds.  One input is  *)
(* drawn per step.                                                         *)
(***************************************************************************)
EXTENDS FiscalEngine

CONSTANTS MaxAmount,   \* bound: amounts of the year and of a stock
          MaxAdditions \* bound: non-deductible charges added back

BoundsAssumption == MaxAmount \in Nat /\ MaxAdditions \in Nat

VARIABLE input

Year == NumYears
NoInput == [margin |-> 0, depreciation |-> 0, additions |-> 0,
            carried |-> [o \in FYears |-> NoStock],
            losses |-> [o \in FYears |-> NoStock]]

\* A stock partly used, partly expired; or used beyond what its year creates
\* once it was computed again.
Stocks == {[created |-> c, used |-> u, expired |-> 0] :
             c \in 0..MaxAmount, u \in 0..1}
          \cup {[created |-> 1, used |-> 0, expired |-> 1]}
Origins == 1..(NumYears - 1)
OnlyPrior(S) == {[o \in FYears |-> IF o \in Origins THEN f[o] ELSE NoStock] :
                   f \in [Origins -> S]}

\* The stocks of one register vary at a time: the two registers meet only in
\* the result before losses, which every margin already takes.
Init == input = NoInput
DrawDepreciations ==
  /\ input = NoInput
  /\ \E m \in -MaxAmount..MaxAmount, d \in -1..MaxAmount, a \in 0..MaxAdditions,
        s \in OnlyPrior(Stocks) :
       input' = [NoInput EXCEPT !.margin = m, !.depreciation = d,
                                !.additions = a, !.carried = s]
DrawLosses ==
  /\ input = NoInput
  /\ \E m \in -MaxAmount..MaxAmount, d \in 0..1, s \in OnlyPrior(Stocks) :
       input' = [NoInput EXCEPT !.margin = m, !.depreciation = d, !.losses = s]
Restart == input # NoInput /\ input' = NoInput
Next == DrawDepreciations \/ DrawLosses \/ Restart
Spec == Init /\ [][Next]_input

Split == Apply(Year, input.margin, input.depreciation, input.additions,
               input.carried, input.losses)

-----------------------------------------------------------------------------
\* The depreciation deducted, of the year and of the carried stocks together,
\* is as large as the positive margin and the stocks allow; what the year does
\* not deduct is carried, and no depreciation creates or deepens a loss.
DepreciationCapped ==
  LET split == Split
      base == input.margin + input.additions
      offered == Pos(input.depreciation) + SumFunction(AvailableOf(input.carried))
  IN /\ split.deductible = Smaller(offered, Pos(base))
     /\ split.taxLoss = Pos(-base)
     /\ split.unused = Pos(Pos(input.depreciation) - Pos(base))

\* A loss absorbs all it can of the profit inside its horizon, nothing beyond
\* it, and what is left of a loss beyond the horizon expires whole.
LossesAbsorbWithinHorizon ==
  LET split == Split
      used == SumFunction(split.lossUses)
      open == {o \in FYears : Year - o <= Horizon}
      offered == SumFunctionOnSet(AvailableOf(input.losses), open)
  IN /\ used = Smaller(offered, Pos(split.fiscalResult + used))
     /\ \A o \in FYears :
          /\ o \notin open => split.lossUses[o] = 0
          /\ split.lossExpiries[o] =
               IF o \in open THEN 0 ELSE Remaining(input.losses[o])

\* No computation takes from a stock more than its origin year created, even
\* when earlier uses already exceed it (the origin was reopened and computed
\* again since).
StocksNeverOverdrawn ==
  LET split == Split
      Taken(s, amount) == amount > 0 => s.used + s.expired + amount <= s.created
  IN \A o \in FYears :
       /\ Taken(input.carried[o], split.depreciationUses[o])
       /\ Taken(input.losses[o], split.lossUses[o] + split.lossExpiries[o])

\* First in, first out (PRIOR_USE_ORDER): a stock is touched only when every
\* older usable one is used up by the same computation.
OldestFirst ==
  LET split == Split IN
  \A o, p \in FYears : o < p =>
    /\ split.depreciationUses[p] > 0 =>
         split.depreciationUses[o] = Remaining(input.carried[o])
    /\ split.lossUses[p] > 0 /\ Year - o <= Horizon =>
         split.lossUses[o] = Remaining(input.losses[o])
\* What a computation deducts is what the law allows, neither more nor less,
\* and what it draws on the registers is theirs to give, oldest first.
AppliesTheLaw == /\ DepreciationCapped
                 /\ LossesAbsorbWithinHorizon
                 /\ StocksNeverOverdrawn
                 /\ OldestFirst
=============================================================================
