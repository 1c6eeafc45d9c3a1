--------------------------- MODULE MCDepreciation ---------------------------
(* Depreciation in three scenes, one of which a behaviour keeps to: the split  *)
(* of a dwelling and what becomes of it, a building with components created    *)
(* one by one, an asset while the years are closed and reopened.               *)
EXTENDS Depreciation

VARIABLE scene

Plan(v, l, s) == [value |-> v, life |-> l, start |-> s]
MCParts == <<"roof", "walls">>
MCChairs == <<"chair">>
MCShares == <<6000, 4000>>
MCPlans == [building |-> {Plan(3, 3, 1)},
            roof |-> {Plan(2, 3, 2), Plan(2, 2, 1)},
            walls |-> {Plan(1, 3, 2)},
            chair |-> {Plan(1, 2, 2), Plan(2, 2, 0), Plan(2, 1, 3)}]

SplitDwelling == Dwelling \/ CorrectRow \/ Calculate \/ Book
BuildingByParts ==
  \/ \E plan \in Plans[Building] : CreateAsset(Building, plan)
  \/ \E c \in PartSet : \E plan \in Plans[c] : CreateComponent(c, plan)
  \/ CorrectRow \/ Calculate \/ PostDotations \/ Book
OneAsset ==
  \/ \E r \in ChairSet : \E plan \in Plans[r] : CreateAsset(r, plan)
  \/ CorrectRow \/ Rename \/ Calculate \/ PostDotations \/ Book \/ YearSteps

MCInit == /\ Init /\ scene \in {"dwelling", "parts", "years"}
          /\ scene # "dwelling" => property.price = Max(Prices)
MCNext == /\ \/ scene = "dwelling" /\ SplitDwelling
             \/ scene = "parts" /\ BuildingByParts
             \/ scene = "years" /\ OneAsset
          /\ UNCHANGED scene
MCSpec == MCInit /\ [][MCNext]_<<vars, scene>>
=============================================================================
