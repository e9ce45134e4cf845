----------------------------- MODULE MCPlotSync -----------------------------
(***************************************************************************)
(* PlotSync with three files, two of them copies of the same plot.         *)
(***************************************************************************)
EXTENDS PlotSync

TwoCopies == [f \in Files |-> IF f = 3 THEN 1 ELSE f]
AllPlots  == [f \in Files |-> "plot"]
==============================================================================
