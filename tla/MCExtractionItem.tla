--------------------------- MODULE MCExtractionItem ---------------------------
(* Sources and workers for the runs of ExtractionItem. *)
EXTENDS ExtractionItem

CONSTANTS wa, wb, fig1, fig2

OneWorker == {wa}
BothWorkers == {wa, wb}
NoFigures == {}
TwoFigures == {fig1, fig2}

\* Three windows that never change; three that become five, so that the last
\* batch of two is a short one; one window that changes and stays one.
Fixed == <<3>>
Growing == <<3, 5>>
Edited == <<1, 1>>
=============================================================================
