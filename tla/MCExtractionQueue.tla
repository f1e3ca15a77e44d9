-------------------------- MODULE MCExtractionQueue --------------------------
(* Model values and lane layouts for the runs of ExtractionQueue. *)
EXTENDS ExtractionQueue

CONSTANTS i1, i2, dlane, flane, qlane, slane

\* One item, contested by the daemon's single lane and a foreground run.
OneItem == {i1}
TwoRunners == {dlane, flane}
DaemonOnly == {dlane}
ServeAll == [l \in Lanes |-> Items]

\* A quick item and a slow one, and the two lanes of one daemon.
TwoItems == {i1, i2}
TwoLanes == {qlane, slane}
QuickOnly == {qlane}
ServeByKind == [l \in Lanes |-> IF l = qlane THEN {i1} ELSE {i2}]

NoLanes == {}
=============================================================================
