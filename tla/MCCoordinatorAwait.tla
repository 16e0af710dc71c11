------------------------- MODULE MCCoordinatorAwait -------------------------
(* Small instances of CoordinatorAwait for TLC. *)
EXTENDS CoordinatorAwait

CONSTANTS w1, w2, t1, t2

Unpinned  == {NoWorker}
OneOrTwo  == {1, 2}
OnlyOne   == {1}
Wired     == {TRUE}
OneOrBoth == {{t1}, {t1, t2}}
=============================================================================
