--------------------------- MODULE MCMetricsHealth ---------------------------
(* A transcript whose phases differ, and a shorter one with a negative phase,*)
(* of which only the whole is measured.                                     *)
EXTENDS MetricsHealth

MCSplits == {[upload |-> 0, recognize |-> 2, assemble |-> 1],
             [upload |-> 1, recognize |-> 0, assemble |-> -1]}
=============================================================================
