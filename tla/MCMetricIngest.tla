--------------------------- MODULE MCMetricIngest ---------------------------
(***************************************************************************)
(* MetricIngest for TLC.  Every parameter is a number the configurations    *)
(* give; the horizon is long enough for the first parent to close, outlive  *)
(* its grace and be sealed.                                                 *)
(***************************************************************************)
EXTENDS MetricIngest
=============================================================================
