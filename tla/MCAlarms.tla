------------------------------- MODULE MCAlarms -------------------------------
(***************************************************************************)
(* A small instance of Alarms for TLC: one rule of each type.              *)
(***************************************************************************)
EXTENDS Alarms

A(type, debounced, suppresses) == [type |-> type, debounced |-> debounced, suppresses |-> suppresses]

MCRule ==
  {A("threshold", TRUE, TRUE), A("threshold", FALSE, TRUE), A("stale_data", FALSE, FALSE),
   A("cal_overdue", FALSE, FALSE), A("health_flag", TRUE, FALSE), A("quality_streak", FALSE, FALSE)}
==============================================================================
