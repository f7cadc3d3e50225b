------------------------- MODULE MCMetricsExporter -------------------------
(***************************************************************************)
(* Scripts for checking MetricsExporter: a channel that is updated again or *)
(* removed, a descriptor that is deprecated and registered again, and       *)
(* deliveries.                                                              *)
(***************************************************************************)
EXTENDS MetricsExporter

ThreeEvents ==
  <<{"update", "register"}, {"update", "remove", "deprecate"},
    {"update", "register", "record"}>>

OneEvent == <<{"update"}>>
=============================================================================
