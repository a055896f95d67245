--------------------------- MODULE TrafficClasses ---------------------------
(***************************************************************************)
(* The traffic classes a DATA frame carries in its flags (wire/types.go).  *)
(***************************************************************************)

CONSTANTS Bulk, Realtime, Interactive

ASSUME ClassesDiffer ==
  Bulk # Realtime /\ Bulk # Interactive /\ Realtime # Interactive

Classes == {Bulk, Realtime, Interactive}
============================================================================
